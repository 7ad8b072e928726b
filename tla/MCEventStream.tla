--------------------------- MODULE MCEventStream ---------------------------
(***************************************************************************)
(* Instances of EventStream with a channel and a page of two events, so    *)
(* that both fill up, and one or no reconnected stream.                    *)
(***************************************************************************)
EXTENDS EventStream
=============================================================================
