---------------------------- MODULE MCTranscript ----------------------------
(***************************************************************************)
(* The instances of Transcript that TLC checks.                            *)
(***************************************************************************)
EXTENDS Transcript
=============================================================================
