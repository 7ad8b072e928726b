--------------------------- MODULE MCConversation ---------------------------
(***************************************************************************)
(* Instances of Conversation with a window of a few messages, so that the  *)
(* soft threshold, the hard budget and the summary budget are all met.     *)
(***************************************************************************)
EXTENDS Conversation
=============================================================================
