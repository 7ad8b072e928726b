----------------------------- MODULE RevisionLog -----------------------------
(***************************************************************************)
(* What a session repository promises (contract.md, IDEM-03): the history  *)
(* of a session is an append-only sequence of proposals, each applied at   *)
(* most once; a proposal reported as acknowledged has been applied, and    *)
(* one reported as rejected never will be.  An unresolved proposal may     *)
(* still be applied later.                                                 *)
(***************************************************************************)
EXTENDS Naturals, Sequences

CONSTANT CommitIds

VARIABLES history, outcome

Applied == {history[i] : i \in DOMAIN history}

Init ==
    /\ history = <<>>
    /\ outcome = [c \in CommitIds |-> "none"]

\* The proposal becomes the next revision; its author may learn so at once.
Apply(c) ==
    /\ c \notin Applied
    /\ outcome[c] \in {"none", "unresolved"}
    /\ history' = Append(history, c)
    /\ outcome' \in {outcome, [outcome EXCEPT ![c] = "acked"]}

\* save reports on a proposal, once.
Report(c, result) ==
    /\ outcome[c] = "none"
    /\ result = "acked" => c \in Applied
    /\ result = "rejected" => c \notin Applied
    /\ outcome' = [outcome EXCEPT ![c] = result]
    /\ UNCHANGED history

Next ==
    \E c \in CommitIds :
        \/ Apply(c)
        \/ \E result \in {"acked", "rejected", "unresolved"} : Report(c, result)

Spec == Init /\ [][Next]_<<history, outcome>>
=============================================================================
