--------------------------- MODULE MCHistoryGroups ---------------------------
(***************************************************************************)
(* Every history of at most MaxLength messages, grown message by message:  *)
(* the histories the engine writes and those it must refuse.               *)
(***************************************************************************)
EXTENDS HistoryGroups

CONSTANTS Ids,         \* call ids
          MaxBatch,    \* bound: calls of one assistant message
          MaxLength,   \* bound: messages
          Minimum      \* raw_turns_to_keep

VARIABLE m

Batches == UNION {[1..n -> Ids] : n \in 0..MaxBatch}
Said(role, calls, re) == [role |-> role, calls |-> calls, re |-> re]
Messages == {Said("user", <<>>, 0)} \cup {Said("assistant", c, 0) : c \in Batches}
            \cup {Said("tool", <<>>, i) : i \in Ids}

Init == m = <<>>
Next == Len(m) < MaxLength /\ \E x \in Messages : m' = Append(m, x)
Spec == Init /\ [][Next]_m

\* interaction_groups, split_history and single_call_wire agree with the
\* reference on every history, also on those they must refuse.
GroupsAreTheCut == CutIsRight(m)
SplitKeepsMinimum == SplitIsRight(m, Minimum)
SingleCallIsPaired == PairsAreRight(m)
=============================================================================
