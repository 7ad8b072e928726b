---------------------------- MODULE HistoryGroups ----------------------------
(***************************************************************************)
(* The grouping of the message history: interaction_groups and             *)
(* split_history of agent-rust/src/context.rs, and single_call_wire of     *)
(* engine.rs, which must agree on what a complete tool batch is.           *)
(*                                                                         *)
(* A message is a record of its role, the ids of the calls an assistant    *)
(* message asks for and the id a tool message answers.  A group is a pair  *)
(* of indexes; the goal, memory[0] in the code, is not part of the history.*)
(***************************************************************************)
EXTENDS Integers, Sequences, FiniteSets

Distinct(q) == \A i, j \in DOMAIN q : q[i] = q[j] => i = j
Elements(q) == {q[i] : i \in DOMAIN q}
Results(m, first, last) == [j \in 1..(last - first) |-> m[first + j].re]

\* Mutant: a batch may lack results at the end of the history.
GroupEndOpen(m, i) ==
    LET n == Len(m[i].calls)
        e == IF i + n > Len(m) THEN Len(m) ELSE i + n
    IN IF m[i].role = "tool" THEN 0 ELSE IF m[i].role # "assistant" \/ n = 0 THEN i
       ELSE IF \A j \in (i + 1)..e : m[j].role = "tool" /\ m[j].re \in Elements(m[i].calls)
       THEN e ELSE 0

\* The last index of the group that starts at i, 0 when there is none: an
\* orphaned result, or a batch whose results are not exactly its calls'.
GroupEnd(m, i) ==
    LET n == Len(m[i].calls)
        e == i + n
    IN IF m[i].role = "tool" THEN 0
       ELSE IF m[i].role # "assistant" \/ n = 0 THEN i
       ELSE IF /\ Distinct(m[i].calls) /\ e <= Len(m)
               /\ \A j \in (i + 1)..e : m[j].role = "tool"
               /\ Distinct(Results(m, i, e))
               /\ Elements(Results(m, i, e)) = Elements(m[i].calls)
       THEN e ELSE 0

Malformed == [first |-> 0, last |-> 0]

\* The groups from the i-th message on, up to the first error.
GroupsFrom(m) ==
    LET from[i \in 1..(Len(m) + 1)] ==
          IF i > Len(m) THEN <<>>
          ELSE IF GroupEnd(m, i) = 0 THEN <<Malformed>>
          ELSE <<[first |-> i, last |-> GroupEnd(m, i)]>> \o from[GroupEnd(m, i) + 1]
    IN from

\* interaction_groups
InteractionGroups(m) == GroupsFrom(m)[1]

Grouped(m) == Malformed \notin Elements(InteractionGroups(m))

\* split_history: how many leading groups are history, when the rest is the
\* shortest run of groups with at least minimum messages.
OldGroups(m, minimum) ==
    LET g == InteractionGroups(m)
        keeps == {k \in 0..Len(g) : Len(m) - (IF k = 0 THEN 0 ELSE g[k].last) >= minimum}
    IN IF keeps = {} THEN 0 ELSE CHOOSE k \in keeps : \A o \in keeps : o <= k

\* A batch with every call alone, followed by its own result.
SingleCalls(m, i) ==
    LET n == Len(m[i].calls)
        answer(id) == CHOOSE j \in (i + 1)..(i + n) : m[j].re = id
    IN [j \in 1..(2 * n) |-> LET id == m[i].calls[(j + 1) \div 2]
                             IN IF j % 2 = 1 THEN [m[i] EXCEPT !.calls = <<id>>] ELSE m[answer(id)]]

\* The wire messages from the i-th message on, up to the first error.
WireFrom(m) ==
    LET wire[i \in 1..(Len(m) + 1)] ==
          IF i > Len(m) THEN <<>>
          ELSE LET e == GroupEnd(m, i)
               IN IF e = 0 THEN <<>>
                  ELSE (IF e = i THEN <<m[i]>> ELSE SingleCalls(m, i)) \o wire[e + 1]
    IN wire

\* single_call_wire
SingleCallWire(m) == WireFrom(m)[1]

----------------------------------------------------------------------------
(* What a grouping is, without an algorithm *)

\* The segment of m from a to b is one interaction.
IsInteraction(m, a, b) ==
    \/ a = b /\ m[a].role # "tool" /\ (m[a].role = "assistant" => m[a].calls = <<>>)
    \/ /\ a < b /\ m[a].role = "assistant" /\ b - a = Len(m[a].calls)
       /\ \A j \in (a + 1)..b : m[j].role = "tool" /\ m[j].re \in Elements(m[a].calls)
       /\ \A k \in DOMAIN m[a].calls :
             Cardinality({j \in (a + 1)..b : m[j].re = m[a].calls[k]}) = 1

\* The sets of first indexes that cut m into interactions.
Cuts(m) ==
    {c \in SUBSET DOMAIN m :
        /\ m # <<>> => 1 \in c
        /\ \A a \in c : LET later == {x \in c : x > a}
                            b == IF later = {} THEN Len(m)
                                 ELSE (CHOOSE x \in later : \A y \in later : x <= y) - 1
                        IN IsInteraction(m, a, b)}

\* interaction_groups accepts a history exactly when it can be cut into
\* complete interactions, and finds the one way to cut it.
CutIsRight(m) ==
    /\ Grouped(m) <=> Cuts(m) # {}
    /\ Grouped(m) => Cuts(m) = {{InteractionGroups(m)[k].first : k \in DOMAIN InteractionGroups(m)}}

\* split_history keeps at least the minimum of the newest messages (or all of
\* them), whole groups only, and gives up as much history as that allows.
SplitIsRight(m, minimum) ==
    Grouped(m) =>
      LET g == InteractionGroups(m)
          k == OldGroups(m, minimum)
          kept(n) == Len(m) - (IF n = 0 THEN 0 ELSE g[n].last)
      IN /\ k \in 0..Len(g)
         /\ k > 0 => kept(k) >= minimum
         /\ k < Len(g) /\ kept(0) >= minimum => kept(k + 1) < minimum

\* single_call_wire keeps the messages in their order and gives every call of
\* a batch, in the order asked, its own result as the next message.
PairsAreRight(m) ==
    Grouped(m) =>
      LET w == SingleCallWire(m)
          Asked(q) == {p \in (DOMAIN q) \X (1..Len(m)) :
                          q[p[1]].role = "assistant" /\ p[2] <= Len(q[p[1]].calls)}
      IN /\ Grouped(w)
         /\ \A i \in DOMAIN w : Len(w[i].calls) <= 1
         /\ \A i \in DOMAIN w : w[i].calls # <<>> /\ w[i].role = "assistant" =>
                                  w[i + 1].role = "tool" /\ w[i + 1].re = w[i].calls[1]
         /\ Cardinality(Asked(w)) = Cardinality(Asked(m))
=============================================================================
