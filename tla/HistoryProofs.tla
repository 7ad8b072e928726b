------------------------- MODULE HistoryProofs -------------------------
(***************************************************************************)
(* Proofs about HistoryGroups and Conversation, for every history, window, *)
(* budget and policy, and about Transcript, for every number of tries,     *)
(* identities, commits and faults.                                         *)
(*                                                                         *)
(* The functions on the history are recursive; induction over it is by a   *)
(* greatest counterexample: of the indexes at which a fact fails, one is   *)
(* the greatest, and the recursion goes on behind it.                      *)
(***************************************************************************)
EXTENDS Conversation, Transcript, TLAPS, SequenceTheorems, FiniteSetTheorems, WellFoundedInduction,
        NaturalsInduction

LEMMA GreatestIndex ==
    ASSUME NEW n \in Nat, NEW S \in SUBSET (1..n), S # {}
    PROVE  \E k \in S : \A o \in S : o <= k
<1> DEFINE R == OpToRel(<, Nat)
           T == {d \in Nat : \E o \in S : d = n - o}
<1>1. IsWellFoundedOn(R, Nat)
  BY NatLessThanWellFounded
<1>2. \A x, y \in Nat : x < y => <<x, y>> \in R
  BY DEF OpToRel
<1>3. T \in SUBSET Nat /\ T # {}
  <2>1. PICK o \in S : TRUE
    OBVIOUS
  <2>2. n - o \in Nat
    BY <2>1
  <2> QED BY <2>1, <2>2
<1> HIDE DEF R, T
<1>4. PICK d \in T : \A y \in T : ~ (<<y, d>> \in R)
  BY <1>1, <1>3, WFMin
<1>5. PICK k \in S : d = n - k
  BY DEF T
<1>6. ASSUME NEW o \in S PROVE o <= k
  <2>1. n - o \in T /\ n - o \in Nat /\ d \in Nat
    BY DEF T
  <2>2. ~ (n - o < d)
    BY <2>1, <1>2, <1>4
  <2> QED BY <2>1, <2>2, <1>5
<1> QED BY <1>6

----------------------------------------------------------------------------
(* Groups *)

LEMMA MessageTypes ==
    ASSUME NEW m \in Seq(Messages), NEW i \in 1..Len(m)
    PROVE  /\ m[i] \in Messages /\ m[i].role \in {"user", "assistant", "tool"}
           /\ m[i].calls \in Seq(Nat) /\ Len(m[i].calls) \in Nat /\ m[i].re \in Nat
<1>1. m[i] \in Messages
  OBVIOUS
<1> QED BY <1>1 DEF Messages

LEMMA GroupEndType ==
    ASSUME NEW m \in Seq(Messages), NEW i \in 1..Len(m)
    PROVE  GroupEnd(m, i) = 0 \/ GroupEnd(m, i) \in i..Len(m)
<1>1. Len(m[i].calls) \in Nat /\ Len(m) \in Nat
  BY MessageTypes
<1> QED BY <1>1 DEF GroupEnd

\* What the recursion of interaction_groups computes from the i-th message on,
\* when f has what it computes from the later ones on.
GroupsAt(m, f, i) ==
    IF i > Len(m) THEN <<>>
    ELSE IF GroupEnd(m, i) = 0 THEN <<Malformed>>
    ELSE <<[first |-> i, last |-> GroupEnd(m, i)]>> \o f[GroupEnd(m, i) + 1]

\* The recursion of interaction_groups comes to an end: the function exists.
LEMMA GroupsExist ==
    ASSUME NEW m \in Seq(Messages)
    PROVE  \E f : f = [i \in 1..(Len(m) + 1) |-> GroupsAt(m, f, i)]
<1> DEFINE n == Len(m)
           Ok(k) == \E f : f = [i \in k..(n + 1) |-> GroupsAt(m, f, i)]
           S == {k \in 1..(n + 1) : ~Ok(k)}
<1>1. n \in Nat
  OBVIOUS
<1>2. SUFFICES S = {}
  <2>1. 1 \in 1..(n + 1)
    BY <1>1
  <2>2. Ok(1)
    BY <1>2, <2>1
  <2> QED BY <2>2
<1>3. SUFFICES ASSUME S # {} PROVE FALSE
  OBVIOUS
<1>4. PICK k \in S : \A o \in S : o <= k
  <2>1. S \in SUBSET (1..(n + 1)) /\ n + 1 \in Nat
    BY <1>1
  <2> HIDE DEF S
  <2> QED BY <2>1, <1>3, GreatestIndex
<1>5. CASE k = n + 1
  <2> DEFINE f == [i \in k..(n + 1) |-> <<>>]
  <2>1. \A i \in k..(n + 1) : GroupsAt(m, f, i) = <<>>
    BY <1>1, <1>5 DEF GroupsAt
  <2>2. f = [i \in k..(n + 1) |-> GroupsAt(m, f, i)]
    BY <2>1
  <2> QED BY <2>2
<1>6. CASE k # n + 1
  <2>1. k \in 1..n /\ k + 1 \in 1..(n + 1)
    BY <1>1, <1>6
  <2>2. Ok(k + 1)
    <3>1. k + 1 \notin S
      BY <1>4, <2>1
    <3> QED BY <3>1, <2>1
  <2>3. PICK f : f = [i \in (k + 1)..(n + 1) |-> GroupsAt(m, f, i)]
    BY <2>2
  <2> DEFINE g == [i \in k..(n + 1) |-> IF i = k THEN GroupsAt(m, f, k) ELSE f[i]]
  <2>4. \A i \in (k + 1)..(n + 1) : g[i] = f[i]
    BY <2>1
  <2>5. ASSUME NEW i \in k..(n + 1) PROVE GroupsAt(m, g, i) = GroupsAt(m, f, i)
    <3>1. CASE i > n
      BY <3>1 DEF GroupsAt
    <3>2. CASE i <= n
      <4>1. GroupEnd(m, i) = 0 \/ GroupEnd(m, i) \in i..n
        BY <1>1, <2>1, <3>2, GroupEndType
      <4>2. GroupEnd(m, i) # 0 => g[GroupEnd(m, i) + 1] = f[GroupEnd(m, i) + 1]
        BY <1>1, <2>1, <2>4, <4>1
      <4> HIDE DEF g
      <4> QED BY <4>2 DEF GroupsAt
    <3> QED BY <3>1, <3>2, <1>1, <2>1
  <2>6. \A i \in k..(n + 1) : g[i] = GroupsAt(m, f, i)
    BY <2>1, <2>3
  <2>7. g = [i \in k..(n + 1) |-> GroupsAt(m, g, i)]
    <3>1. g = [i \in k..(n + 1) |-> g[i]]
      OBVIOUS
    <3> HIDE DEF g
    <3> QED BY <2>5, <2>6, <3>1
  <2> QED BY <2>7
<1> QED BY <1>5, <1>6

\* The recursive equation of interaction_groups.
LEMMA GroupsEquation ==
    ASSUME NEW m \in Seq(Messages), NEW i \in 1..(Len(m) + 1)
    PROVE  GroupsFrom(m)[i] = GroupsAt(m, GroupsFrom(m), i)
<1>1. GroupsFrom(m) = CHOOSE f : f = [j \in 1..(Len(m) + 1) |-> GroupsAt(m, f, j)]
  BY DEF GroupsFrom, GroupsAt
<1>2. GroupsFrom(m) = [j \in 1..(Len(m) + 1) |-> GroupsAt(m, GroupsFrom(m), j)]
  BY <1>1, GroupsExist
<1> QED BY <1>2

\* No group from the i-th message on is malformed.
Complete(m, i) == Malformed \notin Elements(GroupsFrom(m)[i])

Groups == [first : Nat, last : Nat]

\* The groups from any message on are a sequence; each starts there or later.
LEMMA GroupsType ==
    ASSUME NEW m \in Seq(Messages), NEW i \in 1..(Len(m) + 1)
    PROVE  GroupsFrom(m)[i] \in Seq(Groups)
<1> DEFINE n == Len(m)
           S == {k \in 1..(n + 1) : GroupsFrom(m)[k] \notin Seq(Groups)}
<1>1. n \in Nat
  OBVIOUS
<1>2. SUFFICES ASSUME S # {} PROVE FALSE
  OBVIOUS
<1>3. PICK k \in S : \A o \in S : o <= k
  <2>1. S \in SUBSET (1..(n + 1)) /\ n + 1 \in Nat
    BY <1>1
  <2> HIDE DEF S
  <2> QED BY <2>1, <1>2, GreatestIndex
<1>4. GroupsFrom(m)[k] = GroupsAt(m, GroupsFrom(m), k)
  BY GroupsEquation
<1>5. CASE k > n \/ GroupEnd(m, k) = 0
  <2>1. Malformed \in Groups
    BY DEF Malformed, Groups
  <2>2. GroupsFrom(m)[k] = <<>> \/ GroupsFrom(m)[k] = <<Malformed>>
    BY <1>4, <1>5 DEF GroupsAt
  <2>3. <<>> \in Seq(Groups) /\ <<Malformed>> \in Seq(Groups)
    BY <2>1
  <2> QED BY <2>2, <2>3
<1>6. CASE k <= n /\ GroupEnd(m, k) # 0
  <2>1. GroupEnd(m, k) \in k..n
    BY <1>1, <1>6, GroupEndType
  <2>2. GroupEnd(m, k) + 1 \in 1..(n + 1) /\ GroupEnd(m, k) + 1 > k
    BY <1>1, <2>1
  <2>3. GroupsFrom(m)[GroupEnd(m, k) + 1] \in Seq(Groups)
    BY <1>3, <2>2
  <2>4. [first |-> k, last |-> GroupEnd(m, k)] \in Groups
    BY <1>1, <2>1 DEF Groups
  <2>5. GroupsFrom(m)[k] =
          <<[first |-> k, last |-> GroupEnd(m, k)]>> \o GroupsFrom(m)[GroupEnd(m, k) + 1]
    BY <1>1, <1>4, <1>6 DEF GroupsAt
  <2> HIDE DEF S
  <2>6. GroupsFrom(m)[k] \in Seq(Groups)
    BY <2>3, <2>4, <2>5
  <2> QED BY <2>6 DEF S
<1> QED BY <1>1, <1>5, <1>6

LEMMA ElementsOfConcat ==
    ASSUME NEW T, NEW x \in T, NEW q \in Seq(T)
    PROVE  /\ Elements(<<x>> \o q) = {x} \cup Elements(q)
           /\ Elements(<<>>) = {} /\ Elements(<<x>>) = {x}
<1> DEFINE r == <<x>> \o q
<1>1. r \in Seq(T) /\ Len(r) = Len(q) + 1 /\ r[1] = x /\ \A j \in 1..Len(q) : r[j + 1] = q[j]
  OBVIOUS
<1>2. DOMAIN r = 1..(Len(q) + 1) /\ DOMAIN q = 1..Len(q) /\ Len(q) \in Nat
  BY <1>1
<1> HIDE DEF r
<1>3. ASSUME NEW e \in Elements(r) PROVE e \in {x} \cup Elements(q)
  <2>1. PICK j \in 1..(Len(q) + 1) : e = r[j]
    BY <1>2 DEF Elements
  <2>2. CASE j = 1
    BY <2>1, <2>2, <1>1
  <2>3. CASE j # 1
    <3>1. j - 1 \in 1..Len(q) /\ r[(j - 1) + 1] = q[j - 1] /\ (j - 1) + 1 = j
      BY <1>1, <1>2, <2>3
    <3> QED BY <2>1, <3>1, <1>2 DEF Elements
  <2> QED BY <2>2, <2>3
<1>4. x \in Elements(r)
  BY <1>1, <1>2 DEF Elements
<1>5. ASSUME NEW e \in Elements(q) PROVE e \in Elements(r)
  <2>1. PICK j \in 1..Len(q) : e = q[j]
    BY <1>2 DEF Elements
  <2>2. j + 1 \in 1..(Len(q) + 1) /\ r[j + 1] = e
    BY <1>1, <1>2, <2>1
  <2> QED BY <2>2, <1>2 DEF Elements
<1>6. Elements(<<>>) = {} /\ Elements(<<x>>) = {x}
  BY DEF Elements
<1>7. Elements(r) = {x} \cup Elements(q)
  BY <1>3, <1>4, <1>5
<1> QED BY <1>6, <1>7 DEF r

\* A history is complete from i on when the group there is, and what follows it.
LEMMA CompleteEquation ==
    ASSUME NEW m \in Seq(Messages), NEW i \in 1..(Len(m) + 1)
    PROVE  /\ i = Len(m) + 1 => Complete(m, i) /\ Elements(GroupsFrom(m)[i]) = {}
           /\ i <= Len(m) =>
                /\ Complete(m, i) <=> GroupEnd(m, i) # 0 /\ Complete(m, GroupEnd(m, i) + 1)
                /\ GroupEnd(m, i) # 0 =>
                     Elements(GroupsFrom(m)[i]) =
                       {[first |-> i, last |-> GroupEnd(m, i)]}
                         \cup Elements(GroupsFrom(m)[GroupEnd(m, i) + 1])
<1>1. GroupsFrom(m)[i] = GroupsAt(m, GroupsFrom(m), i) /\ Len(m) \in Nat
  BY GroupsEquation
<1>2. Malformed \in Groups
  BY DEF Malformed, Groups
<1>3. CASE i = Len(m) + 1
  <2>1. GroupsFrom(m)[i] = <<>>
    BY <1>1, <1>3 DEF GroupsAt
  <2>2. Elements(GroupsFrom(m)[i]) = {}
    BY <2>1 DEF Elements
  <2> QED BY <2>2, <1>1, <1>3 DEF Complete
<1>4. CASE i # Len(m) + 1 /\ GroupEnd(m, i) = 0
  <2>1. GroupsFrom(m)[i] = <<Malformed>>
    BY <1>1, <1>4 DEF GroupsAt
  <2>2. Malformed \in Elements(GroupsFrom(m)[i])
    BY <2>1 DEF Elements
  <2> QED BY <1>4, <2>2 DEF Complete
<1>5. CASE i # Len(m) + 1 /\ GroupEnd(m, i) # 0
  <2> DEFINE e == GroupEnd(m, i)
             x == [first |-> i, last |-> e]
             q == GroupsFrom(m)[e + 1]
  <2>1. e \in i..Len(m)
    BY <1>1, <1>5, GroupEndType
  <2>2. e + 1 \in 1..(Len(m) + 1)
    BY <1>1, <2>1
  <2>3. x \in Groups /\ x # Malformed
    BY <1>1, <2>1 DEF Groups, Malformed
  <2>4. q \in Seq(Groups)
    BY <2>2, GroupsType
  <2>5. GroupsFrom(m)[i] = <<x>> \o q
    BY <1>1, <1>5 DEF GroupsAt
  <2>6. Elements(<<x>> \o q) = {x} \cup Elements(q)
    <3> HIDE DEF x, q
    <3> QED BY <2>3, <2>4, ElementsOfConcat
  <2>7. Complete(m, i) <=> Complete(m, e + 1)
    BY <2>3, <2>5, <2>6 DEF Complete
  <2> QED BY <1>5, <2>5, <2>6, <2>7
<1> QED BY <1>3, <1>4, <1>5

\* A set of indexes that holds the first one and, with every index, the one
\* behind its group shows that the history is complete.
LEMMA ClosedSetIsComplete ==
    ASSUME NEW m \in Seq(Messages), NEW C \in SUBSET (1..(Len(m) + 1)),
           \A i \in C : i <= Len(m) => GroupEnd(m, i) # 0 /\ GroupEnd(m, i) + 1 \in C,
           NEW i \in C
    PROVE  Complete(m, i)
<1> DEFINE n == Len(m)
           S == {k \in C : ~Complete(m, k)}
<1>1. n \in Nat
  OBVIOUS
<1>2. SUFFICES ASSUME S # {} PROVE FALSE
  OBVIOUS
<1>3. PICK k \in S : \A o \in S : o <= k
  <2>1. S \in SUBSET (1..(n + 1)) /\ n + 1 \in Nat
    <3>1. S \subseteq C /\ C \subseteq 1..(n + 1)
      OBVIOUS
    <3>2. n + 1 \in Nat
      BY <1>1
    <3> HIDE DEF S
    <3> QED BY <3>1, <3>2
  <2> HIDE DEF S
  <2> QED BY <2>1, <1>2, GreatestIndex
<1>4. CASE k = n + 1
  BY <1>4, CompleteEquation
<1>5. CASE k # n + 1
  <2>1. k \in 1..n
    BY <1>1, <1>5
  <2>2. GroupEnd(m, k) # 0 /\ GroupEnd(m, k) + 1 \in C
    BY <2>1
  <2>3. GroupEnd(m, k) \in k..n
    BY <2>1, <2>2, GroupEndType
  <2>4. Complete(m, GroupEnd(m, k) + 1)
    BY <1>1, <1>3, <2>2, <2>3
  <2>5. Complete(m, k)
    BY <1>1, <2>1, <2>2, <2>4, CompleteEquation
  <2> QED BY <2>5
<1> QED BY <1>4, <1>5

LEMMA GroupedIsComplete ==
    ASSUME NEW m \in Seq(Messages)
    PROVE  Grouped(m) <=> Complete(m, 1)
BY DEF Grouped, Complete, InteractionGroups

\* Every group of a complete history is the group of its first message, and the
\* history is complete in front of it and behind it.
LEMMA GroupsFact ==
    ASSUME NEW m \in Seq(Messages), NEW i \in 1..(Len(m) + 1), Complete(m, i),
           NEW x \in Elements(GroupsFrom(m)[i])
    PROVE  /\ x.first \in i..Len(m) /\ x.last = GroupEnd(m, x.first) /\ x.last \in x.first..Len(m)
           /\ Complete(m, x.first) /\ Complete(m, x.last + 1)
<1> DEFINE n == Len(m)
           Fact(k, y) == /\ y.first \in k..n /\ y.last = GroupEnd(m, y.first)
                         /\ y.last \in y.first..n
                         /\ Complete(m, y.first) /\ Complete(m, y.last + 1)
           Bad(k) == Complete(m, k) /\ \E y \in Elements(GroupsFrom(m)[k]) : ~Fact(k, y)
           S == {k \in 1..(n + 1) : Bad(k)}
<1>1. n \in Nat
  OBVIOUS
<1>2. SUFFICES S = {}
  OBVIOUS
<1>3. SUFFICES ASSUME S # {} PROVE FALSE
  OBVIOUS
<1>4. PICK k \in S : \A o \in S : o <= k
  <2>1. S \in SUBSET (1..(n + 1)) /\ n + 1 \in Nat
    <3>1. \A o \in S : o \in 1..(n + 1)
      BY Zenon
    <3>2. n + 1 \in Nat
      BY <1>1
    <3> HIDE DEF S
    <3> QED BY <3>1, <3>2
  <2> HIDE DEF S
  <2> QED BY <2>1, <1>3, GreatestIndex
<1>5. k \in 1..(n + 1) /\ Complete(m, k)
  BY <1>4
<1>6. PICK y \in Elements(GroupsFrom(m)[k]) : ~Fact(k, y)
  BY <1>4
<1>7. k \in 1..n
  BY <1>1, <1>5, <1>6, CompleteEquation
<1> DEFINE e == GroupEnd(m, k)
<1>8. e # 0 /\ Complete(m, e + 1)
  BY <1>1, <1>5, <1>7, CompleteEquation
<1>9. e \in k..n
  BY <1>7, <1>8, GroupEndType
<1>10. y = [first |-> k, last |-> e] \/ y \in Elements(GroupsFrom(m)[e + 1])
  BY <1>1, <1>6, <1>7, <1>8, CompleteEquation
<1>11. CASE y = [first |-> k, last |-> e]
  <2>1. y.first = k /\ y.last = e
    BY <1>11
  <2>2. Fact(k, y)
    BY <2>1, <1>1, <1>5, <1>7, <1>8, <1>9
  <2> QED BY <2>2, <1>6
<1>12. CASE y \in Elements(GroupsFrom(m)[e + 1])
  <2>1. e + 1 \in 1..(n + 1) /\ ~(e + 1 <= k)
    BY <1>1, <1>7, <1>9
  <2>2. e + 1 \notin S
    BY <2>1, <1>4
  <2>3. ~Bad(e + 1)
    BY <2>1, <2>2
  <2>4. Fact(e + 1, y)
    BY <2>3, <1>8, <1>12
  <2>5. Fact(k, y)
    BY <2>4, <1>1, <1>7, <1>9
  <2> QED BY <2>5, <1>6
<1> QED BY <1>10, <1>11, <1>12

\* The group of a message depends on the messages of the group only.
LEMMA GroupEndLocal ==
    ASSUME NEW m \in Seq(Messages), NEW p \in Seq(Messages), NEW d \in Int,
           NEW i \in 1..Len(m), i + d \in 1..Len(p), GroupEnd(m, i) # 0,
           \A j \in i..GroupEnd(m, i) : j + d <= Len(p) /\ p[j + d] = m[j]
    PROVE  GroupEnd(p, i + d) = GroupEnd(m, i) + d
<1> DEFINE e == GroupEnd(m, i)
           n == Len(m[i].calls)
<1>1. e \in i..Len(m) /\ n \in Nat /\ Len(m) \in Nat /\ Len(p) \in Nat
  BY GroupEndType, MessageTypes
<1>2. p[i + d] = m[i]
  BY <1>1
<1>3. CASE m[i].role # "assistant" \/ n = 0
  <2>1. m[i].role # "tool" /\ e = i
    BY <1>3, <1>1 DEF GroupEnd
  <2>2. GroupEnd(p, i + d) = i + d
    BY <1>2, <1>3, <2>1 DEF GroupEnd
  <2> QED BY <2>1, <2>2
<1>4. CASE m[i].role = "assistant" /\ n # 0
  <2>1. /\ e = i + n /\ Distinct(m[i].calls)
        /\ \A j \in (i + 1)..e : m[j].role = "tool"
        /\ Distinct(Results(m, i, e)) /\ Elements(Results(m, i, e)) = Elements(m[i].calls)
    BY <1>1, <1>4 DEF GroupEnd
  <2>2. e + d <= Len(p) /\ (i + d) + n = e + d
    BY <1>1, <2>1
  <2>3. \A j \in ((i + d) + 1)..(e + d) : p[j].role = "tool"
    <3> SUFFICES ASSUME NEW j \in ((i + d) + 1)..(e + d) PROVE p[j].role = "tool"
      OBVIOUS
    <3>1. PICK k \in (i + 1)..e : j = k + d
      <4>1. j - d \in (i + 1)..e /\ (j - d) + d = j
        BY <1>1, <2>1
      <4> QED BY <4>1
    <3>2. k \in i..e
      BY <1>1, <3>1
    <3>3. p[j] = m[k]
      BY <3>1, <3>2
    <3> QED BY <2>1, <3>1, <3>3
  <2>4. Results(p, i + d, e + d) = Results(m, i, e)
    <3>1. (e + d) - (i + d) = e - i
      BY <1>1
    <3>2. ASSUME NEW j \in 1..(e - i) PROVE p[(i + d) + j] = m[i + j]
      <4>1. i + j \in i..e /\ (i + j) + d = (i + d) + j
        BY <1>1
      <4> QED BY <4>1
    <3> HIDE DEF e
    <3> QED BY <3>1, <3>2 DEF Results
  <2> HIDE DEF e
  <2>5. GroupEnd(p, i + d) = e + d
    <3>1. Len(p[i + d].calls) = n /\ p[i + d].role = "assistant" /\ p[i + d].calls = m[i].calls
      BY <1>2, <1>4
    <3> QED BY <1>4, <2>1, <2>2, <2>3, <2>4, <3>1 DEF GroupEnd
  <2> QED BY <2>5 DEF e
<1> QED BY <1>3, <1>4, MessageTypes

\* Complete histories in a row are a complete history.
LEMMA GroupedConcat ==
    ASSUME NEW a \in Seq(Messages), NEW b \in Seq(Messages), Grouped(a), Grouped(b)
    PROVE  Grouped(a \o b)
<1> DEFINE m == a \o b
           n == Len(a)
           k == Len(b)
           A == {i \in 1..n : Complete(a, i)}
           B == {i \in (n + 1)..(n + k + 1) : Complete(b, i - n)}
           C == A \cup B
<1>1. n \in Nat /\ k \in Nat /\ m \in Seq(Messages) /\ Len(m) = n + k
  OBVIOUS
<1>2. \A j \in 1..n : m[j] = a[j]
  OBVIOUS
<1>3. \A j \in 1..k : m[j + n] = b[j]
  OBVIOUS
<1>4. Complete(a, 1) /\ Complete(b, 1)
  BY GroupedIsComplete
<1> HIDE DEF m
<1>5. n + 1 \in C
  BY <1>1, <1>4
<1>6. 1 \in C
  BY <1>1, <1>4, <1>5
<1>7. C \in SUBSET (1..(Len(m) + 1))
  BY <1>1
<1>8. ASSUME NEW i \in C, i <= Len(m) PROVE GroupEnd(m, i) # 0 /\ GroupEnd(m, i) + 1 \in C
  <2>1. CASE i \in A
    <3>1. GroupEnd(a, i) # 0 /\ Complete(a, GroupEnd(a, i) + 1)
      BY <1>1, <2>1, CompleteEquation
    <3>2. GroupEnd(a, i) \in i..n
      BY <2>1, <3>1, GroupEndType
    <3>3. \A j \in i..GroupEnd(a, i) : j + 0 <= Len(m) /\ m[j + 0] = a[j]
      BY <1>1, <1>2, <2>1, <3>2
    <3>4. i + 0 \in 1..Len(m) /\ i + 0 = i /\ GroupEnd(a, i) + 0 = GroupEnd(a, i)
      BY <1>1, <2>1, <3>2
    <3>5. GroupEnd(m, i + 0) = GroupEnd(a, i) + 0
      <4>1. i \in 1..Len(a) /\ 0 \in Int
        BY <2>1
      <4> QED BY <1>1, <3>1, <3>3, <3>4, <4>1, GroupEndLocal
    <3>6. GroupEnd(m, i) = GroupEnd(a, i)
      BY <3>4, <3>5
    <3>7. GroupEnd(a, i) + 1 \in A \/ GroupEnd(a, i) + 1 = n + 1
      BY <1>1, <2>1, <3>1, <3>2
    <3> QED BY <1>5, <3>1, <3>6, <3>7
  <2>2. CASE i \in B
    <3>1. PICK x \in 1..k : i = x + n
      <4>1. i - n \in 1..k /\ i = (i - n) + n
        BY <1>1, <1>8, <2>2
      <4> QED BY <4>1
    <3>2. Complete(b, x)
      <4>1. i - n = x
        BY <1>1, <3>1
      <4> QED BY <2>2, <4>1
    <3>3. GroupEnd(b, x) # 0 /\ Complete(b, GroupEnd(b, x) + 1)
      BY <1>1, <3>1, <3>2, CompleteEquation
    <3>4. GroupEnd(b, x) \in x..k
      BY <3>1, <3>3, GroupEndType
    <3>5. \A j \in x..GroupEnd(b, x) : j + n <= Len(m) /\ m[j + n] = b[j]
      BY <1>1, <1>3, <3>1, <3>4
    <3>6. x + n \in 1..Len(m) /\ n \in Int
      BY <1>1, <3>1
    <3>7. GroupEnd(m, x + n) = GroupEnd(b, x) + n
      BY <1>1, <3>1, <3>3, <3>5, <3>6, GroupEndLocal
    <3>8. GroupEnd(m, i) = GroupEnd(b, x) + n
      BY <3>1, <3>7
    <3>9. GroupEnd(m, i) + 1 \in (n + 1)..(n + k + 1)
          /\ (GroupEnd(m, i) + 1) - n = GroupEnd(b, x) + 1 /\ GroupEnd(m, i) # 0
      BY <1>1, <3>1, <3>4, <3>8
    <3> QED BY <3>3, <3>9
  <2> QED BY <2>1, <2>2
<1> HIDE DEF C
<1>9. Complete(m, 1)
  BY <1>1, <1>6, <1>7, <1>8, ClosedSetIsComplete
<1> QED BY <1>1, <1>9, GroupedIsComplete DEF m

\* What is left when the groups in front of it are taken away is complete.
LEMMA GroupedRest ==
    ASSUME NEW m \in Seq(Messages), NEW c \in 0..Len(m), Complete(m, c + 1)
    PROVE  Grouped(SubSeq(m, c + 1, Len(m)))
<1> DEFINE r == SubSeq(m, c + 1, Len(m))
           n == Len(m)
           C == {i \in 1..(n - c + 1) : Complete(m, i + c)}
<1>1. n \in Nat /\ r \in Seq(Messages) /\ Len(r) = n - c
  OBVIOUS
<1>2. \A j \in 1..(n - c) : r[j] = m[j + c]
  BY <1>1
<1> HIDE DEF r
<1>3. 1 \in C /\ C \in SUBSET (1..(Len(r) + 1))
  <2>1. 1 + c = c + 1 /\ 1 \in 1..(n - c + 1)
    BY <1>1
  <2> QED BY <1>1, <2>1
<1>4. ASSUME NEW i \in C, i <= Len(r) PROVE GroupEnd(r, i) # 0 /\ GroupEnd(r, i) + 1 \in C
  <2> DEFINE x == i + c
  <2>1. x \in 1..n /\ Complete(m, x) /\ i \in 1..(n - c)
    BY <1>1, <1>4
  <2>2. GroupEnd(m, x) # 0 /\ Complete(m, GroupEnd(m, x) + 1)
    BY <1>1, <2>1, CompleteEquation
  <2>3. GroupEnd(m, x) \in x..n
    BY <2>1, <2>2, GroupEndType
  <2>4. \A j \in x..GroupEnd(m, x) : j + (-c) <= Len(r) /\ r[j + (-c)] = m[j]
    <3> SUFFICES ASSUME NEW j \in x..GroupEnd(m, x)
                 PROVE  j + (-c) <= Len(r) /\ r[j + (-c)] = m[j]
      OBVIOUS
    <3>1. j - c \in 1..(n - c) /\ (j - c) + c = j /\ j + (-c) = j - c
      BY <1>1, <1>4, <2>1, <2>3
    <3>2. r[j - c] = m[(j - c) + c]
      BY <1>2, <3>1
    <3> QED BY <1>1, <3>1, <3>2
  <2>5. x + (-c) \in 1..Len(r) /\ -c \in Int /\ x + (-c) = i
    BY <1>1, <2>1
  <2> HIDE DEF x
  <2>6. GroupEnd(r, x + (-c)) = GroupEnd(m, x) + (-c)
    BY <1>1, <2>1, <2>2, <2>4, <2>5, GroupEndLocal
  <2>7. GroupEnd(r, i) = GroupEnd(m, x) + (-c)
    BY <2>5, <2>6
  <2>8. GroupEnd(r, i) \in i..(n - c) /\ (GroupEnd(r, i) + 1) + c = GroupEnd(m, x) + 1
    BY <1>1, <2>1, <2>3, <2>7 DEF x
  <2>9. GroupEnd(r, i) + 1 \in 1..(n - c + 1) /\ GroupEnd(r, i) # 0
    BY <1>1, <2>1, <2>8
  <2> QED BY <2>2, <2>8, <2>9
<1> HIDE DEF C
<1>5. Complete(r, 1)
  BY <1>1, <1>3, <1>4, ClosedSetIsComplete
<1> QED BY <1>1, <1>5, GroupedIsComplete DEF r

\* The groups of a complete history follow one another.
LEMMA GroupsOrdered ==
    ASSUME NEW m \in Seq(Messages), NEW i \in 1..(Len(m) + 1), Complete(m, i)
    PROVE  \A a, b \in DOMAIN GroupsFrom(m)[i] :
              a < b => GroupsFrom(m)[i][a].last < GroupsFrom(m)[i][b].first
<1> DEFINE n == Len(m)
           G == GroupsFrom(m)
           Ordered(k) == \A a, b \in DOMAIN G[k] : a < b => G[k][a].last < G[k][b].first
           S == {k \in 1..(n + 1) : Complete(m, k) /\ ~Ordered(k)}
<1>1. n \in Nat
  OBVIOUS
<1>2. SUFFICES S = {}
  OBVIOUS
<1>3. SUFFICES ASSUME S # {} PROVE FALSE
  OBVIOUS
<1>4. PICK k \in S : \A o \in S : o <= k
  <2>1. S \in SUBSET (1..(n + 1)) /\ n + 1 \in Nat
    BY <1>1
  <2> HIDE DEF S
  <2> QED BY <2>1, <1>3, GreatestIndex
<1>5. k \in 1..(n + 1) /\ Complete(m, k) /\ ~Ordered(k)
  BY <1>4
<1>6. G[k] = GroupsAt(m, G, k)
  BY <1>5, GroupsEquation
<1>7. k # n + 1
  <2> SUFFICES ASSUME k = n + 1 PROVE FALSE
    OBVIOUS
  <2>1. G[k] = <<>>
    BY <1>1, <1>6 DEF GroupsAt
  <2> QED BY <2>1, <1>5
<1>8. k \in 1..n
  BY <1>1, <1>5, <1>7
<1> DEFINE e == GroupEnd(m, k)
           x == [first |-> k, last |-> e]
           q == G[e + 1]
<1>9. e # 0 /\ Complete(m, e + 1)
  BY <1>1, <1>5, <1>8, CompleteEquation
<1>10. e \in k..n /\ e + 1 \in 1..(n + 1) /\ ~(e + 1 <= k)
  <2>1. e \in k..n
    BY <1>8, <1>9, GroupEndType
  <2> QED BY <2>1, <1>1, <1>8
<1>11. Ordered(e + 1)
  <2>1. e + 1 \notin S
    BY <1>4, <1>10
  <2> QED BY <2>1, <1>9, <1>10
<1>12. G[k] = <<x>> \o q
  BY <1>1, <1>6, <1>8, <1>9 DEF GroupsAt
<1>13. q \in Seq(Groups) /\ x \in Groups /\ x.last = e
  <2>1. x \in Groups
    BY <1>1, <1>8, <1>10 DEF Groups
  <2> QED BY <2>1, <1>10, GroupsType
<1>14. \A b \in DOMAIN q : q[b].first > e
  <2> SUFFICES ASSUME NEW b \in DOMAIN q PROVE q[b].first > e
    OBVIOUS
  <2>1. q[b] \in Elements(q)
    BY DEF Elements
  <2>2. q[b].first \in (e + 1)..n
    BY <1>9, <1>10, <2>1, GroupsFact
  <2> QED BY <2>2, <1>1, <1>10
<1> HIDE DEF x, q
<1>15. ASSUME NEW a \in DOMAIN G[k], NEW b \in DOMAIN G[k], a < b
       PROVE  G[k][a].last < G[k][b].first
  <2>1. Len(<<x>> \o q) = Len(q) + 1 /\ Len(q) \in Nat /\ DOMAIN q = 1..Len(q)
        /\ (<<x>> \o q)[1] = x /\ \A j \in 1..Len(q) : (<<x>> \o q)[j + 1] = q[j]
        /\ DOMAIN (<<x>> \o q) = 1..(Len(q) + 1)
    BY <1>13
  <2>2. a \in 1..(Len(q) + 1) /\ b \in 1..(Len(q) + 1)
    BY <1>12, <2>1, <1>15
  <2>3. b - 1 \in 1..Len(q) /\ (b - 1) + 1 = b
    BY <2>1, <2>2, <1>15
  <2>4. G[k][b] = q[b - 1]
    BY <1>12, <2>1, <2>3
  <2>5. CASE a = 1
    <3>1. G[k][a] = x
      BY <1>12, <2>1, <2>5
    <3>2. G[k][a].last = e
      BY <3>1, <1>13
    <3>3. q[b - 1].first > e
      BY <1>14, <2>1, <2>3
    <3> QED BY <3>2, <3>3, <2>4
  <2>6. CASE a # 1
    <3>1. a - 1 \in 1..Len(q) /\ (a - 1) + 1 = a /\ a - 1 < b - 1
      BY <2>1, <2>2, <2>6, <1>15
    <3>2. G[k][a] = q[a - 1]
      BY <1>12, <2>1, <3>1
    <3>3. q[a - 1].last < q[b - 1].first
      BY <1>11, <2>1, <2>3, <3>1 DEF q
    <3> QED BY <2>4, <3>2, <3>3
  <2> QED BY <2>5, <2>6
<1> QED BY <1>5, <1>15

\* split_history and the choice of the source: the source ends with a group,
\* what stays is complete and has at least raw_turns_to_keep messages.
LEMMA OldGroupsFact ==
    ASSUME NEW m \in Seq(Messages), NEW minimum \in Nat
    PROVE  /\ OldGroups(m, minimum) \in 0..Len(InteractionGroups(m))
           /\ LET g == InteractionGroups(m)
                  kept(n) == Len(m) - (IF n = 0 THEN 0 ELSE g[n].last)
                  k == OldGroups(m, minimum)
              IN /\ k > 0 => kept(k) >= minimum
                 /\ k < Len(g) /\ kept(0) >= minimum => kept(k + 1) < minimum
<1> DEFINE g == InteractionGroups(m)
           kept(n) == Len(m) - (IF n = 0 THEN 0 ELSE g[n].last)
           keeps == {k \in 0..Len(g) : kept(k) >= minimum}
           up == {k \in 1..(Len(g) + 1) : k - 1 \in keeps}
<1>1. g \in Seq(Groups) /\ Len(g) \in Nat /\ Len(m) \in Nat
  <2>1. g \in Seq(Groups)
    BY GroupsType DEF InteractionGroups
  <2> QED BY <2>1
<1>2. \A n \in 0..Len(g) : kept(n) \in Int
  <2> SUFFICES ASSUME NEW n \in 0..Len(g) PROVE kept(n) \in Int
    OBVIOUS
  <2>1. n # 0 => g[n] \in Groups
    BY <1>1
  <2>2. n # 0 => g[n].last \in Nat
    BY <2>1 DEF Groups
  <2> QED BY <1>1, <2>2
<1> HIDE DEF g, kept
<1>3. OldGroups(m, minimum) = IF keeps = {} THEN 0 ELSE CHOOSE k \in keeps : \A o \in keeps : o <= k
  BY DEF OldGroups, g, kept
<1>4. CASE keeps = {}
  <2>1. OldGroups(m, minimum) = 0
    BY <1>3, <1>4
  <2>2. 0 \in 0..Len(g) /\ kept(0) < minimum
    BY <1>1, <1>2, <1>4
  <2>3. /\ OldGroups(m, minimum) \in 0..Len(g)
        /\ ~(OldGroups(m, minimum) > 0) /\ ~(kept(0) >= minimum)
    BY <2>1, <2>2, <1>2
  <2> QED BY <2>3 DEF g, kept
<1>5. CASE keeps # {}
  <2>1. \E k \in keeps : \A o \in keeps : o <= k
    <3>1. up \in SUBSET (1..(Len(g) + 1)) /\ Len(g) + 1 \in Nat
      BY <1>1
    <3>2. up # {}
      <4>1. PICK k \in keeps : TRUE
        BY <1>5
      <4>2. k + 1 \in 1..(Len(g) + 1) /\ (k + 1) - 1 = k
        BY <4>1, <1>1
      <4> QED BY <4>1, <4>2
    <3>3. PICK k \in up : \A o \in up : o <= k
      <4> HIDE DEF up
      <4> QED BY <3>1, <3>2, GreatestIndex
    <3>4. k - 1 \in keeps /\ k \in 1..(Len(g) + 1)
      BY <3>3
    <3>5. ASSUME NEW o \in keeps PROVE o <= k - 1
      <4>1. o + 1 \in 1..(Len(g) + 1) /\ (o + 1) - 1 = o
        BY <1>1
      <4>2. o + 1 \in up
        BY <4>1
      <4>3. o + 1 <= k
        BY <4>2, <3>3
      <4> QED BY <4>3, <3>4, <1>1
    <3> QED BY <3>4, <3>5
  <2> DEFINE k == OldGroups(m, minimum)
  <2>2. k \in keeps /\ \A o \in keeps : o <= k
    <3> HIDE DEF keeps
    <3> QED BY <2>1, <1>3, <1>5
  <2>3. k \in 0..Len(g) /\ kept(k) >= minimum
    BY <2>2
  <2>4. k < Len(g) => k + 1 \in 0..Len(g) /\ k + 1 \notin keeps
    <3>1. k < Len(g) => k + 1 \in 0..Len(g)
      BY <2>3, <1>1
    <3>2. ~(k + 1 <= k)
      BY <2>3
    <3> QED BY <2>2, <3>1, <3>2
  <2>5. k < Len(g) => kept(k + 1) < minimum
    <3> SUFFICES ASSUME k < Len(g) PROVE kept(k + 1) < minimum
      OBVIOUS
    <3>1. k + 1 \in 0..Len(g) /\ ~(kept(k + 1) >= minimum)
      BY <2>4
    <3>2. kept(k + 1) \in Int
      BY <1>2, <3>1
    <3> QED BY <3>1, <3>2
  <2> QED BY <2>3, <2>5 DEF g, kept
<1> QED BY <1>4, <1>5

----------------------------------------------------------------------------
(* The inductive invariant *)

Statuses == {"active", "complete", "failed"}
Labels == {"idle", "settle", "observe", "measure", "summarize", "send", "decide"}
Sources == [upto : Int, ledger : Nat]
LastType == [step : Nat, tokens : Nat \cup {None}, attempt : Nat \cup {None},
             failed : Sources \cup {None}]
Locals == [pass : 0..MaxPasses, attempts : 0..MaxAttempts, measured : Nat, hard : BOOLEAN,
           cut : Nat, groups : Nat, corrected : BOOLEAN, shrunk : Nat]

TypeInv ==
    /\ memory \in Seq(Messages) /\ spoken \in Seq(Messages) /\ asked \in Seq(Nat)
    /\ pending \in Seq(Nat) /\ callMap \subseteq Nat /\ ledger \in [size : Nat, id : Nat]
    /\ step \in Nat /\ status \in Statuses /\ finalOnly \in BOOLEAN
    /\ last \in LastType /\ last.step <= step
    /\ pc \in Labels /\ loc \in Locals

\* A batch is open only while it is being settled, or after a run that ended then.
BatchInv ==
    /\ pc \in {"observe", "measure", "summarize", "send", "decide"} => pending = <<>>
    /\ pc = "settle" => pending # <<>>

\* The source that is being summarised: what stays is complete and long enough,
\* and the request measured is the one that would be sent.
SourceInv ==
    pc = "summarize" =>
      /\ loc.pass < MaxPasses /\ loc.cut \in 1..Len(memory)
      /\ Grouped(Rest(loc.cut)) /\ Len(memory) - loc.cut >= RawTurns
      /\ loc.measured = RequestSize(memory, ledger.size)

\* Only assistant messages have calls.
RoleInv == \A i \in DOMAIN memory : memory[i].role # "assistant" => memory[i].calls = <<>>

\* Every id scheduled is in the call map, and the n-th one is at most 100 + n: a
\* fresh id is larger than all ids before it.
IdInv ==
    /\ Elements(asked) \subseteq callMap /\ Distinct(asked)
    /\ \A i \in DOMAIN asked : asked[i] <= 100 + i

\* The memory is the end of what was said.
SuffixInv ==
    /\ Len(memory) <= Len(spoken)
    /\ \A j \in 1..Len(memory) : memory[j] = spoken[(Len(spoken) - Len(memory)) + j]
    /\ Len(memory) >= RawTurns \/ Len(memory) = Len(spoken)

IInv == TypeInv /\ BatchInv /\ SourceInv /\ RoleInv /\ IdInv /\ SuffixInv

----------------------------------------------------------------------------
(* Sizes *)

LEMMA Budget ==
    /\ Window \in Nat /\ Reserve \in Nat /\ Margin \in Nat /\ SummaryReserve \in Nat
    /\ SoftLimit \in Nat /\ RawTurns \in Nat /\ RawTurns > 0 /\ MaxAttempts \in Nat
    /\ MaxPasses \in Nat /\ MinReduction \in Nat /\ MinReductionRatio \in Nat
    /\ ToolSize \in Nat /\ ToolSize > 0 /\ SummarySizes \subseteq Nat
    /\ RequestBase \in Nat /\ SummaryBase \in Nat /\ CorrectionSize \in Nat /\ MaxHistory \in Nat
    /\ MaxBatch \in Nat /\ RawIds \subseteq 1..100 /\ None \notin Nat
BY BudgetAssumption DEF ValidBudget

LEMMA WeightType ==
    ASSUME NEW m \in Seq(Messages), NEW size \in Nat
    PROVE  Weight(m) \in Nat /\ RequestSize(m, size) \in Nat
<1> DEFINE T == {i \in DOMAIN m : m[i].role = "tool"}
<1>1. DOMAIN m = 1..Len(m) /\ Len(m) \in Nat
  OBVIOUS
<1>2. IsFiniteSet(DOMAIN m) /\ T \in SUBSET DOMAIN m
  BY <1>1, FS_Interval
<1>3. Cardinality(T) \in Nat
  BY <1>2, FS_Subset, FS_CardinalityType
<1>4. ToolSize - 1 \in Nat
  BY Budget
<1>5. (ToolSize - 1) * Cardinality(T) \in Nat
  BY <1>3, <1>4
<1>6. Weight(m) = Len(m) + (ToolSize - 1) * Cardinality(T)
  BY DEF Weight
<1> HIDE DEF T
<1>7. Weight(m) \in Nat
  BY <1>1, <1>5, <1>6
<1> QED BY <1>7, Budget DEF RequestSize

\* The source of a pass.
LEMMA CutFact ==
    ASSUME TypeInv, Grouped(memory), SourceCut(OldGroups(memory, RawTurns)) # 0
    PROVE  LET cut == SourceCut(OldGroups(memory, RawTurns))
           IN cut \in 1..Len(memory) /\ Grouped(Rest(cut)) /\ Len(memory) - cut >= RawTurns
<1> DEFINE g == InteractionGroups(memory)
           old == OldGroups(memory, RawTurns)
           fit == {k \in 1..old : SummaryFits(g[k].last, FALSE)}
           k == CHOOSE x \in fit : \A o \in fit : o <= x
           cut == SourceCut(old)
<1>1. memory \in Seq(Messages) /\ Len(memory) \in Nat
  BY DEF TypeInv
<1>2. g \in Seq(Groups) /\ Len(g) \in Nat
  <2>1. g \in Seq(Groups)
    BY <1>1, GroupsType DEF InteractionGroups
  <2> QED BY <2>1
<1>3. old \in 0..Len(g) /\ (old > 0 => Len(memory) - g[old].last >= RawTurns)
  BY <1>1, Budget, OldGroupsFact
<1>4. cut = IF fit = {} THEN 0 ELSE g[k].last
  BY DEF SourceCut
<1>5. fit # {} /\ cut = g[k].last
  BY <1>4
<1>6. k \in fit
  <2>1. fit \in SUBSET (1..old)
    BY Zenon
  <2>2. old \in Nat
    BY <1>2, <1>3
  <2> HIDE DEF fit, old
  <2>3. \E x \in fit : \A o \in fit : o <= x
    BY <1>5, <2>1, <2>2, GreatestIndex
  <2> QED BY <2>3
<1>7. k \in 1..old
  BY <1>6
<1> HIDE DEF k, fit, old, g
<1>8. k \in DOMAIN g /\ old \in DOMAIN g /\ k <= old /\ old > 0
  BY <1>2, <1>3, <1>7
<1>9. Complete(memory, 1) /\ 1 \in 1..(Len(memory) + 1)
  BY <1>1, GroupedIsComplete
<1>10. g[k] \in Elements(GroupsFrom(memory)[1]) /\ g[old] \in Elements(GroupsFrom(memory)[1])
  BY <1>8 DEF Elements, g, InteractionGroups
<1>11. g[k].last \in 1..Len(memory) /\ Complete(memory, g[k].last + 1)
       /\ g[old].last \in Nat /\ g[old].first \in Nat /\ g[old].first <= g[old].last
  BY <1>1, <1>9, <1>10, GroupsFact
<1>12. g[k].last <= g[old].last
  <2>1. CASE k = old
    BY <2>1, <1>11
  <2>2. CASE k # old
    <3>1. k < old
      BY <2>2, <1>3, <1>7, <1>2
    <3>2. g[k].last < g[old].first
      BY <1>1, <1>8, <1>9, <3>1, GroupsOrdered DEF g, InteractionGroups
    <3> QED BY <3>2, <1>11
  <2> QED BY <2>1, <2>2
<1>13. Grouped(SubSeq(memory, cut + 1, Len(memory)))
  BY <1>1, <1>5, <1>11, GroupedRest
<1>14. Len(memory) - cut >= RawTurns
  BY <1>1, <1>3, <1>5, <1>8, <1>11, <1>12, Budget
<1> QED BY <1>5, <1>11, <1>13, <1>14 DEF Rest, old

----------------------------------------------------------------------------
(* Steps *)

LEMMA InitIInv == Init => IInv
<1> SUFFICES ASSUME Init PROVE IInv
  OBVIOUS
<1>1. last \in LastType /\ last.step = 0
  BY DEF Init, LastType
<1>2. loc \in Locals
  BY Budget DEF Init, NoLocals, Locals
<1>3. ledger \in [size : Nat, id : Nat]
  BY DEF Init
<1>4. memory = <<>> /\ spoken = <<>> /\ asked = <<>> /\ pending = <<>>
  BY DEF Init
<1>5. TypeInv
  <2>1. last.step <= step
    BY <1>1 DEF Init
  <2>2. status \in Statuses /\ pc \in Labels /\ finalOnly \in BOOLEAN /\ step \in Nat
        /\ callMap \subseteq Nat
    BY DEF Init, Statuses, Labels
  <2>3. <<>> \in Seq(Messages) /\ <<>> \in Seq(Nat)
    OBVIOUS
  <2> QED BY <1>1, <1>2, <1>3, <1>4, <2>1, <2>2, <2>3, Zenon DEF TypeInv
<1>6. IdInv
  BY <1>4 DEF Init, IdInv, Elements, Distinct
<1>7. BatchInv /\ SourceInv
  BY <1>4 DEF Init, BatchInv, SourceInv
<1>8. RoleInv /\ SuffixInv
  BY <1>4 DEF RoleInv, SuffixInv
<1> QED BY <1>5, <1>6, <1>7, <1>8 DEF IInv

LEMMA MessageShapes ==
    /\ User \in Messages /\ \A id \in Nat : Result(id) \in Messages
    /\ \A c \in Seq(Nat) : Assistant(c) \in Messages
    /\ User.calls = <<>> /\ \A id : Result(id).calls = <<>>
    /\ \A c : Assistant(c).role = "assistant" /\ Assistant(c).calls = c
    /\ User.role = "user" /\ \A id : Result(id).role = "tool" /\ Result(id).re = id
    /\ Assistant(<<>>) \in Messages /\ Assistant(<<>>).calls = <<>>
BY DEF User, Result, Assistant, Messages

\* What an append keeps: the memory stays the end of what was said.
LEMMA AppendFact ==
    ASSUME IInv, NEW q \in Seq(Messages), Append_(q),
           \A i \in DOMAIN q : q[i].role # "assistant" => q[i].calls = <<>>
    PROVE  memory' \in Seq(Messages) /\ spoken' \in Seq(Messages) /\ SuffixInv' /\ RoleInv'
<1>1. memory \in Seq(Messages) /\ spoken \in Seq(Messages)
  BY DEF IInv, TypeInv
<1>2. memory' = memory \o q /\ spoken' = spoken \o q
  BY DEF Append_
<1>3. /\ memory' \in Seq(Messages) /\ Len(memory') = Len(memory) + Len(q)
      /\ spoken' \in Seq(Messages) /\ Len(spoken') = Len(spoken) + Len(q)
      /\ Len(memory) \in Nat /\ Len(spoken) \in Nat /\ Len(q) \in Nat
  BY <1>1, <1>2
<1>4. /\ \A j \in 1..Len(memory) : memory'[j] = memory[j]
      /\ \A j \in 1..Len(q) : memory'[Len(memory) + j] = q[j]
      /\ \A j \in 1..Len(spoken) : spoken'[j] = spoken[j]
      /\ \A j \in 1..Len(q) : spoken'[Len(spoken) + j] = q[j]
  BY <1>1, <1>2
<1>5. RoleInv'
  <2> SUFFICES ASSUME NEW i \in 1..Len(memory'), memory'[i].role # "assistant"
               PROVE  memory'[i].calls = <<>>
    BY <1>3 DEF RoleInv
  <2>1. CASE i <= Len(memory)
    <3>1. i \in 1..Len(memory) /\ i \in DOMAIN memory
      BY <1>1, <1>3, <2>1
    <3> QED BY <1>4, <3>1 DEF IInv, RoleInv
  <2>2. CASE i > Len(memory)
    <3>1. PICK j \in 1..Len(q) : i = Len(memory) + j
      <4>1. i - Len(memory) \in 1..Len(q) /\ i = Len(memory) + (i - Len(memory))
        BY <1>3, <2>2
      <4> QED BY <4>1
    <3>2. memory'[i] = q[j] /\ j \in DOMAIN q
      BY <1>4, <3>1
    <3> QED BY <3>2
  <2> QED BY <2>1, <2>2, <1>3
<1>6. SuffixInv'
  <2>1. Len(memory) <= Len(spoken) /\ (Len(memory) >= RawTurns \/ Len(memory) = Len(spoken))
    BY DEF IInv, SuffixInv
  <2>2. Len(memory') <= Len(spoken') /\ (Len(memory') >= RawTurns \/ Len(memory') = Len(spoken'))
        /\ Len(spoken') - Len(memory') = Len(spoken) - Len(memory)
    BY <1>3, <2>1, Budget
  <2>3. ASSUME NEW j \in 1..Len(memory')
        PROVE  memory'[j] = spoken'[(Len(spoken') - Len(memory')) + j]
    <3>1. CASE j <= Len(memory)
      <4>1. j \in 1..Len(memory) /\ (Len(spoken) - Len(memory)) + j \in 1..Len(spoken)
        BY <1>3, <2>1, <3>1
      <4>2. memory[j] = spoken[(Len(spoken) - Len(memory)) + j]
        BY <4>1 DEF IInv, SuffixInv
      <4> QED BY <1>4, <2>2, <4>1, <4>2
    <3>2. CASE j > Len(memory)
      <4>1. PICK x \in 1..Len(q) : j = Len(memory) + x
        <5>1. j - Len(memory) \in 1..Len(q) /\ j = Len(memory) + (j - Len(memory))
          BY <1>3, <3>2
        <5> QED BY <5>1
      <4>2. (Len(spoken') - Len(memory')) + j = Len(spoken) + x
        BY <1>3, <2>1, <2>2, <4>1
      <4> QED BY <1>4, <4>1, <4>2
    <3> QED BY <3>1, <3>2, <1>3
  <2> QED BY <2>2, <2>3 DEF SuffixInv
<1> QED BY <1>3, <1>5, <1>6

LEMMA MessageStep == ASSUME IInv, Message PROVE IInv'
<1>1. <<User>> \in Seq(Messages) /\ \A i \in DOMAIN <<User>> : <<User>>[i].calls = <<>>
  BY MessageShapes
<1>2. Append_(<<User>>) /\ pc = "idle"
      /\ UNCHANGED <<finalOnly, ledger, pending, callMap, step, status, last, pc, loc, asked>>
  BY DEF Message
<1>3. memory' \in Seq(Messages) /\ spoken' \in Seq(Messages) /\ SuffixInv' /\ RoleInv'
  BY <1>1, <1>2, AppendFact
<1> QED BY <1>2, <1>3 DEF IInv, TypeInv, BatchInv, SourceInv, IdInv

LEMMA StartStep ==
    ASSUME IInv, NEW resume \in BOOLEAN, NEW content \in BOOLEAN, Start(resume, content)
    PROVE  IInv'
<1>1. <<User>> \in Seq(Messages) /\ \A i \in DOMAIN <<User>> : <<User>>[i].calls = <<>>
  BY MessageShapes
<1>2. /\ IF content THEN Append_(<<User>>) ELSE UNCHANGED <<memory, spoken>>
      /\ status' = "active" /\ pc' = IF pending # <<>> THEN "settle" ELSE "measure"
      /\ UNCHANGED <<finalOnly, ledger, pending, callMap, step, last, loc, asked>>
  BY DEF Start
<1>3. memory' \in Seq(Messages) /\ spoken' \in Seq(Messages) /\ SuffixInv' /\ RoleInv'
  <2>1. CASE content
    BY <1>1, <1>2, <2>1, AppendFact
  <2>2. CASE ~content
    BY <1>2, <2>2 DEF IInv, TypeInv, SuffixInv, RoleInv
  <2> QED BY <2>1, <2>2
<1>4. pc' \in Labels /\ pc' # "summarize"
  BY <1>2 DEF Labels
<1>5. TypeInv'
  BY <1>2, <1>3, <1>4 DEF IInv, TypeInv, Statuses
<1>6. BatchInv' /\ SourceInv' /\ IdInv'
  BY <1>2, <1>4 DEF IInv, BatchInv, SourceInv, IdInv
<1> QED BY <1>3, <1>5, <1>6 DEF IInv

\* The ids of a batch: new, and different from one another.
LEMMA ScheduledFact ==
    ASSUME IInv, NEW raw \in RawBatches
    PROVE  LET s == ScheduledIds(raw)
           IN /\ s \in Seq(Nat) /\ Len(s) \in 1..MaxBatch /\ Distinct(s)
              /\ \A j \in DOMAIN s : /\ s[j] \notin Elements(asked)
                                     /\ s[j] <= 100 + Len(asked) + j
<1> DEFINE s == ScheduledIds(raw)
           new(j) == \/ raw[j] = None \/ raw[j] \in HistoricalIds \cup callMap
                     \/ \E k \in 1..(j - 1) : raw[k] = raw[j]
           Fresh(j) == s[j] = 100 + Len(asked) + j
           Own(j) == /\ s[j] = raw[j] /\ raw[j] \in 1..100 /\ raw[j] \notin callMap
                     /\ \A k \in 1..(j - 1) : raw[k] # raw[j]
<1>1. PICK n \in 1..MaxBatch : raw \in [1..n -> RawIds \cup {None}]
  BY DEF RawBatches
<1>2. n \in Nat /\ n > 0 /\ Len(asked) \in Nat
  BY <1>1, Budget DEF IInv, TypeInv
<1>3. s = [j \in 1..n |-> IF new(j) THEN 100 + Len(asked) + j ELSE raw[j]]
  BY <1>1 DEF ScheduledIds, FreshId
<1>4. ASSUME NEW j \in 1..n
      PROVE  Fresh(j) \/ Own(j)
  <2>1. CASE new(j)
    <3> HIDE DEF new
    <3> QED BY <1>3, <2>1
  <2>2. CASE ~new(j)
    <3>1. s[j] = raw[j]
      <4> HIDE DEF new
      <4> QED BY <1>3, <2>2
    <3>2. raw[j] \in RawIds \cup {None} /\ raw[j] # None
      BY <1>1, <2>2
    <3> QED BY <2>2, <3>1, <3>2, Budget
  <2> QED BY <2>1, <2>2
<1>5. s \in Seq(Nat) /\ Len(s) = n /\ DOMAIN s = 1..n
  <2>1. ASSUME NEW j \in 1..n PROVE s[j] \in Nat
    <3>1. Fresh(j) \/ Own(j)
      BY <1>4
    <3>2. Fresh(j) => s[j] \in Nat
      <4> HIDE DEF s
      <4> QED BY <1>2
    <3>3. Own(j) => s[j] \in Nat
      <4> HIDE DEF s
      <4> QED OBVIOUS
    <3> QED BY <3>1, <3>2, <3>3
  <2>2. DOMAIN s = 1..n /\ s = [j \in 1..n |-> s[j]]
    <3> HIDE DEF new
    <3> QED BY <1>3
  <2> HIDE DEF s
  <2>3. s \in [1..n -> Nat]
    BY <2>1, <2>2
  <2> QED BY <1>2, <2>3
<1> HIDE DEF s, new
<1>6. \A i \in DOMAIN asked : asked[i] \in callMap /\ asked[i] <= 100 + i /\ i \in 1..Len(asked)
  BY DEF IInv, TypeInv, IdInv, Elements
<1>7. ASSUME NEW j \in 1..n PROVE s[j] \notin Elements(asked) /\ s[j] <= 100 + Len(asked) + j
  <2> HIDE DEF Fresh, Own
  <2>0. Fresh(j) \/ Own(j)
    BY <1>4
  <2>1. s[j] <= 100 + Len(asked) + j
    <3>1. Fresh(j) => s[j] <= 100 + Len(asked) + j
      BY <1>2 DEF Fresh
    <3>2. Own(j) => s[j] <= 100 + Len(asked) + j
      <4>1. Own(j) => s[j] \in 1..100
        BY Zenon DEF Own
      <4>2. Own(j) => s[j] \in Nat /\ s[j] <= 100
        BY <4>1
      <4> QED BY <1>2, <4>2
    <3> QED BY <2>0, <3>1, <3>2
  <2>2. ASSUME NEW i \in DOMAIN asked, s[j] = asked[i] PROVE FALSE
    <3>1. i \in 1..Len(asked) /\ asked[i] <= 100 + i
      BY <1>6
    <3>2. ~Own(j)
      BY <1>6, <2>2 DEF Own
    <3>3. ~Fresh(j)
      BY <1>2, <2>2, <3>1 DEF Fresh
    <3> QED BY <2>0, <3>2, <3>3
  <2> QED BY <2>1, <2>2 DEF Elements
<1>8. ASSUME NEW i \in 1..n, NEW j \in 1..n, i < j PROVE s[i] # s[j]
  <2>1. i \in 1..(j - 1)
    BY <1>2, <1>8
  <2>2. (Fresh(i) \/ Own(i)) /\ (Fresh(j) \/ Own(j))
    BY <1>4
  <2>3. CASE Fresh(i) /\ Fresh(j)
    BY <1>2, <1>8, <2>3
  <2>7. (Own(i) => s[i] <= 100) /\ (Own(j) => s[j] <= 100)
    <3>1. (Own(i) => s[i] \in 1..100) /\ (Own(j) => s[j] \in 1..100)
      BY Zenon
    <3> HIDE DEF Own
    <3> QED BY <3>1
  <2>8. 100 + Len(asked) + i > 100 /\ 100 + Len(asked) + j > 100
    BY <1>2
  <2>4. CASE Fresh(i) /\ Own(j)
    <3>1. s[j] <= 100 /\ s[i] = 100 + Len(asked) + i
      BY <2>4, <2>7, Zenon
    <3> QED BY <2>8, <3>1
  <2>5. CASE Own(i) /\ Fresh(j)
    <3>1. s[i] <= 100 /\ s[j] = 100 + Len(asked) + j
      BY <2>5, <2>7, Zenon
    <3> QED BY <2>8, <3>1
  <2>6. CASE Own(i) /\ Own(j)
    BY <2>1, <2>6
  <2> QED BY <2>2, <2>3, <2>4, <2>5, <2>6
<1>9. Distinct(s)
  <2> SUFFICES ASSUME NEW i \in 1..n, NEW j \in 1..n, s[i] = s[j] PROVE i = j
    BY <1>5 DEF Distinct
  <2> QED BY <1>2, <1>8
<1> QED BY <1>1, <1>5, <1>7, <1>9 DEF s

LEMMA DecideToolsStep == ASSUME IInv, NEW raw \in RawBatches, DecideTools(raw) PROVE IInv'
<1> DEFINE s == ScheduledIds(raw)
<1>1. /\ pc = "decide" /\ pending' = s /\ Append_(<<Assistant(s)>>)
      /\ callMap' = callMap \cup Elements(s) /\ asked' = asked \o s
      /\ step' = step + 1 /\ pc' = "settle"
      /\ UNCHANGED <<finalOnly, ledger, status, last, loc>>
  BY DEF DecideTools
<1>2. /\ s \in Seq(Nat) /\ Len(s) \in 1..MaxBatch /\ Distinct(s)
      /\ \A j \in DOMAIN s : s[j] \notin Elements(asked) /\ s[j] <= 100 + Len(asked) + j
  BY ScheduledFact
<1> HIDE DEF s
<1>3. asked \in Seq(Nat) /\ Len(asked) \in Nat /\ Len(s) \in Nat /\ Len(s) > 0
  BY <1>2, Budget DEF IInv, TypeInv
<1>4. /\ <<Assistant(s)>> \in Seq(Messages)
      /\ \A i \in DOMAIN <<Assistant(s)>> : <<Assistant(s)>>[i].role = "assistant"
  BY <1>2, MessageShapes
<1>5. memory' \in Seq(Messages) /\ spoken' \in Seq(Messages) /\ SuffixInv' /\ RoleInv'
  BY <1>1, <1>4, AppendFact
<1>6. /\ asked' \in Seq(Nat) /\ Len(asked') = Len(asked) + Len(s)
      /\ \A i \in 1..Len(asked) : asked'[i] = asked[i]
      /\ \A j \in 1..Len(s) : asked'[Len(asked) + j] = s[j]
  BY <1>1, <1>2, <1>3
<1>6a. \A j \in 1..Len(s) : j \in DOMAIN s /\ s[j] \in Nat
  BY <1>2
<1>7. ASSUME NEW i \in 1..Len(asked')
      PROVE  \/ i \in 1..Len(asked)
             \/ \E j \in 1..Len(s) : i = Len(asked) + j
  <2>1. CASE i <= Len(asked)
    BY <1>3, <2>1
  <2>2. CASE i > Len(asked)
    <3>1. i - Len(asked) \in 1..Len(s) /\ i = Len(asked) + (i - Len(asked))
      BY <1>3, <1>6, <2>2
    <3> QED BY <3>1
  <2> QED BY <2>1, <2>2, <1>3
<1>8. Elements(asked') \subseteq callMap'
  <2> SUFFICES ASSUME NEW i \in 1..Len(asked') PROVE asked'[i] \in callMap'
    BY <1>6 DEF Elements
  <2>1. CASE i \in 1..Len(asked)
    BY <2>1, <1>1, <1>3, <1>6 DEF IInv, IdInv, Elements
  <2>2. CASE \E j \in 1..Len(s) : i = Len(asked) + j
    BY <2>2, <1>1, <1>2, <1>6 DEF Elements
  <2> QED BY <1>7, <2>1, <2>2
<1>9. \A i \in 1..Len(asked') : asked'[i] <= 100 + i
  <2> SUFFICES ASSUME NEW i \in 1..Len(asked') PROVE asked'[i] <= 100 + i
    OBVIOUS
  <2>1. CASE i \in 1..Len(asked)
    <3>1. asked'[i] = asked[i]
      BY <2>1, <1>6
    <3>2. asked[i] <= 100 + i
      BY <2>1 DEF IInv, IdInv
    <3> QED BY <3>1, <3>2
  <2>2. ASSUME NEW j \in 1..Len(s), i = Len(asked) + j PROVE asked'[i] <= 100 + i
    <3>1. asked'[i] = s[j]
      BY <2>2, <1>6
    <3>2. s[j] <= 100 + Len(asked) + j /\ s[j] \in Nat
      BY <1>2, <1>6a
    <3> QED BY <3>1, <3>2, <2>2, <1>3
  <2> QED BY <1>7, <2>1, <2>2
<1>10. Distinct(asked')
  <2> SUFFICES ASSUME NEW i \in 1..Len(asked'), NEW k \in 1..Len(asked'), asked'[i] = asked'[k]
               PROVE  i = k
    BY <1>6 DEF Distinct
  <2>0. DOMAIN asked = 1..Len(asked)
    BY <1>3
  <2>1. \A x \in 1..Len(asked) : asked'[x] \in Elements(asked)
    BY <1>6, <2>0 DEF Elements
  <2>2. \A j \in 1..Len(s) : asked'[Len(asked) + j] \notin Elements(asked)
    <3>1. \A j \in 1..Len(s) : s[j] \notin Elements(asked)
      BY <1>2, <1>6a
    <3>2. \A j \in 1..Len(s) : asked'[Len(asked) + j] = s[j]
      BY <1>6
    <3> QED BY <3>1, <3>2, Zenon
  <2>3. CASE i \in 1..Len(asked) /\ k \in 1..Len(asked)
    <3>1. asked[i] = asked[k]
      BY <2>3, <1>6
    <3> QED BY <2>3, <2>0, <3>1 DEF IInv, IdInv, Distinct
  <2>4. CASE ~(i \in 1..Len(asked) /\ k \in 1..Len(asked))
    <3>1. ~(i \in 1..Len(asked)) /\ ~(k \in 1..Len(asked))
      BY <1>7, <2>1, <2>2, <2>4
    <3>2. PICK x \in 1..Len(s) : i = Len(asked) + x
      BY <1>7, <3>1
    <3>3. PICK y \in 1..Len(s) : k = Len(asked) + y
      BY <1>7, <3>1
    <3>4. s[x] = s[y]
      BY <1>6, <3>2, <3>3
    <3>5. x = y
      BY <1>2, <3>4 DEF Distinct
    <3> QED BY <3>2, <3>3, <3>5
  <2> QED BY <2>3, <2>4
<1>11. IdInv'
  <2>1. DOMAIN asked' = 1..Len(asked')
    BY <1>6
  <2> QED BY <1>8, <1>9, <1>10, <2>1 DEF IdInv
<1>12. callMap' \subseteq Nat
  <2>1. \A x \in Elements(s) : x \in Nat
    <3>1. \A j \in DOMAIN s : s[j] \in Nat
      BY <1>2
    <3> QED BY <3>1, Zenon DEF Elements
  <2>2. callMap \subseteq Nat /\ callMap' = callMap \cup Elements(s)
    BY <1>1 DEF IInv, TypeInv
  <2> QED BY <2>1, <2>2, Zenon
<1>13. step' \in Nat /\ last'.step <= step'
  BY <1>1 DEF IInv, TypeInv, LastType
<1>14. TypeInv'
  BY <1>1, <1>2, <1>5, <1>6, <1>12, <1>13 DEF IInv, TypeInv, Labels
<1>15. pending' # <<>>
  BY <1>1, <1>2, <1>3
<1>16. BatchInv' /\ SourceInv'
  BY <1>1, <1>15 DEF BatchInv, SourceInv
<1> QED BY <1>5, <1>11, <1>14, <1>16 DEF IInv

LEMMA DecideOtherStep == ASSUME IInv, NEW draft \in BOOLEAN, DecideOther(draft) PROVE IInv'
<1> DEFINE q == IF draft THEN <<Assistant(<<>>), User>> ELSE <<User>>
<1>1. /\ Append_(q) /\ pc = "decide" /\ step' = step + 1 /\ pc' = "observe"
      /\ UNCHANGED <<finalOnly, ledger, pending, callMap, status, last, loc, asked>>
  BY DEF DecideOther
<1>2. q \in Seq(Messages) /\ \A i \in DOMAIN q : q[i].calls = <<>>
  <2>1. Assistant(<<>>) \in Messages /\ Assistant(<<>>).calls = <<>> /\ User \in Messages
        /\ User.calls = <<>>
    BY MessageShapes
  <2> QED BY <2>1
<1> HIDE DEF q
<1>3. memory' \in Seq(Messages) /\ spoken' \in Seq(Messages) /\ SuffixInv' /\ RoleInv'
  BY <1>1, <1>2, AppendFact
<1>4. step' \in Nat /\ last'.step <= step'
  BY <1>1 DEF IInv, TypeInv, LastType
<1>5. TypeInv'
  BY <1>1, <1>3, <1>4 DEF IInv, TypeInv, Labels
<1>6. BatchInv' /\ SourceInv' /\ IdInv'
  BY <1>1 DEF IInv, BatchInv, SourceInv, IdInv
<1> QED BY <1>3, <1>5, <1>6 DEF IInv

LEMMA DecideFinalStep == ASSUME IInv, DecideFinal PROVE IInv'
<1>1. /\ Append_(<<Assistant(<<>>)>>) /\ status' = "complete" /\ step' = step + 1 /\ pc' = "idle"
      /\ UNCHANGED <<finalOnly, ledger, pending, callMap, last, loc, asked>>
  BY DEF DecideFinal
<1>2. /\ <<Assistant(<<>>)>> \in Seq(Messages)
      /\ \A i \in DOMAIN <<Assistant(<<>>)>> : <<Assistant(<<>>)>>[i].calls = <<>>
  <2>1. Assistant(<<>>) \in Messages /\ Assistant(<<>>).calls = <<>>
    BY MessageShapes
  <2> QED BY <2>1
<1>3. memory' \in Seq(Messages) /\ spoken' \in Seq(Messages) /\ SuffixInv' /\ RoleInv'
  BY <1>1, <1>2, AppendFact
<1>4. step' \in Nat /\ last'.step <= step'
  BY <1>1 DEF IInv, TypeInv, LastType
<1>5. TypeInv'
  BY <1>1, <1>3, <1>4 DEF IInv, TypeInv, Labels, Statuses
<1>6. BatchInv' /\ SourceInv' /\ IdInv'
  BY <1>1 DEF IInv, BatchInv, SourceInv, IdInv
<1> QED BY <1>3, <1>5, <1>6 DEF IInv

LEMMA ObserveStep == ASSUME IInv, NEW warned \in BOOLEAN, Observe(warned) PROVE IInv'
<1> DEFINE q == IF warned THEN <<User>> ELSE <<>>
<1>1. /\ Append_(q) /\ pc = "observe" /\ pc' = "measure"
      /\ UNCHANGED <<finalOnly, ledger, pending, callMap, step, status, last, loc, asked>>
  BY DEF Observe
<1>2. q \in Seq(Messages) /\ \A i \in DOMAIN q : q[i].calls = <<>>
  BY MessageShapes
<1> HIDE DEF q
<1>3. memory' \in Seq(Messages) /\ spoken' \in Seq(Messages) /\ SuffixInv' /\ RoleInv'
  BY <1>1, <1>2, AppendFact
<1>4. TypeInv'
  BY <1>1, <1>3 DEF IInv, TypeInv, Labels
<1>5. BatchInv' /\ SourceInv' /\ IdInv'
  BY <1>1 DEF IInv, BatchInv, SourceInv, IdInv
<1> QED BY <1>3, <1>4, <1>5 DEF IInv

LEMMA SettleStep == ASSUME IInv, Settle PROVE IInv'
<1>1. /\ pc = "settle" /\ pending # <<>> /\ Append_(<<Result(Head(pending))>>)
      /\ pending' = Tail(pending) /\ pc' = IF Len(pending) = 1 THEN "observe" ELSE "settle"
      /\ finalOnly' \in {finalOnly, TRUE}
      /\ UNCHANGED <<ledger, callMap, step, status, last, loc, asked>>
  BY DEF Settle
<1>2. /\ pending \in Seq(Nat) /\ Head(pending) \in Nat /\ pending' \in Seq(Nat)
      /\ Len(pending') = Len(pending) - 1 /\ Len(pending) \in Nat
  BY <1>1 DEF IInv, TypeInv
<1>3. /\ <<Result(Head(pending))>> \in Seq(Messages)
      /\ \A i \in DOMAIN <<Result(Head(pending))>> : <<Result(Head(pending))>>[i].calls = <<>>
  BY <1>2, MessageShapes
<1>4. memory' \in Seq(Messages) /\ spoken' \in Seq(Messages) /\ SuffixInv' /\ RoleInv'
  BY <1>1, <1>3, AppendFact
<1>5. pc' \in Labels /\ finalOnly' \in BOOLEAN
  BY <1>1 DEF IInv, TypeInv, Labels
<1>6. TypeInv'
  BY <1>1, <1>2, <1>4, <1>5 DEF IInv, TypeInv
<1>7. Len(pending) = 1 => pending' = <<>>
  BY <1>2
<1>8. Len(pending) # 1 => pending' # <<>>
  <2>1. Len(pending) # 0
    BY <1>1, <1>2
  <2>2. Len(pending) # 1 => Len(pending') # 0
    BY <1>2, <2>1
  <2> QED BY <2>2
<1>9. BatchInv' /\ SourceInv' /\ IdInv'
  BY <1>1, <1>7, <1>8 DEF IInv, BatchInv, SourceInv, IdInv
<1> QED BY <1>4, <1>6, <1>9 DEF IInv

LEMMA StopStep == ASSUME IInv, NEW result \in {"active", "failed"}, Stop(result) PROVE IInv'
<1>1. /\ pc' = "idle" /\ status' = result
      /\ UNCHANGED <<finalOnly, memory, ledger, pending, callMap, step, last, loc, spoken, asked>>
  BY DEF Stop
<1> QED BY <1>1 DEF IInv, TypeInv, BatchInv, SourceInv, RoleInv, IdInv, SuffixInv, Labels, Statuses

LEMMA NoLocalsType == NoLocals \in Locals
BY Budget DEF NoLocals, Locals

LEMMA OverflowStep == ASSUME IInv, Overflow(NoLocals) PROVE IInv'
<1>1. /\ status' = "failed" /\ pc' = "idle" /\ loc' = NoLocals
      /\ UNCHANGED <<finalOnly, memory, ledger, pending, callMap, step, last, spoken, asked>>
  BY DEF Overflow
<1> QED BY <1>1, NoLocalsType
    DEF IInv, TypeInv, BatchInv, SourceInv, RoleInv, IdInv, SuffixInv, Labels, Statuses

LEMMA SettledStep == ASSUME IInv, NEW l, Settled(l), pc \in {"measure", "send"} PROVE IInv'
<1>1. CASE Grouped(memory) /\ RequestFits(memory, ledger.size)
  <2>1. /\ pc' = "decide" /\ loc' = NoLocals
        /\ UNCHANGED <<finalOnly, memory, ledger, pending, callMap, step, status, last, spoken, asked>>
    BY <1>1 DEF Settled
  <2> QED BY <2>1, NoLocalsType
      DEF IInv, TypeInv, BatchInv, SourceInv, RoleInv, IdInv, SuffixInv, Labels
<1>2. CASE ~(Grouped(memory) /\ RequestFits(memory, ledger.size))
  BY <1>2, OverflowStep DEF Settled
<1> QED BY <1>1, <1>2

LEMMA MeasureStep == ASSUME IInv, Measure PROVE IInv'
<1> DEFINE measured == RequestSize(memory, ledger.size)
           hard == ~RequestFits(memory, ledger.size)
           old == OldGroups(memory, RawTurns)
           cut == SourceCut(old)
           chosen == {k \in 1..old : InteractionGroups(memory)[k].last <= cut}
           go == [loc EXCEPT !.measured = measured, !.hard = hard, !.cut = cut,
                             !.groups = Cardinality(chosen), !.corrected = FALSE]
<1>1. \/ Overflow(NoLocals) \/ Settled(loc) \/ Settled(go)
      \/ /\ Grouped(memory) /\ loc.pass < MaxPasses /\ cut # 0
         /\ pc' = "summarize" /\ loc' = go
         /\ UNCHANGED <<finalOnly, memory, ledger, pending, callMap, step, status, last, spoken, asked>>
  <2>1. loc.pass \in Nat /\ MaxPasses \in Nat
    BY Budget DEF IInv, TypeInv, Locals
  <2>2. loc.pass >= MaxPasses \/ loc.pass < MaxPasses
    BY <2>1
  <2> QED BY <2>2, Zenon DEF Measure
<1>2. pc = "measure"
  BY DEF Measure
<1>3. CASE Overflow(NoLocals)
  BY <1>3, OverflowStep
<1>4. CASE Settled(loc)
  BY <1>2, <1>4, SettledStep
<1>5. CASE Settled(go)
  <2> HIDE DEF go
  <2> QED BY <1>2, <1>5, SettledStep
<1>6. CASE /\ Grouped(memory) /\ loc.pass < MaxPasses /\ cut # 0
           /\ pc' = "summarize" /\ loc' = go
           /\ UNCHANGED <<finalOnly, memory, ledger, pending, callMap, step, status, last, spoken, asked>>
  <2>1. memory \in Seq(Messages) /\ ledger.size \in Nat /\ pending = <<>> /\ loc \in Locals
    BY <1>2 DEF IInv, TypeInv, BatchInv
  <2>2. measured \in Nat
    BY <2>1, WeightType
  <2>3. cut \in 1..Len(memory) /\ Grouped(Rest(cut)) /\ Len(memory) - cut >= RawTurns
    BY <1>6, CutFact DEF IInv
  <2>4. Cardinality(chosen) \in Nat
    <3>1. chosen \in SUBSET (1..old)
      BY Zenon
    <3>2. old \in 0..Len(InteractionGroups(memory)) /\ InteractionGroups(memory) \in Seq(Groups)
      <4>1. RawTurns \in Nat /\ 1 \in 1..(Len(memory) + 1)
        BY <2>1, Budget
      <4>2. old \in 0..Len(InteractionGroups(memory))
        BY <2>1, <4>1, OldGroupsFact
      <4>3. GroupsFrom(memory)[1] \in Seq(Groups)
        BY <2>1, <4>1, GroupsType
      <4> QED BY <4>2, <4>3 DEF InteractionGroups
    <3>3. old \in Int
      BY <3>2
    <3> HIDE DEF chosen, old
    <3>4. IsFiniteSet(1..old)
      BY <3>3, FS_Interval
    <3> QED BY <3>1, <3>4, FS_Subset, FS_CardinalityType
  <2>5. hard \in BOOLEAN
    OBVIOUS
  <2>6. cut \in Nat
    BY <2>1, <2>3
  <2> HIDE DEF chosen, cut, measured, hard
  <2>7. go \in Locals /\ go.pass = loc.pass /\ go.cut = cut /\ go.measured = measured
    BY <2>1, <2>2, <2>4, <2>5, <2>6 DEF Locals
  <2> HIDE DEF go
  <2>8. SourceInv'
    <3>2. loc'.cut = cut /\ loc'.pass = loc.pass /\ loc'.measured = measured
      BY <1>6, <2>7
    <3>3. Grouped(SubSeq(memory, cut + 1, Len(memory)))
      BY <2>3 DEF Rest
    <3>4. Grouped(SubSeq(memory', loc'.cut + 1, Len(memory')))
      BY <1>6, <3>2, <3>3
    <3>5. loc'.measured = RequestSize(memory', ledger'.size)
      BY <1>6, <3>2 DEF measured
    <3> QED BY <1>6, <2>3, <3>2, <3>4, <3>5 DEF SourceInv, Rest, RequestSize, Weight
  <2>9. TypeInv'
    BY <1>6, <2>7 DEF IInv, TypeInv, Labels
  <2>10. BatchInv' /\ RoleInv' /\ IdInv' /\ SuffixInv'
    BY <1>6, <2>1 DEF IInv, BatchInv, RoleInv, IdInv, SuffixInv
  <2> QED BY <2>8, <2>9, <2>10 DEF IInv
<1> QED BY <1>1, <1>3, <1>4, <1>5, <1>6

LEMMA SourceType == ASSUME IInv PROVE Source(loc.cut) \in Sources
<1>1. Len(spoken) \in Nat /\ Len(memory) \in Nat /\ loc.cut \in Nat /\ ledger.id \in Nat
  BY DEF IInv, TypeInv, Locals
<1> QED BY <1>1 DEF Source, Sources

LEMMA RefuseStep == ASSUME IInv, Refuse PROVE IInv'
<1>1. /\ pc = "summarize" /\ loc.attempts < MaxAttempts
      /\ loc' = [loc EXCEPT !.attempts = @ + 1, !.corrected = TRUE]
      /\ last' = [last EXCEPT !.attempt = step, !.failed = Source(loc.cut)]
      /\ UNCHANGED <<finalOnly, memory, ledger, pending, callMap, step, status, pc, spoken, asked>>
  BY DEF Refuse
<1>2. loc \in Locals /\ loc.attempts + 1 \in 0..MaxAttempts /\ last \in LastType /\ step \in Nat
  <2>1. loc \in Locals /\ last \in LastType /\ step \in Nat
    BY DEF IInv, TypeInv
  <2>2. loc.attempts \in 0..MaxAttempts
    BY <2>1 DEF Locals
  <2>3. loc.attempts + 1 \in 0..MaxAttempts
    BY <1>1, <2>2, Budget
  <2> QED BY <2>1, <2>3
<1>3. loc' \in Locals /\ loc'.pass = loc.pass /\ loc'.cut = loc.cut /\ loc'.measured = loc.measured
  BY <1>1, <1>2 DEF Locals
<1>4. last' \in LastType /\ last'.step = last.step
  BY <1>1, <1>2, SourceType DEF LastType
<1>5. TypeInv'
  BY <1>1, <1>3, <1>4 DEF IInv, TypeInv
<1>6. SourceInv'
  <2>1. /\ loc.pass < MaxPasses /\ loc.cut \in 1..Len(memory)
        /\ Grouped(SubSeq(memory, loc.cut + 1, Len(memory))) /\ Len(memory) - loc.cut >= RawTurns
        /\ loc.measured = RequestSize(memory, ledger.size)
    BY <1>1 DEF IInv, SourceInv, Rest
  <2>2. /\ loc'.pass < MaxPasses /\ loc'.cut \in 1..Len(memory')
        /\ Grouped(SubSeq(memory', loc'.cut + 1, Len(memory'))) /\ Len(memory') - loc'.cut >= RawTurns
        /\ loc'.measured = RequestSize(memory', ledger'.size)
    BY <1>1, <1>3, <2>1
  <2> QED BY <2>2 DEF SourceInv, Rest, RequestSize, Weight
<1>7. BatchInv' /\ RoleInv' /\ IdInv' /\ SuffixInv'
  BY <1>1 DEF IInv, BatchInv, RoleInv, IdInv, SuffixInv
<1> QED BY <1>5, <1>6, <1>7 DEF IInv

LEMMA AcceptStep == ASSUME IInv, NEW size \in SummarySizes, Accept(size) PROVE IInv'
<1> DEFINE c == loc.cut
           r == SubSeq(memory, c + 1, Len(memory))
           after == RequestSize(r, size)
<1>1. /\ pc = "summarize" /\ loc.attempts < MaxAttempts
      /\ memory' = r /\ ledger' = [size |-> size, id |-> ledger.id + 1]
      /\ last' = [step |-> step, tokens |-> after, attempt |-> step, failed |-> None]
      /\ pc' \in {"send", "measure"}
      /\ loc' = [loc EXCEPT !.attempts = @ + 1, !.pass = @ + 1]
      /\ UNCHANGED <<finalOnly, pending, callMap, step, status, spoken, asked>>
  BY DEF Accept, Rest
<1>2. /\ memory \in Seq(Messages) /\ Len(memory) \in Nat /\ c \in 1..Len(memory)
      /\ Len(memory) - c >= RawTurns /\ loc.pass < MaxPasses /\ size \in Nat /\ ledger.id \in Nat
      /\ step \in Nat
  BY <1>1, Budget DEF IInv, TypeInv, SourceInv
<1> HIDE DEF c
<1>3. /\ r \in Seq(Messages) /\ Len(r) = Len(memory) - c
      /\ \A j \in 1..Len(r) : r[j] = memory[c + j]
  <2>1. r \in Seq(Messages) /\ Len(r) = Len(memory) - c
    BY <1>2
  <2>2. ASSUME NEW j \in 1..Len(r) PROVE r[j] = memory[c + j]
    <3>1. j \in 1..(Len(memory) - c)
      BY <2>1
    <3>2. r[j] = memory[(c + 1) + j - 1] /\ (c + 1) + j - 1 = c + j
      BY <1>2, <3>1
    <3> QED BY <3>2
  <2> QED BY <2>1, <2>2
<1>4. after \in Nat
  BY <1>2, <1>3, WeightType
<1> HIDE DEF r, after
<1>5. loc' \in Locals
  <2>1. loc \in Locals /\ loc.attempts + 1 \in 0..MaxAttempts /\ loc.pass + 1 \in 0..MaxPasses
    <3>1. loc \in Locals
      BY DEF IInv, TypeInv
    <3>2. loc.attempts \in 0..MaxAttempts /\ loc.pass \in 0..MaxPasses
      BY <3>1 DEF Locals
    <3>3. loc.attempts + 1 \in 0..MaxAttempts
      BY <1>1, <3>2, Budget
    <3>4. loc.pass + 1 \in 0..MaxPasses
      BY <1>2, <3>2, Budget
    <3> QED BY <3>1, <3>3, <3>4
  <2> QED BY <1>1, <2>1 DEF Locals
<1>6. last' \in LastType /\ last'.step = step /\ ledger' \in [size : Nat, id : Nat]
  BY <1>1, <1>2, <1>4 DEF LastType
<1>7. TypeInv'
  BY <1>1, <1>2, <1>3, <1>5, <1>6 DEF IInv, TypeInv, Labels
<1>8. BatchInv' /\ SourceInv' /\ IdInv'
  BY <1>1 DEF IInv, BatchInv, SourceInv, IdInv
<1>9. ASSUME NEW j \in 1..Len(r) PROVE c + j \in 1..Len(memory) /\ c + j \in DOMAIN memory
  BY <1>2, <1>3
<1>10. RoleInv'
  <2> SUFFICES ASSUME NEW j \in 1..Len(r), r[j].role # "assistant" PROVE r[j].calls = <<>>
    BY <1>1, <1>3 DEF RoleInv
  <2> QED BY <1>3, <1>9 DEF IInv, RoleInv
<1>11. SuffixInv'
  <2>1. Len(spoken) \in Nat /\ Len(memory) <= Len(spoken)
    BY DEF IInv, TypeInv, SuffixInv
  <2>2. Len(r) <= Len(spoken) /\ Len(r) >= RawTurns
    BY <1>2, <1>3, <2>1
  <2>3. ASSUME NEW j \in 1..Len(r) PROVE r[j] = spoken[(Len(spoken) - Len(r)) + j]
    <3>1. memory[c + j] = spoken[(Len(spoken) - Len(memory)) + (c + j)]
      BY <1>9 DEF IInv, SuffixInv
    <3>2. (Len(spoken) - Len(memory)) + (c + j) = (Len(spoken) - Len(r)) + j
      BY <1>2, <1>3, <2>1
    <3> QED BY <1>3, <3>1, <3>2
  <2> QED BY <1>1, <2>2, <2>3 DEF SuffixInv
<1> QED BY <1>7, <1>8, <1>10, <1>11 DEF IInv

LEMMA GiveUpStep == ASSUME IInv, GiveUp PROVE IInv'
<1>1. /\ pc = "summarize" /\ last' = [last EXCEPT !.failed = Source(loc.cut)]
      /\ \/ pc' = "send" /\ loc' = loc
         \/ /\ pc' = "measure" /\ ~(loc.groups <= 1)
            /\ loc' = [loc EXCEPT !.pass = @ + 1, !.shrunk = loc.groups - 1]
      /\ UNCHANGED <<finalOnly, memory, ledger, pending, callMap, step, status, spoken, asked>>
  BY DEF GiveUp
<1>2. loc \in Locals /\ loc.pass < MaxPasses /\ last \in LastType
  BY <1>1 DEF IInv, TypeInv, SourceInv
<1>3. loc' \in Locals
  <2>1. loc.pass + 1 \in 0..MaxPasses /\ (~(loc.groups <= 1) => loc.groups - 1 \in Nat)
    BY <1>2, Budget DEF Locals
  <2> QED BY <1>1, <1>2, <2>1 DEF Locals
<1>4. last' \in LastType /\ last'.step = last.step
  BY <1>1, <1>2, SourceType DEF LastType
<1>5. TypeInv'
  BY <1>1, <1>3, <1>4 DEF IInv, TypeInv, Labels
<1>6. BatchInv' /\ SourceInv' /\ RoleInv' /\ IdInv' /\ SuffixInv'
  BY <1>1 DEF IInv, BatchInv, SourceInv, RoleInv, IdInv, SuffixInv
<1> QED BY <1>5, <1>6 DEF IInv

LEMMA NextIInv == IInv /\ [Next]_vars => IInv'
<1> SUFFICES ASSUME IInv, [Next]_vars PROVE IInv'
  OBVIOUS
<1>1. CASE Message
  BY <1>1, MessageStep
<1>2. CASE \E resume, content \in BOOLEAN : Start(resume, content)
  BY <1>2, StartStep
<1>3. CASE \E raw \in RawBatches : DecideTools(raw)
  BY <1>3, DecideToolsStep
<1>4. CASE \E draft \in BOOLEAN : DecideOther(draft)
  BY <1>4, DecideOtherStep
<1>5. CASE DecideFinal
  BY <1>5, DecideFinalStep
<1>6. CASE \E warned \in BOOLEAN : Observe(warned)
  BY <1>6, ObserveStep
<1>7. CASE Settle
  BY <1>7, SettleStep
<1>8. CASE \E result \in {"active", "failed"} : Stop(result)
  BY <1>8, StopStep
<1>9. CASE CompactStep
  <2>1. CASE Measure
    BY <2>1, MeasureStep
  <2>2. CASE Refuse
    BY <2>2, RefuseStep
  <2>3. CASE \E size \in SummarySizes : Accept(size)
    BY <2>3, AcceptStep
  <2>4. CASE GiveUp
    BY <2>4, GiveUpStep
  <2>5. CASE Send
    BY <2>5, SettledStep DEF Send
  <2> QED BY <1>9, <2>1, <2>2, <2>3, <2>4, <2>5 DEF CompactStep
<1>10. CASE UNCHANGED vars
  <2>1. UNCHANGED <<memory, ledger, pending, callMap, step, status, finalOnly, last, pc, loc,
                    spoken, asked>>
    BY <1>10 DEF vars
  <2> QED BY <2>1 DEF IInv, TypeInv, BatchInv, SourceInv, RoleInv, IdInv, SuffixInv, Rest, RequestSize, Weight
<1> QED BY <1>1, <1>2, <1>3, <1>4, <1>5, <1>6, <1>7, <1>8, <1>9, <1>10 DEF Next

\* The inductive invariant.
THEOREM Inductive == Spec => []IInv
BY InitIInv, NextIInv, PTL DEF Spec

\* The history, the counters of the policy and the locals of compact keep their types.
THEOREM TypeCorrect == Spec => []TypeOK
<1>1. IInv => TypeOK
  <2> SUFFICES ASSUME IInv PROVE TypeOK
    OBVIOUS
  <2>1. last.tokens \in Nat \cup {None} /\ last.attempt \in Nat \cup {None}
    BY DEF IInv, TypeInv, LastType
  <2>2. loc.attempts \in 0..MaxAttempts /\ loc.pass \in 0..MaxPasses
    BY DEF IInv, TypeInv, Locals
  <2> QED BY <2>1, <2>2 DEF IInv, TypeInv, TypeOK, Statuses, Labels
<1> QED BY <1>1, Inductive, PTL

\* No call id is scheduled twice, whatever ids the provider puts on its calls and
\* whatever compaction has removed (parse_decision, run, agent_session_calls).
THEOREM IdsNeverRepeat == Spec => []IdsAreUnique
<1>1. IInv => IdsAreUnique
  BY DEF IInv, IdInv, IdsAreUnique
<1> QED BY <1>1, Inductive, PTL

\* Compaction takes messages from the front only and leaves the newest ones, at
\* least raw_turns_to_keep of them, for every window, policy and summary.
THEOREM NewestAlwaysKept == Spec => []NewestAreKept
<1>1. IInv => NewestAreKept
  <2> SUFFICES ASSUME IInv PROVE NewestAreKept
    OBVIOUS
  <2>1. /\ memory \in Seq(Messages) /\ spoken \in Seq(Messages) /\ Len(memory) \in Nat
        /\ Len(spoken) \in Nat /\ Len(memory) <= Len(spoken)
        /\ Len(memory) >= RawTurns \/ Len(memory) = Len(spoken)
    BY DEF IInv, TypeInv, SuffixInv
  <2> DEFINE d == Len(spoken) - Len(memory)
             q == SubSeq(spoken, d + 1, Len(spoken))
  <2>2. d \in 0..Len(spoken)
    BY <2>1
  <2>3. q \in Seq(Messages) /\ Len(q) = Len(memory)
    BY <2>1, <2>2
  <2>4. ASSUME NEW j \in 1..Len(memory) PROVE memory[j] = q[j]
    <3>1. q[j] = spoken[(d + 1) + j - 1] /\ (d + 1) + j - 1 = d + j
      BY <2>1, <2>2
    <3> QED BY <3>1 DEF IInv, SuffixInv
  <2>5. memory = q
    <3> HIDE DEF q
    <3> QED BY <2>1, <2>3, <2>4, SeqEqual
  <2>6. Len(memory) >= IF Len(spoken) < RawTurns THEN Len(spoken) ELSE RawTurns
    BY <2>1, Budget
  <2> QED BY <2>1, <2>5, <2>6 DEF NewestAreKept
<1> QED BY <1>1, Inductive, PTL

LEMMA ReductionIsPositive ==
    ASSUME NEW hard \in BOOLEAN, NEW measured \in Nat
    PROVE  RequiredReduction(hard, measured) \in Nat /\ RequiredReduction(hard, measured) >= 1
<1>1. measured * MinReductionRatio \in Nat
  BY Budget
<1>2. (measured * MinReductionRatio + 99) \div 100 \in Nat
  BY <1>1
<1>3. Larger(MinReduction, (measured * MinReductionRatio + 99) \div 100) \in Nat
  BY <1>2, Budget DEF Larger
<1> DEFINE y == Larger(MinReduction, (measured * MinReductionRatio + 99) \div 100)
<1> HIDE DEF y
<1>4. Larger(1, y) \in Nat /\ Larger(1, y) >= 1
  BY <1>3 DEF Larger, y
<1> QED BY <1>4 DEF RequiredReduction, y

\* A new ledger makes the whole request smaller, for every budget and every
\* summary the model may write (the reduction compact demands).
THEOREM SummariesShrink == Spec => SummaryShrinksRequest
<1>1. IInv /\ [Next]_vars =>
        [ledger' # ledger =>
           RequestSize(memory', ledger'.size) < RequestSize(memory, ledger.size)]_vars
  <2> SUFFICES ASSUME IInv, Next, ledger' # ledger
               PROVE  RequestSize(memory', ledger'.size) < RequestSize(memory, ledger.size)
    BY DEF vars
  <2>1. PICK size \in SummarySizes : Accept(size)
    BY DEF Next, Message, Start, DecideTools, DecideOther, DecideFinal, Observe, Settle, Stop,
           CompactStep, Measure, Refuse, GiveUp, Send, Settled, Overflow
  <2> DEFINE after == RequestSize(Rest(loc.cut), size)
  <2>2. /\ pc = "summarize" /\ memory' = Rest(loc.cut) /\ ledger'.size = size
        /\ loc.measured - after >= RequiredReduction(loc.hard, loc.measured)
    BY <2>1 DEF Accept
  <2>3. /\ loc.measured = RequestSize(memory, ledger.size) /\ memory \in Seq(Messages)
        /\ loc.cut \in 1..Len(memory) /\ ledger.size \in Nat /\ loc.hard \in BOOLEAN
        /\ size \in Nat
    BY <2>2, Budget DEF IInv, TypeInv, SourceInv, Locals
  <2>4. Rest(loc.cut) \in Seq(Messages)
    BY <2>3 DEF Rest
  <2>5. after \in Nat /\ loc.measured \in Nat
    BY <2>3, <2>4, WeightType
  <2> HIDE DEF after
  <2>6. after < loc.measured
    BY <2>2, <2>3, <2>5, ReductionIsPositive
  <2>7. RequestSize(memory', ledger'.size) = after
    BY <2>2 DEF after
  <2> QED BY <2>3, <2>6, <2>7
<1> QED BY <1>1, Inductive, PTL DEF Spec, SummaryShrinksRequest

----------------------------------------------------------------------------
(* The history stays complete *)

\* The results that a batch waits for.
Awaited(q) == [n \in DOMAIN q |-> Result(q[n])]

LEMMA AwaitedType ==
    ASSUME NEW q \in Seq(Nat)
    PROVE  /\ Awaited(q) \in Seq(Messages) /\ Len(Awaited(q)) = Len(q)
           /\ \A j \in 1..Len(q) : Awaited(q)[j] = Result(q[j])
<1>1. DOMAIN q = 1..Len(q) /\ Len(q) \in Nat
  OBVIOUS
<1>2. \A j \in 1..Len(q) : Result(q[j]) \in Messages
  BY MessageShapes
<1>3. Awaited(q) \in [1..Len(q) -> Messages]
  BY <1>1, <1>2 DEF Awaited
<1> QED BY <1>1, <1>3 DEF Awaited

\* The first result and the others.
LEMMA AwaitedTail ==
    ASSUME NEW q \in Seq(Nat), q # <<>>
    PROVE  <<Result(Head(q))>> \o Awaited(Tail(q)) = Awaited(q)
<1> DEFINE x == <<Result(Head(q))>>
           a == Awaited(q)
           b == Awaited(Tail(q))
           n == Len(q)
<1>1. Head(q) \in Nat /\ Tail(q) \in Seq(Nat) /\ Len(Tail(q)) = n - 1 /\ Head(q) = q[1]
  OBVIOUS
<1>2. n \in Nat /\ n > 0
  OBVIOUS
<1>3. \A j \in 1..(n - 1) : Tail(q)[j] = q[j + 1]
  OBVIOUS
<1>4. a \in Seq(Messages) /\ Len(a) = n /\ \A j \in 1..n : a[j] = Result(q[j])
  BY AwaitedType
<1>5. b \in Seq(Messages) /\ Len(b) = n - 1 /\ \A j \in 1..(n - 1) : b[j] = Result(Tail(q)[j])
  BY <1>1, AwaitedType
<1>6. x \in Seq(Messages) /\ Len(x) = 1 /\ x[1] = Result(q[1])
  BY <1>1, MessageShapes
<1> HIDE DEF x, a, b, n
<1>7. x \o b \in Seq(Messages) /\ Len(x \o b) = n
  <2>1. x \o b \in Seq(Messages) /\ Len(x \o b) = Len(x) + Len(b)
    BY <1>5, <1>6, ConcatProperties
  <2>2. 1 + (n - 1) = n
    BY <1>2
  <2> QED BY <1>5, <1>6, <2>1, <2>2
<1>8. ASSUME NEW j \in 1..n PROVE (x \o b)[j] = a[j]
  <2>1. CASE j = 1
    <3>1. (x \o b)[1] = x[1]
      BY <1>5, <1>6
    <3> QED BY <1>2, <1>4, <1>6, <2>1, <3>1
  <2>2. CASE j # 1
    <3>1. j - 1 \in 1..(n - 1) /\ (j - 1) + 1 = j
      BY <1>2, <2>2
    <3>2. (x \o b)[j] = b[j - 1]
      <4>1. \A i \in 1..(Len(x) + Len(b)) :
               (x \o b)[i] = IF i <= Len(x) THEN x[i] ELSE b[i - Len(x)]
        BY <1>5, <1>6, ConcatProperties
      <4>2. j \in 1..(1 + (n - 1)) /\ ~(j <= 1)
        BY <1>2, <2>2
      <4> QED BY <1>5, <1>6, <4>1, <4>2
    <3>3. b[j - 1] = Result(q[j])
      BY <1>3, <1>5, <3>1
    <3> QED BY <1>4, <3>2, <3>3
  <2> QED BY <2>1, <2>2
<1>9. x \o b = a
  BY <1>4, <1>7, <1>8, SeqEqual
<1> QED BY <1>9 DEF x, a, b

LEMMA GroupedNone == Grouped(<<>>)
<1> DEFINE m == <<>>
<1>1. m \in Seq(Messages) /\ Len(m) = 0
  OBVIOUS
<1> HIDE DEF m
<1>2. 1 \in 1..(Len(m) + 1) /\ 1 = Len(m) + 1
  BY <1>1
<1>3. Complete(m, 1)
  BY <1>1, <1>2, CompleteEquation
<1> QED BY <1>1, <1>3, GroupedIsComplete DEF m

LEMMA GroupedOne ==
    ASSUME NEW x \in Messages, x.role # "tool", x.role = "assistant" => x.calls = <<>>
    PROVE  Grouped(<<x>>)
<1> DEFINE m == <<x>>
<1>1. m \in Seq(Messages) /\ Len(m) = 1 /\ m[1] = x
  OBVIOUS
<1> HIDE DEF m
<1>2. GroupEnd(m, 1) = 1
  <2>1. x.role # "assistant" \/ Len(x.calls) = 0
    OBVIOUS
  <2> QED BY <1>1, <2>1 DEF GroupEnd
<1>3. Complete(m, 2)
  <2>1. 2 = Len(m) + 1 /\ 2 \in 1..(Len(m) + 1)
    BY <1>1
  <2> QED BY <1>1, <2>1, CompleteEquation
<1>4. Complete(m, 1)
  <2>1. 1 \in 1..(Len(m) + 1) /\ 1 <= Len(m) /\ GroupEnd(m, 1) + 1 = 2 /\ GroupEnd(m, 1) # 0
    BY <1>1, <1>2
  <2> QED BY <1>1, <1>3, <2>1, CompleteEquation
<1> QED BY <1>1, <1>4, GroupedIsComplete DEF m

\* A batch with all its results is complete.
LEMMA GroupedBatch ==
    ASSUME NEW c \in Seq(Nat), Len(c) > 0, Distinct(c)
    PROVE  Grouped(<<Assistant(c)>> \o Awaited(c))
<1> DEFINE m == <<Assistant(c)>> \o Awaited(c)
           n == Len(c)
<1>1. Assistant(c) \in Messages /\ n \in Nat /\ n # 0
  BY MessageShapes
<1>2. /\ m \in Seq(Messages) /\ Len(m) = n + 1 /\ m[1] = Assistant(c)
      /\ \A j \in 1..n : m[1 + j] = Result(c[j])
  BY <1>1, AwaitedType
<1> HIDE DEF m
<1>3. m[1].role = "assistant" /\ m[1].calls = c
  BY <1>2, MessageShapes
<1>4. \A j \in 2..(n + 1) : m[j].role = "tool"
  <2> SUFFICES ASSUME NEW j \in 2..(n + 1) PROVE m[j].role = "tool"
    OBVIOUS
  <2>1. j - 1 \in 1..n /\ 1 + (j - 1) = j
    BY <1>1
  <2>2. m[j] = Result(c[j - 1])
    BY <1>2, <2>1
  <2> QED BY <2>2, MessageShapes
<1>5. Results(m, 1, 1 + n) = c
  <2>1. (1 + n) - 1 = n
    BY <1>1
  <2>2. \A j \in 1..n : m[1 + j].re = c[j]
    BY <1>2, MessageShapes
  <2>3. c = [j \in 1..n |-> c[j]]
    OBVIOUS
  <2> HIDE DEF n
  <2> QED BY <2>1, <2>2, <2>3 DEF Results
<1>6. GroupEnd(m, 1) = 1 + n
  <2>1. 1 + n <= Len(m) /\ 1 + 1 = 2 /\ 1 + n = n + 1
    BY <1>1, <1>2
  <2> QED BY <1>1, <1>3, <1>4, <1>5, <2>1 DEF GroupEnd
<1>7. Complete(m, GroupEnd(m, 1) + 1)
  <2>1. GroupEnd(m, 1) + 1 = Len(m) + 1 /\ GroupEnd(m, 1) + 1 \in 1..(Len(m) + 1)
    BY <1>1, <1>2, <1>6
  <2> QED BY <1>2, <2>1, CompleteEquation
<1>8. Complete(m, 1)
  <2>1. 1 \in 1..(Len(m) + 1) /\ 1 <= Len(m) /\ GroupEnd(m, 1) # 0
    BY <1>1, <1>2, <1>6
  <2> QED BY <1>2, <1>7, <2>1, CompleteEquation
<1> QED BY <1>2, <1>8, GroupedIsComplete DEF m

LEMMA NothingAwaited ==
    ASSUME NEW m \in Seq(Messages)
    PROVE  m \o Awaited(<<>>) = m
<1>1. Awaited(<<>>) = <<>>
  BY DEF Awaited
<1> QED BY <1>1

\* What is appended while no call is pending is complete by itself.
LEMMA AppendGrouped ==
    ASSUME IInv, HistoryIsGrouped, pending = <<>>, NEW q \in Seq(Messages), Grouped(q),
           Append_(q), pending' = pending
    PROVE  HistoryIsGrouped'
<1>1. memory \in Seq(Messages)
  BY DEF IInv, TypeInv
<1>2. Grouped(memory)
  BY <1>1, NothingAwaited DEF HistoryIsGrouped, Awaited
<1>3. Grouped(memory \o q) /\ memory \o q \in Seq(Messages)
  BY <1>1, <1>2, GroupedConcat
<1>4. memory' = memory \o q
  BY DEF Append_
<1>5. Grouped(memory' \o Awaited(pending'))
  BY <1>3, <1>4, NothingAwaited
<1> QED BY <1>5 DEF HistoryIsGrouped, Awaited

LEMMA KeepGrouped ==
    ASSUME HistoryIsGrouped, UNCHANGED <<memory, pending>>
    PROVE  HistoryIsGrouped'
BY DEF HistoryIsGrouped

LEMMA UserGrouped == <<User>> \in Seq(Messages) /\ Grouped(<<User>>)
BY MessageShapes, GroupedOne

LEMMA AnswerGrouped == <<Assistant(<<>>)>> \in Seq(Messages) /\ Grouped(<<Assistant(<<>>)>>)
<1>1. Assistant(<<>>) \in Messages /\ Assistant(<<>>).calls = <<>> /\ Assistant(<<>>).role # "tool"
  BY MessageShapes
<1> QED BY <1>1, GroupedOne

LEMMA NextGrouped ==
    ASSUME CarefulClient, IInv, HistoryIsGrouped, Next
    PROVE  HistoryIsGrouped'
<1>0. memory \in Seq(Messages) /\ pending \in Seq(Nat)
  BY DEF IInv, TypeInv
<1>1. CASE Message
  <2>1. pending = <<>> /\ Append_(<<User>>) /\ pending' = pending
    BY <1>1 DEF Message
  <2> QED BY <2>1, UserGrouped, AppendGrouped
<1>2. ASSUME NEW resume \in BOOLEAN, NEW content \in BOOLEAN, Start(resume, content)
      PROVE  HistoryIsGrouped'
  <2>1. CASE content
    <3>1. pending = <<>> /\ Append_(<<User>>) /\ pending' = pending
      BY <1>2, <2>1 DEF Start
    <3> QED BY <3>1, UserGrouped, AppendGrouped
  <2>2. CASE ~content
    BY <1>2, <2>2, KeepGrouped DEF Start
  <2> QED BY <2>1, <2>2
<1>3. ASSUME NEW raw \in RawBatches, DecideTools(raw) PROVE HistoryIsGrouped'
  <2> DEFINE s == ScheduledIds(raw)
             x == <<Assistant(s)>>
  <2>1. s \in Seq(Nat) /\ Len(s) > 0 /\ Distinct(s)
    <3>1. s \in Seq(Nat) /\ Len(s) \in 1..MaxBatch /\ Distinct(s)
      BY ScheduledFact
    <3> QED BY <3>1, Budget
  <2>2. pending = <<>> /\ pending' = s /\ memory' = memory \o x
    BY <1>3 DEF DecideTools, Append_, IInv, BatchInv
  <2> HIDE DEF s
  <2>3. x \in Seq(Messages) /\ Awaited(s) \in Seq(Messages)
    BY <2>1, AwaitedType, MessageShapes
  <2>4. Grouped(x \o Awaited(s)) /\ x \o Awaited(s) \in Seq(Messages)
    BY <2>1, <2>3, GroupedBatch
  <2>5. Grouped(memory)
    BY <1>0, <2>2, NothingAwaited DEF HistoryIsGrouped, Awaited
  <2> HIDE DEF x
  <2>6. Grouped(memory \o (x \o Awaited(s)))
    BY <1>0, <2>4, <2>5, GroupedConcat
  <2>7. memory \o (x \o Awaited(s)) = (memory \o x) \o Awaited(s)
    BY <1>0, <2>3, ConcatAssociative
  <2> QED BY <2>2, <2>6, <2>7 DEF HistoryIsGrouped, Awaited
<1>4. ASSUME NEW draft \in BOOLEAN, DecideOther(draft) PROVE HistoryIsGrouped'
  <2>1. pending = <<>> /\ pending' = pending
    BY <1>4 DEF DecideOther, IInv, BatchInv
  <2>2. CASE draft
    <3> DEFINE a == <<Assistant(<<>>)>>
               u == <<User>>
    <3>1. <<Assistant(<<>>), User>> = a \o u
      OBVIOUS
    <3>2. a \in Seq(Messages) /\ u \in Seq(Messages) /\ Grouped(a) /\ Grouped(u)
      BY UserGrouped, AnswerGrouped
    <3> HIDE DEF a, u
    <3>3. Grouped(a \o u) /\ a \o u \in Seq(Messages)
      BY <3>2, GroupedConcat
    <3>4. Grouped(<<Assistant(<<>>), User>>) /\ <<Assistant(<<>>), User>> \in Seq(Messages)
      BY <3>1, <3>3
    <3> QED BY <1>4, <2>1, <2>2, <3>4, AppendGrouped DEF DecideOther
  <2>3. CASE ~draft
    BY <1>4, <2>1, <2>3, UserGrouped, AppendGrouped DEF DecideOther
  <2> QED BY <2>2, <2>3
<1>5. CASE DecideFinal
  <2>1. pending = <<>> /\ pending' = pending /\ Append_(<<Assistant(<<>>)>>)
    BY <1>5 DEF DecideFinal, IInv, BatchInv
  <2> QED BY <2>1, AnswerGrouped, AppendGrouped
<1>6. ASSUME NEW warned \in BOOLEAN, Observe(warned) PROVE HistoryIsGrouped'
  <2>1. pending = <<>> /\ pending' = pending
    BY <1>6 DEF Observe, IInv, BatchInv
  <2>2. CASE warned
    BY <1>6, <2>1, <2>2, UserGrouped, AppendGrouped DEF Observe
  <2>3. CASE ~warned
    <3>1. <<>> \in Seq(Messages)
      OBVIOUS
    <3> QED BY <1>6, <2>1, <2>3, <3>1, GroupedNone, AppendGrouped DEF Observe
  <2> QED BY <2>2, <2>3
<1>7. CASE Settle
  <2> DEFINE x == <<Result(Head(pending))>>
  <2>1. pending # <<>> /\ memory' = memory \o x /\ pending' = Tail(pending)
    BY <1>7 DEF Settle, Append_
  <2>2. Head(pending) \in Nat /\ Tail(pending) \in Seq(Nat)
    BY <1>0, <2>1
  <2>3. x \in Seq(Messages) /\ Awaited(Tail(pending)) \in Seq(Messages)
    <3>1. Result(Head(pending)) \in Messages
      BY <2>2, MessageShapes
    <3>2. Awaited(Tail(pending)) \in Seq(Messages)
      BY <2>2, AwaitedType
    <3> QED BY <3>1, <3>2
  <2>4. x \o Awaited(Tail(pending)) = Awaited(pending)
    BY <1>0, <2>1, AwaitedTail
  <2> DEFINE b == Awaited(Tail(pending))
  <2> HIDE DEF x, b
  <2>6. (memory \o x) \o b = memory \o (x \o b)
    <3>1. b \in Seq(Messages)
      BY <2>3 DEF b
    <3>2. memory \in Seq(Messages) /\ x \in Seq(Messages)
      BY <1>0, <2>3
    <3> QED BY <3>1, <3>2, ConcatAssociative
  <2>7. Grouped(memory' \o b)
    BY <2>1, <2>4, <2>6 DEF HistoryIsGrouped, Awaited, b
  <2> QED BY <2>1, <2>7 DEF HistoryIsGrouped, Awaited, b
<1>8. ASSUME NEW result \in {"active", "failed"}, Stop(result) PROVE HistoryIsGrouped'
  BY <1>8, KeepGrouped DEF Stop
<1>9. ASSUME NEW size \in SummarySizes, Accept(size) PROVE HistoryIsGrouped'
  <2>1. memory' = Rest(loc.cut) /\ pending' = pending /\ pc = "summarize"
    BY <1>9 DEF Accept
  <2>2. pending = <<>> /\ Grouped(Rest(loc.cut)) /\ loc.cut \in 1..Len(memory)
    BY <2>1 DEF IInv, BatchInv, SourceInv
  <2>3. memory' \in Seq(Messages)
    BY <1>0, <2>1, <2>2 DEF Rest
  <2>4. Grouped(memory' \o Awaited(pending'))
    BY <2>1, <2>2, <2>3, NothingAwaited
  <2> QED BY <2>4 DEF HistoryIsGrouped, Awaited
<1>10. CASE Measure \/ Refuse \/ GiveUp \/ Send
  BY <1>10, KeepGrouped DEF Measure, Refuse, GiveUp, Send, Settled, Overflow
<1> QED BY <1>1, <1>2, <1>3, <1>4, <1>5, <1>6, <1>7, <1>8, <1>9, <1>10 DEF Next, CompactStep

\* With clients that send content only while no call is pending, the history
\* always splits into complete interactions once the pending results are there:
\* over any runs, ends of runs, warnings, messages and compactions, for every
\* budget and policy.
THEOREM HistoryAlwaysGrouped ==
    ASSUME CarefulClient
    PROVE  Spec => []HistoryIsGrouped
<1>1. Init => HistoryIsGrouped
  <2> SUFFICES ASSUME Init PROVE HistoryIsGrouped
    OBVIOUS
  <2>1. memory = <<>> /\ pending = <<>> /\ <<>> \in Seq(Messages)
    BY DEF Init
  <2>2. Grouped(memory \o Awaited(pending))
    BY <2>1, NothingAwaited, GroupedNone
  <2> QED BY <2>2 DEF HistoryIsGrouped, Awaited
<1>2. IInv /\ HistoryIsGrouped /\ [Next]_vars => HistoryIsGrouped'
  <2> SUFFICES ASSUME IInv, HistoryIsGrouped, [Next]_vars PROVE HistoryIsGrouped'
    OBVIOUS
  <2>1. CASE Next
    BY <2>1, NextGrouped
  <2>2. CASE UNCHANGED vars
    BY <2>2, KeepGrouped DEF vars
  <2> QED BY <2>1, <2>2
<1> QED BY <1>1, <1>2, Inductive, PTL DEF Spec

----------------------------------------------------------------------------
(* interaction_groups against the definition of a cut *)

LEMMA LeastIndex ==
    ASSUME NEW n \in Nat, NEW S \in SUBSET (1..n), S # {}
    PROVE  \E k \in S : \A o \in S : k <= o
<1> DEFINE T == {d \in 1..n : (n + 1) - d \in S}
<1>1. T \in SUBSET (1..n)
  OBVIOUS
<1>2. \A o \in S : (n + 1) - o \in T
  <2> SUFFICES ASSUME NEW o \in S PROVE (n + 1) - o \in T
    OBVIOUS
  <2>1. o \in 1..n
    OBVIOUS
  <2>2. (n + 1) - o \in 1..n /\ (n + 1) - ((n + 1) - o) = o
    BY <2>1
  <2> QED BY <2>2
<1>3. T # {}
  BY <1>2
<1>4. \A d \in T : d \in 1..n /\ (n + 1) - d \in S
  OBVIOUS
<1> HIDE DEF T
<1>5. PICK d \in T : \A o \in T : o <= d
  BY <1>1, <1>3, GreatestIndex
<1>6. (n + 1) - d \in S /\ d \in 1..n
  BY <1>4
<1>7. ASSUME NEW o \in S PROVE (n + 1) - d <= o
  <2>1. (n + 1) - o <= d /\ o \in 1..n
    BY <1>2, <1>5
  <2> QED BY <2>1, <1>6
<1> QED BY <1>6, <1>7

\* As many results as calls, each result for a call and one result for each.
OneEach(n, c, r) ==
    /\ \A j \in 1..n : \E k \in 1..n : r[j] = c[k]
    /\ \A k \in 1..n : \E j \in 1..n : r[j] = c[k] /\ \A o \in 1..n : r[o] = c[k] => o = j

\* Then the calls differ.
LEMMA EachCallOnce ==
    ASSUME NEW n \in Nat, NEW c, NEW r, OneEach(n, c, r)
    PROVE  \A k, l \in 1..n : c[k] = c[l] => k = l
<1> DEFINE f == [k \in 1..n |-> CHOOSE j \in 1..n : r[j] = c[k]]
<1>1. \A k \in 1..n : f[k] \in 1..n /\ r[f[k]] = c[k] /\ \A o \in 1..n : r[o] = c[k] => o = f[k]
  <2> SUFFICES ASSUME NEW k \in 1..n
               PROVE f[k] \in 1..n /\ r[f[k]] = c[k] /\ \A o \in 1..n : r[o] = c[k] => o = f[k]
    OBVIOUS
  <2>1. PICK j \in 1..n : r[j] = c[k] /\ \A o \in 1..n : r[o] = c[k] => o = j
    BY DEF OneEach
  <2>2. f[k] \in 1..n /\ r[f[k]] = c[k]
    BY <2>1
  <2> QED BY <2>1, <2>2
<1>2. f \in [1..n -> 1..n]
  <2>1. f = [k \in 1..n |-> f[k]]
    OBVIOUS
  <2> HIDE DEF f
  <2> QED BY <1>1, <2>1
<1> HIDE DEF f
<1>3. \A j \in 1..n : \E k \in 1..n : f[k] = j
  <2> SUFFICES ASSUME NEW j \in 1..n PROVE \E k \in 1..n : f[k] = j
    OBVIOUS
  <2>1. PICK k \in 1..n : r[j] = c[k]
    BY DEF OneEach
  <2> QED BY <1>1, <2>1
<1>4. f \in Surjection(1..n, 1..n)
  BY <1>2, <1>3 DEF Surjection
<1>5. IsFiniteSet(1..n)
  BY FS_Interval
<1>6. f \in Injection(1..n, 1..n)
  BY <1>4, <1>5, FS_SurjSameCardinalityImpliesInj
<1>7. \A k, l \in 1..n : f[k] = f[l] => k = l
  BY <1>6 DEF Injection, IsInjective
<1>8. ASSUME NEW k \in 1..n, NEW l \in 1..n, c[k] = c[l] PROVE k = l
  <2>1. r[f[k]] = c[l] /\ f[k] \in 1..n
    BY <1>1, <1>8
  <2>2. f[k] = f[l]
    BY <1>1, <2>1
  <2> QED BY <1>7, <2>2
<1> QED BY <1>8

\* The group that starts at a is the interaction that starts there.
LEMMA InteractionIsGroup ==
    ASSUME NEW m \in Seq(Messages), NEW a \in 1..Len(m), NEW b \in a..Len(m)
    PROVE  IsInteraction(m, a, b) <=> GroupEnd(m, a) = b
<1> DEFINE n == Len(m[a].calls)
           c == m[a].calls
           r == Results(m, a, b)
<1>1. n \in Nat /\ c \in Seq(Nat) /\ Len(m) \in Nat /\ m[a].role \in {"user", "assistant", "tool"}
  BY MessageTypes
<1>2. n = 0 <=> c = <<>>
  BY <1>1
<1>3. CASE m[a].role # "assistant" \/ n = 0
  <2>1. IsInteraction(m, a, b) <=> a = b /\ m[a].role # "tool"
    BY <1>1, <1>2, <1>3 DEF IsInteraction
  <2>2. GroupEnd(m, a) = IF m[a].role = "tool" THEN 0 ELSE a
    BY <1>3 DEF GroupEnd
  <2> QED BY <2>1, <2>2
<1>4. CASE m[a].role = "assistant" /\ n # 0
  <2> DEFINE one == \A k \in DOMAIN c : Cardinality({j \in (a + 1)..b : m[j].re = c[k]}) = 1
             tools == \A j \in (a + 1)..b : m[j].role = "tool"
             known == \A j \in (a + 1)..b : m[j].re \in Elements(c)
  <2>1. IsInteraction(m, a, b) <=> b = a + n /\ tools /\ known /\ one
    <3>1. (a < b /\ b - a = n) <=> b = a + n
      BY <1>1, <1>4
    <3>2. (tools /\ known) <=> \A j \in (a + 1)..b : m[j].role = "tool" /\ m[j].re \in Elements(c)
      OBVIOUS
    <3> HIDE DEF one, tools, known
    <3>3. IsInteraction(m, a, b) <=>
            /\ a < b /\ b - a = n /\ one
            /\ \A j \in (a + 1)..b : m[j].role = "tool" /\ m[j].re \in Elements(c)
      BY <1>2, <1>4 DEF IsInteraction, one
    <3> QED BY <3>1, <3>2, <3>3
  <2>2. GroupEnd(m, a) = b <=>
          b = a + n /\ Distinct(c) /\ tools /\ Distinct(r) /\ Elements(r) = Elements(c)
    BY <1>1, <1>4 DEF GroupEnd
  <2>3. CASE b # a + n
    BY <2>1, <2>2, <2>3
  <2>4. CASE b = a + n
    <3>1. r = [j \in 1..n |-> m[a + j].re]
      <4>1. b - a = n
        BY <1>1, <2>4
      <4> QED BY <4>1 DEF Results
    <3>2. DOMAIN r = 1..n /\ DOMAIN c = 1..n /\ \A j \in 1..n : r[j] = m[a + j].re
      BY <1>1, <3>1
    <3>3. \A j \in (a + 1)..b : j - a \in 1..n /\ a + (j - a) = j
      BY <1>1, <2>4
    <3>4. \A j \in 1..n : a + j \in (a + 1)..b
      BY <1>1, <2>4
    <3> HIDE DEF r, c, n
    <3>5. known <=> Elements(r) \subseteq Elements(c)
      <4>1. ASSUME known, NEW j \in 1..n PROVE r[j] \in Elements(c)
        BY <3>2, <3>4, <4>1
      <4>2. ASSUME Elements(r) \subseteq Elements(c), NEW j \in (a + 1)..b PROVE m[j].re \in Elements(c)
        <5>1. r[j - a] = m[j].re /\ r[j - a] \in Elements(r)
          BY <3>2, <3>3 DEF Elements
        <5> QED BY <4>2, <5>1
      <4> QED BY <4>1, <4>2, <3>2 DEF Elements
    <3> DEFINE Only(k, j) == r[j] = c[k] /\ \A o \in 1..n : r[o] = c[k] => o = j
    <3>6. one <=> \A k \in 1..n : \E j \in 1..n : Only(k, j)
      <4>1. ASSUME NEW k \in 1..n
            PROVE  Cardinality({j \in (a + 1)..b : m[j].re = c[k]}) = 1 <=> \E j \in 1..n : Only(k, j)
        <5> DEFINE S == {j \in (a + 1)..b : m[j].re = c[k]}
        <5>1. IsFiniteSet(S)
          <6>1. IsFiniteSet((a + 1)..b) /\ S \in SUBSET ((a + 1)..b)
            <7>1. a + 1 \in Int /\ b \in Int
              OBVIOUS
            <7> QED BY <7>1, FS_Interval
          <6> QED BY <6>1, FS_Subset
        <5>2. Cardinality(S) = 1 <=> \E x : S = {x}
          BY <5>1, FS_Singleton
        <5>3. ASSUME NEW x, S = {x} PROVE \E j \in 1..n : Only(k, j)
          <6>1. x \in (a + 1)..b /\ m[x].re = c[k]
            BY <5>3
          <6>2. x - a \in 1..n /\ r[x - a] = c[k]
            BY <3>2, <3>3, <6>1
          <6>3. ASSUME NEW o \in 1..n, r[o] = c[k] PROVE o = x - a
            <7>1. a + o \in S
              BY <3>2, <3>4, <6>3
            <7>2. a + o = x
              BY <5>3, <7>1
            <7> QED BY <6>1, <7>2
          <6> QED BY <6>2, <6>3
        <5>4. ASSUME NEW j \in 1..n, Only(k, j) PROVE S = {a + j}
          <6>1. a + j \in S
            BY <3>2, <3>4, <5>4
          <6>2. ASSUME NEW x \in S PROVE x = a + j
            <7>1. x - a \in 1..n /\ r[x - a] = c[k] /\ a + (x - a) = x
              BY <3>2, <3>3
            <7>2. x - a = j
              BY <5>4, <7>1
            <7> QED BY <7>1, <7>2
          <6> QED BY <6>1, <6>2
        <5> QED BY <5>2, <5>3, <5>4
      <4> HIDE DEF Only
      <4> QED BY <4>1, <3>2
    <3>7. ASSUME known, one PROVE Distinct(c) /\ Distinct(r) /\ Elements(r) = Elements(c)
      <4>1. \A j \in 1..n : \E k \in 1..n : r[j] = c[k]
        BY <3>2, <3>5, <3>7 DEF Elements
      <4>2. \A k \in 1..n : \E j \in 1..n : Only(k, j)
        BY <3>6, <3>7
      <4>3. \A k, l \in 1..n : c[k] = c[l] => k = l
        <5>1. n \in Nat
          BY <1>1 DEF n
        <5>2. OneEach(n, c, r)
          BY <4>1, <4>2 DEF OneEach
        <5> QED BY <5>1, <5>2, EachCallOnce
      <4>4. Elements(c) \subseteq Elements(r)
        <5> SUFFICES ASSUME NEW k \in 1..n PROVE c[k] \in Elements(r)
          BY <3>2 DEF Elements
        <5>0. PICK j \in 1..n : Only(k, j)
          BY <4>2
        <5>1. r[j] = c[k]
          BY <5>0
        <5> QED BY <3>2, <5>1 DEF Elements
      <4>5. \A i, j \in 1..n : r[i] = r[j] => i = j
        BY <4>1, <4>2
      <4> QED BY <3>2, <3>5, <3>7, <4>3, <4>4, <4>5 DEF Distinct
    <3>8. ASSUME Distinct(r), Elements(r) = Elements(c) PROVE known /\ one
      <4>1. ASSUME NEW k \in 1..n PROVE \E j \in 1..n : Only(k, j)
        <5>0. c[k] \in Elements(r)
          BY <3>2, <3>8 DEF Elements
        <5>1. PICK j \in 1..n : r[j] = c[k]
          BY <3>2, <5>0 DEF Elements
        <5> QED BY <5>1, <3>2, <3>8 DEF Distinct
      <4> QED BY <3>5, <3>6, <3>8, <4>1
    <3> HIDE DEF one, tools, known
    <3> QED BY <2>1, <2>2, <2>4, <3>7, <3>8
  <2> QED BY <2>3, <2>4
<1> QED BY <1>3, <1>4

\* Where the interaction that starts at a ends, when c has the first indexes.
CutEnd(m, c, a) ==
    LET later == {x \in c : x > a}
    IN IF later = {} THEN Len(m) ELSE (CHOOSE x \in later : \A y \in later : x <= y) - 1

LEMMA CutEndFact ==
    ASSUME NEW m \in Seq(Messages), NEW c \in SUBSET (1..Len(m)), NEW a \in c
    PROVE  /\ CutEnd(m, c, a) \in a..Len(m)
           /\ CutEnd(m, c, a) + 1 \in c \/ CutEnd(m, c, a) = Len(m)
           /\ \A x \in c : x > a => x > CutEnd(m, c, a)
<1> DEFINE later == {x \in c : x > a}
           least == CHOOSE x \in later : \A y \in later : x <= y
           n == Len(m)
<1>1. n \in Nat /\ a \in 1..n /\ \A x \in c : x \in 1..n
  OBVIOUS
<1>2. CASE later = {}
  <2>1. CutEnd(m, c, a) = n
    BY <1>2 DEF CutEnd
  <2> QED BY <1>1, <1>2, <2>1
<1>3. CASE later # {}
  <2>1. \E x \in later : \A y \in later : x <= y
    <3>1. later \in SUBSET (1..n)
      OBVIOUS
    <3> HIDE DEF later
    <3> QED BY <1>1, <1>3, <3>1, LeastIndex
  <2>2. least \in later /\ \A y \in later : least <= y
    <3> HIDE DEF later
    <3> QED BY <2>1
  <2>3. CutEnd(m, c, a) = least - 1
    BY <1>3 DEF CutEnd
  <2>4. least \in c /\ least > a /\ \A x \in c : x > a => least <= x
    BY <2>2
  <2> HIDE DEF least
  <2>5. least \in 1..n /\ (least - 1) + 1 = least /\ least - 1 \in a..n
    BY <1>1, <2>4
  <2>6. \A x \in c : x > a => x > least - 1
    BY <1>1, <2>4, <2>5
  <2> QED BY <2>3, <2>4, <2>5, <2>6
<1> QED BY <1>2, <1>3

LEMMA CutsFact ==
    ASSUME NEW m \in Seq(Messages), NEW c \in SUBSET (1..Len(m))
    PROVE  c \in Cuts(m) <=>
             /\ m # <<>> => 1 \in c
             /\ \A a \in c : GroupEnd(m, a) = CutEnd(m, c, a)
<1>1. DOMAIN m = 1..Len(m)
  OBVIOUS
<1>2. c \in Cuts(m) <=>
        /\ m # <<>> => 1 \in c
        /\ \A a \in c : IsInteraction(m, a, CutEnd(m, c, a))
  BY <1>1 DEF Cuts, CutEnd
<1>3. ASSUME NEW a \in c
      PROVE  IsInteraction(m, a, CutEnd(m, c, a)) <=> GroupEnd(m, a) = CutEnd(m, c, a)
  <2>1. CutEnd(m, c, a) \in a..Len(m) /\ a \in 1..Len(m)
    BY CutEndFact
  <2> QED BY <2>1, InteractionIsGroup
<1> QED BY <1>2, <1>3

\* The first indexes of the groups from the i-th message on.
Starts(m, i) == {x.first : x \in Elements(GroupsFrom(m)[i])}

LEMMA StartsEquation ==
    ASSUME NEW m \in Seq(Messages), NEW i \in 1..(Len(m) + 1), Complete(m, i)
    PROVE  /\ i = Len(m) + 1 => Starts(m, i) = {}
           /\ i <= Len(m) => Starts(m, i) = {i} \cup Starts(m, GroupEnd(m, i) + 1)
           /\ Starts(m, i) \in SUBSET (i..Len(m))
<1>1. Len(m) \in Nat
  OBVIOUS
<1>2. i = Len(m) + 1 => Starts(m, i) = {}
  BY CompleteEquation DEF Starts
<1>3. ASSUME i <= Len(m) PROVE Starts(m, i) = {i} \cup Starts(m, GroupEnd(m, i) + 1)
  <2> DEFINE e == GroupEnd(m, i)
             x == [first |-> i, last |-> e]
             A == Elements(GroupsFrom(m)[i])
             B == Elements(GroupsFrom(m)[e + 1])
  <2>1. A = {x} \cup B
    BY <1>3, CompleteEquation
  <2>2. x.first = i
    OBVIOUS
  <2> HIDE DEF x, A, B
  <2>3. {y.first : y \in A} = {i} \cup {y.first : y \in B}
    BY <2>1, <2>2
  <2> QED BY <2>3 DEF Starts, A, B
<1>4. ASSUME NEW a \in Starts(m, i) PROVE a \in i..Len(m)
  <2>1. PICK x \in Elements(GroupsFrom(m)[i]) : a = x.first
    BY DEF Starts
  <2> QED BY <2>1, GroupsFact
<1> QED BY <1>2, <1>3, <1>4

\* A set that goes from each of its members to the one behind its group has the
\* starts of the groups and no other index.
LEMMA ChainIsStarts ==
    ASSUME NEW m \in Seq(Messages), NEW c \in SUBSET (1..Len(m)),
           \A a \in c : /\ GroupEnd(m, a) + 1 \in c \/ GroupEnd(m, a) = Len(m)
                        /\ \A x \in c : x > a => x > GroupEnd(m, a),
           NEW i \in 1..(Len(m) + 1), i \in c \/ i = Len(m) + 1, Complete(m, i)
    PROVE  {x \in c : x >= i} = Starts(m, i)
<1> DEFINE n == Len(m)
           From(k) == {x \in c : x >= k}
           Bad(k) == (k \in c \/ k = n + 1) /\ Complete(m, k) /\ From(k) # Starts(m, k)
           S == {k \in 1..(n + 1) : Bad(k)}
<1>1. n \in Nat /\ \A x \in c : x \in 1..n
  OBVIOUS
<1>2. SUFFICES S = {}
  OBVIOUS
<1>3. SUFFICES ASSUME S # {} PROVE FALSE
  OBVIOUS
<1>4. PICK k \in S : \A o \in S : o <= k
  <2>1. S \in SUBSET (1..(n + 1)) /\ n + 1 \in Nat
    <3>1. \A o \in S : o \in 1..(n + 1)
      BY Zenon
    <3>2. n + 1 \in Nat
      BY <1>1
    <3> HIDE DEF S
    <3> QED BY <3>1, <3>2
  <2> HIDE DEF S
  <2> QED BY <2>1, <1>3, GreatestIndex
<1>5. k \in 1..(n + 1) /\ Bad(k)
  BY <1>4
<1>6. CASE k = n + 1
  <2>1. Starts(m, k) = {}
    BY <1>5, <1>6, StartsEquation
  <2>2. From(k) = {}
    <3>1. \A x \in c : ~(x >= n + 1)
      BY <1>1
    <3> QED BY <3>1, <1>6
  <2> QED BY <1>5, <2>1, <2>2
<1>7. CASE k # n + 1
  <2> DEFINE e == GroupEnd(m, k)
  <2>1. k \in c /\ k \in 1..n /\ Complete(m, k)
    BY <1>1, <1>5, <1>7
  <2>2. e # 0 /\ Complete(m, e + 1)
    BY <1>1, <2>1, CompleteEquation
  <2>3. e \in k..n
    BY <2>1, <2>2, GroupEndType
  <2>4. e + 1 \in 1..(n + 1) /\ ~(e + 1 <= k)
    BY <1>1, <2>1, <2>3
  <2>5. e + 1 \in c \/ e + 1 = n + 1
    BY <2>1
  <2>6. From(e + 1) = Starts(m, e + 1)
    <3>1. e + 1 \notin S
      BY <1>4, <2>4
    <3> QED BY <2>2, <2>4, <2>5, <3>1
  <2>7. Starts(m, k) = {k} \cup Starts(m, e + 1)
    BY <1>1, <2>1, StartsEquation
  <2>8. From(k) = {k} \cup From(e + 1)
    <3>1. ASSUME NEW x \in c, x >= k PROVE x = k \/ x >= e + 1
      <4>1. x > k => x > e
        BY <2>1
      <4> QED BY <1>1, <2>1, <2>3, <3>1, <4>1
    <3>2. ASSUME NEW x \in c, x >= e + 1 PROVE x >= k
      BY <1>1, <2>1, <2>3, <3>2
    <3>3. k >= k
      BY <2>1
    <3> HIDE DEF e
    <3> QED BY <2>1, <3>1, <3>2, <3>3
  <2> QED BY <1>5, <2>6, <2>7, <2>8
<1> QED BY <1>6, <1>7

\* The starts of the groups are such a set.
LEMMA StartsAreChain ==
    ASSUME NEW m \in Seq(Messages), NEW i \in 1..(Len(m) + 1), Complete(m, i)
    PROVE  \A a \in Starts(m, i) :
              /\ GroupEnd(m, a) + 1 \in Starts(m, i) \/ GroupEnd(m, a) = Len(m)
              /\ \A x \in Starts(m, i) : x > a => x > GroupEnd(m, a)
<1> DEFINE n == Len(m)
           Chain(k) == \A a \in Starts(m, k) :
                          /\ GroupEnd(m, a) + 1 \in Starts(m, k) \/ GroupEnd(m, a) = n
                          /\ \A x \in Starts(m, k) : x > a => x > GroupEnd(m, a)
           S == {k \in 1..(n + 1) : Complete(m, k) /\ ~Chain(k)}
<1>1. n \in Nat
  OBVIOUS
<1>2. SUFFICES S = {}
  OBVIOUS
<1>3. SUFFICES ASSUME S # {} PROVE FALSE
  OBVIOUS
<1>4. PICK k \in S : \A o \in S : o <= k
  <2>1. S \in SUBSET (1..(n + 1)) /\ n + 1 \in Nat
    <3>1. \A o \in S : o \in 1..(n + 1)
      BY Zenon
    <3>2. n + 1 \in Nat
      BY <1>1
    <3> HIDE DEF S
    <3> QED BY <3>1, <3>2
  <2> HIDE DEF S
  <2> QED BY <2>1, <1>3, GreatestIndex
<1>5. k \in 1..(n + 1) /\ Complete(m, k) /\ ~Chain(k)
  BY <1>4
<1>6. k # n + 1
  BY <1>5, StartsEquation
<1>7. k \in 1..n
  BY <1>1, <1>5, <1>6
<1> DEFINE e == GroupEnd(m, k)
           T == Starts(m, e + 1)
<1>8. e # 0 /\ Complete(m, e + 1)
  BY <1>1, <1>5, <1>7, CompleteEquation
<1>9. e \in k..n
  BY <1>7, <1>8, GroupEndType
<1>10. e + 1 \in 1..(n + 1) /\ ~(e + 1 <= k)
  BY <1>1, <1>7, <1>9
<1>11. Chain(e + 1)
  <2>1. e + 1 \notin S
    BY <1>4, <1>10
  <2> QED BY <2>1, <1>8, <1>10
<1>12. Starts(m, k) = {k} \cup T
  BY <1>1, <1>5, <1>7, StartsEquation
<1>13. T \in SUBSET ((e + 1)..n) /\ (e + 1 \in T \/ e = n)
  <2>1. T \in SUBSET ((e + 1)..n)
    BY <1>8, <1>10, StartsEquation
  <2>2. e + 1 <= n => e + 1 \in T
    BY <1>8, <1>10, StartsEquation
  <2> QED BY <2>1, <2>2, <1>1, <1>9
<1>14. \A a \in T : /\ GroupEnd(m, a) + 1 \in T \/ GroupEnd(m, a) = n
                    /\ \A x \in T : x > a => x > GroupEnd(m, a)
  BY <1>11
<1> HIDE DEF T
<1>15. ASSUME NEW a \in {k} \cup T
       PROVE  /\ GroupEnd(m, a) + 1 \in {k} \cup T \/ GroupEnd(m, a) = n
              /\ \A x \in {k} \cup T : x > a => x > GroupEnd(m, a)
  <2>1. CASE a = k
    <3>1. \A x \in T : x > e
      BY <1>1, <1>9, <1>13
    <3>2. ~(k > k)
      BY <1>7
    <3> QED BY <1>13, <2>1, <3>1, <3>2
  <2>2. CASE a \in T
    <3>1. ~(k > a)
      BY <1>1, <1>7, <1>9, <1>13, <2>2
    <3> QED BY <1>14, <2>2, <3>1
  <2> QED BY <2>1, <2>2
<1> QED BY <1>5, <1>12, <1>15

\* interaction_groups accepts a history exactly when it can be cut into complete
\* interactions, and finds the one way to cut it.
LEMMA CutRight ==
    ASSUME NEW m \in Seq(Messages)
    PROVE  CutIsRight(m)
<1> DEFINE n == Len(m)
           F == Starts(m, 1)
<1>1. n \in Nat /\ (m # <<>> <=> n > 0) /\ 1 \in 1..(n + 1)
  OBVIOUS
<1>2. {InteractionGroups(m)[k].first : k \in DOMAIN InteractionGroups(m)} = F
  BY DEF InteractionGroups, Starts, Elements
<1>3. Cuts(m) \subseteq SUBSET (1..n)
  BY DEF Cuts
<1>4. ASSUME NEW c \in Cuts(m) PROVE Grouped(m) /\ c = F
  <2>1. c \in SUBSET (1..n) /\ (m # <<>> => 1 \in c)
        /\ \A a \in c : GroupEnd(m, a) = CutEnd(m, c, a)
    BY <1>3, <1>4, CutsFact
  <2>2. \A a \in c : /\ GroupEnd(m, a) \in a..n
                     /\ GroupEnd(m, a) + 1 \in c \/ GroupEnd(m, a) = n
                     /\ \A x \in c : x > a => x > GroupEnd(m, a)
    BY <2>1, CutEndFact
  <2> DEFINE C == c \cup {n + 1}
  <2>3. C \in SUBSET (1..(Len(m) + 1)) /\ 1 \in C
    <3>1. m = <<>> => n + 1 = 1
      BY <1>1
    <3>2. \A x \in c : x \in 1..(n + 1)
      BY <1>1, <2>1
    <3>3. n + 1 \in 1..(n + 1)
      BY <1>1
    <3> HIDE DEF n
    <3>4. C \in SUBSET (1..(n + 1))
      BY <3>2, <3>3
    <3> QED BY <2>1, <3>1, <3>4 DEF n
  <2>4. \A i \in C : i <= Len(m) => GroupEnd(m, i) # 0 /\ GroupEnd(m, i) + 1 \in C
    <3> SUFFICES ASSUME NEW i \in C, i <= n PROVE GroupEnd(m, i) # 0 /\ GroupEnd(m, i) + 1 \in C
      OBVIOUS
    <3>1. i \in c /\ i \in 1..n
      BY <1>1, <2>1
    <3>2. GroupEnd(m, i) \in i..n
      BY <2>2, <3>1
    <3>3. GroupEnd(m, i) # 0
      BY <3>1, <3>2
    <3> QED BY <2>2, <3>1, <3>3
  <2> HIDE DEF C
  <2>5. Complete(m, 1)
    BY <2>3, <2>4, ClosedSetIsComplete
  <2>6. 1 \in c \/ 1 = n + 1
    BY <1>1, <2>1
  <2>7. {x \in c : x >= 1} = F
    BY <1>1, <2>1, <2>2, <2>5, <2>6, ChainIsStarts
  <2>8. {x \in c : x >= 1} = c
    <3>1. \A x \in c : x >= 1
      BY <2>1
    <3> QED BY <3>1
  <2> QED BY <2>5, <2>7, <2>8, GroupedIsComplete
<1>5. ASSUME Grouped(m) PROVE F \in Cuts(m)
  <2>1. Complete(m, 1)
    BY <1>5, GroupedIsComplete
  <2>2. F \in SUBSET (1..n)
    BY <1>1, <2>1, StartsEquation
  <2>3. m # <<>> => 1 \in F
    BY <1>1, <2>1, StartsEquation
  <2>4. ASSUME NEW a \in F PROVE GroupEnd(m, a) = CutEnd(m, F, a)
    <3>1. /\ GroupEnd(m, a) + 1 \in F \/ GroupEnd(m, a) = n
          /\ \A x \in F : x > a => x > GroupEnd(m, a)
      BY <1>1, <2>1, StartsAreChain
    <3>2. /\ CutEnd(m, F, a) \in a..n
          /\ CutEnd(m, F, a) + 1 \in F \/ CutEnd(m, F, a) = n
          /\ \A x \in F : x > a => x > CutEnd(m, F, a)
      BY <2>2, CutEndFact
    <3>3. a \in 1..n
      BY <2>2
    <3>4. GroupEnd(m, a) \in a..n
      <4>1. PICK x \in Elements(GroupsFrom(m)[1]) : a = x.first
        BY DEF Starts
      <4> QED BY <4>1, <1>1, <2>1, GroupsFact
    <3> HIDE DEF F
    <3>5. GroupEnd(m, a) + 1 \in F => GroupEnd(m, a) + 1 > CutEnd(m, F, a)
      <4>1. GroupEnd(m, a) + 1 > a
        BY <3>3, <3>4
      <4> QED BY <3>2, <4>1
    <3>6. CutEnd(m, F, a) + 1 \in F => CutEnd(m, F, a) + 1 > GroupEnd(m, a)
      <4>1. CutEnd(m, F, a) + 1 > a
        BY <3>3, <3>2
      <4> QED BY <3>1, <4>1
    <3> QED BY <1>1, <3>1, <3>2, <3>3, <3>4, <3>5, <3>6
  <2> HIDE DEF F
  <2> QED BY <2>2, <2>3, <2>4, CutsFact
<1> HIDE DEF F
<1>6. Grouped(m) <=> Cuts(m) # {}
  BY <1>4, <1>5
<1>7. Grouped(m) => Cuts(m) = {F}
  BY <1>4, <1>5
<1> QED BY <1>2, <1>6, <1>7 DEF CutIsRight

----------------------------------------------------------------------------
(* single_call_wire *)

\* What the recursion of single_call_wire computes from the i-th message on.
WireAt(m, f, i) ==
    IF i > Len(m) THEN <<>>
    ELSE IF GroupEnd(m, i) = 0 THEN <<>>
    ELSE (IF GroupEnd(m, i) = i THEN <<m[i]>> ELSE SingleCalls(m, i)) \o f[GroupEnd(m, i) + 1]

LEMMA WireExists ==
    ASSUME NEW m \in Seq(Messages)
    PROVE  \E f : f = [i \in 1..(Len(m) + 1) |-> WireAt(m, f, i)]
<1> DEFINE n == Len(m)
           Ok(k) == \E f : f = [i \in k..(n + 1) |-> WireAt(m, f, i)]
           S == {k \in 1..(n + 1) : ~Ok(k)}
<1>1. n \in Nat
  OBVIOUS
<1>2. SUFFICES S = {}
  <2>1. 1 \in 1..(n + 1)
    BY <1>1
  <2>2. Ok(1)
    BY <1>2, <2>1
  <2> QED BY <2>2
<1>3. SUFFICES ASSUME S # {} PROVE FALSE
  OBVIOUS
<1>4. PICK k \in S : \A o \in S : o <= k
  <2>1. S \in SUBSET (1..(n + 1)) /\ n + 1 \in Nat
    BY <1>1
  <2> HIDE DEF S
  <2> QED BY <2>1, <1>3, GreatestIndex
<1>5. CASE k = n + 1
  <2> DEFINE f == [i \in k..(n + 1) |-> <<>>]
  <2>1. \A i \in k..(n + 1) : WireAt(m, f, i) = <<>>
    BY <1>1, <1>5 DEF WireAt
  <2>2. f = [i \in k..(n + 1) |-> WireAt(m, f, i)]
    BY <2>1
  <2> QED BY <2>2
<1>6. CASE k # n + 1
  <2>1. k \in 1..n /\ k + 1 \in 1..(n + 1)
    BY <1>1, <1>6
  <2>2. Ok(k + 1)
    <3>1. k + 1 \notin S
      BY <1>4, <2>1
    <3> QED BY <3>1, <2>1
  <2>3. PICK f : f = [i \in (k + 1)..(n + 1) |-> WireAt(m, f, i)]
    BY <2>2
  <2> DEFINE g == [i \in k..(n + 1) |-> IF i = k THEN WireAt(m, f, k) ELSE f[i]]
  <2>4. \A i \in (k + 1)..(n + 1) : g[i] = f[i]
    BY <2>1
  <2>5. ASSUME NEW i \in k..(n + 1) PROVE WireAt(m, g, i) = WireAt(m, f, i)
    <3>1. CASE i > n
      BY <3>1 DEF WireAt
    <3>2. CASE i <= n
      <4>1. GroupEnd(m, i) = 0 \/ GroupEnd(m, i) \in i..n
        BY <1>1, <2>1, <3>2, GroupEndType
      <4>2. GroupEnd(m, i) # 0 => g[GroupEnd(m, i) + 1] = f[GroupEnd(m, i) + 1]
        BY <1>1, <2>1, <2>4, <4>1
      <4> HIDE DEF g
      <4> QED BY <4>2 DEF WireAt
    <3> QED BY <3>1, <3>2, <1>1, <2>1
  <2>6. \A i \in k..(n + 1) : g[i] = WireAt(m, f, i)
    BY <2>1, <2>3
  <2>7. g = [i \in k..(n + 1) |-> WireAt(m, g, i)]
    <3>1. g = [i \in k..(n + 1) |-> g[i]]
      OBVIOUS
    <3> HIDE DEF g
    <3> QED BY <2>5, <2>6, <3>1
  <2> QED BY <2>7
<1> QED BY <1>5, <1>6

LEMMA WireEquation ==
    ASSUME NEW m \in Seq(Messages), NEW i \in 1..(Len(m) + 1)
    PROVE  WireFrom(m)[i] = WireAt(m, WireFrom(m), i)
<1>1. WireFrom(m) = CHOOSE f : f = [j \in 1..(Len(m) + 1) |-> WireAt(m, f, j)]
  BY DEF WireFrom, WireAt
<1>2. WireFrom(m) = [j \in 1..(Len(m) + 1) |-> WireAt(m, WireFrom(m), j)]
  BY <1>1, WireExists
<1> QED BY <1>2

\* Every call is alone and its result is the next message; no other message is
\* a result.
Paired(w) ==
    \A i \in 1..Len(w) :
        /\ Len(w[i].calls) <= 1
        /\ w[i].role = "assistant" /\ w[i].calls # <<>> =>
             i < Len(w) /\ w[i + 1].role = "tool" /\ w[i + 1].re = w[i].calls[1]
        /\ w[i].role = "tool" => i > 1 /\ w[i - 1].role = "assistant" /\ w[i - 1].calls # <<>>

\* Such a history is complete.
LEMMA PairedIsGrouped ==
    ASSUME NEW w \in Seq(Messages), Paired(w)
    PROVE  Grouped(w)
<1> DEFINE n == Len(w)
           C == {i \in 1..(n + 1) : i = n + 1 \/ w[i].role # "tool"}
<1>1. n \in Nat
  OBVIOUS
<1>2. \A i \in 1..n : w[i].role \in {"user", "assistant", "tool"} /\ w[i].calls \in Seq(Nat)
                      /\ Len(w[i].calls) \in Nat
  BY MessageTypes
<1>3. 1 \in C /\ C \in SUBSET (1..(Len(w) + 1))
  <2>1. 1 \in 1..(n + 1) /\ (1 = n + 1 \/ 1 \in 1..n)
    BY <1>1
  <2>2. 1 \in 1..n => w[1].role # "tool"
    BY DEF Paired
  <2> QED BY <2>1, <2>2
<1>4. ASSUME NEW i \in C, i <= Len(w) PROVE GroupEnd(w, i) # 0 /\ GroupEnd(w, i) + 1 \in C
  <2>1. i \in 1..n /\ w[i].role # "tool"
    BY <1>1, <1>4
  <2>2. CASE w[i].role = "assistant" /\ w[i].calls # <<>>
    <3>1. Len(w[i].calls) = 1
      <4>1. Len(w[i].calls) <= 1
        BY <2>1 DEF Paired
      <4>2. Len(w[i].calls) # 0 /\ Len(w[i].calls) \in Nat
        BY <1>2, <2>1, <2>2
      <4> DEFINE x == Len(w[i].calls)
      <4>3. x <= 1 /\ x # 0 /\ x \in Nat
        BY <4>1, <4>2
      <4> HIDE DEF x
      <4>4. x = 1
        BY <4>3
      <4> QED BY <4>4 DEF x
    <3>2. i < n /\ w[i + 1].role = "tool" /\ w[i + 1].re = w[i].calls[1]
      BY <2>1, <2>2 DEF Paired
    <3>3. GroupEnd(w, i) = i + 1
      <4> DEFINE c == w[i].calls
                 r == Results(w, i, i + 1)
      <4>1. (i + 1) - i = 1 /\ i + 1 <= n /\ \A j \in (i + 1)..(i + 1) : j = i + 1
        BY <1>1, <2>1, <3>2
      <4>2. r = [j \in 1..1 |-> w[i + j].re]
        BY <4>1 DEF Results
      <4>3. DOMAIN r = {1} /\ r[1] = c[1]
        <5>1. 1..1 = {1}
          OBVIOUS
        <5> QED BY <3>2, <4>2, <5>1
      <4>4. DOMAIN c = {1}
        <5>1. DOMAIN c = 1..1
          BY <1>2, <2>1, <3>1
        <5> QED BY <5>1
      <4>5. \A j \in (i + 1)..(i + 1) : w[j].role = "tool"
        BY <3>2, <4>1
      <4> HIDE DEF c, r
      <4>6. Distinct(c) /\ Distinct(r) /\ Elements(r) = Elements(c)
        BY <4>3, <4>4 DEF Distinct, Elements
      <4> QED BY <2>2, <3>1, <4>1, <4>5, <4>6 DEF GroupEnd, c, r
    <3>4. i + 2 \in C
      <4>1. i + 1 \in 1..n /\ i + 2 \in 1..(n + 1) /\ (i + 2 = n + 1 \/ i + 2 \in 1..n)
            /\ (i + 2) - 1 = i + 1
        BY <1>1, <2>1, <3>2
      <4>2. i + 2 \in 1..n => w[i + 2].role # "tool"
        <5> SUFFICES ASSUME i + 2 \in 1..n, w[i + 2].role = "tool" PROVE FALSE
          OBVIOUS
        <5>1. w[(i + 2) - 1].role = "assistant"
          BY DEF Paired
        <5> QED BY <3>2, <4>1, <5>1
      <4> QED BY <4>1, <4>2
    <3>5. (i + 1) + 1 = i + 2 /\ i + 1 # 0
      BY <2>1
    <3> QED BY <3>3, <3>4, <3>5
  <2>3. CASE ~(w[i].role = "assistant" /\ w[i].calls # <<>>)
    <3>1. GroupEnd(w, i) = i
      <4>1. w[i].role # "assistant" \/ Len(w[i].calls) = 0
        BY <1>2, <2>1, <2>3
      <4> QED BY <2>1, <4>1 DEF GroupEnd
    <3>2. i + 1 \in 1..(n + 1) /\ (i + 1 = n + 1 \/ i + 1 \in 1..n) /\ (i + 1) - 1 = i /\ i # 0
      BY <1>1, <2>1
    <3>3. i + 1 \in 1..n => w[i + 1].role # "tool"
      <4> SUFFICES ASSUME i + 1 \in 1..n, w[i + 1].role = "tool" PROVE FALSE
        OBVIOUS
      <4>1. w[(i + 1) - 1].role = "assistant" /\ w[(i + 1) - 1].calls # <<>>
        BY DEF Paired
      <4> QED BY <2>3, <3>2, <4>1
    <3> QED BY <3>1, <3>2, <3>3
  <2> QED BY <2>2, <2>3
<1> HIDE DEF C
<1>5. Complete(w, 1)
  BY <1>3, <1>4, ClosedSetIsComplete
<1> QED BY <1>5, GroupedIsComplete

LEMMA PairedConcat ==
    ASSUME NEW a \in Seq(Messages), NEW b \in Seq(Messages), Paired(a), Paired(b)
    PROVE  Paired(a \o b)
<1> DEFINE w == a \o b
           n == Len(a)
           k == Len(b)
<1>1. n \in Nat /\ k \in Nat /\ w \in Seq(Messages) /\ Len(w) = n + k
  OBVIOUS
<1>2. \A j \in 1..n : w[j] = a[j]
  OBVIOUS
<1>3. \A j \in 1..k : w[n + j] = b[j]
  OBVIOUS
<1> HIDE DEF w
<1> DEFINE P(i) == /\ Len(w[i].calls) <= 1
                   /\ w[i].role = "assistant" /\ w[i].calls # <<>> =>
                        i < Len(w) /\ w[i + 1].role = "tool" /\ w[i + 1].re = w[i].calls[1]
                   /\ w[i].role = "tool" =>
                        i > 1 /\ w[i - 1].role = "assistant" /\ w[i - 1].calls # <<>>
<1>4. ASSUME NEW i \in 1..n PROVE P(i)
  <2>1. w[i] = a[i] /\ (i < n => w[i + 1] = a[i + 1]) /\ (i > 1 => w[i - 1] = a[i - 1])
    <3>1. i < n => i + 1 \in 1..n
      BY <1>1
    <3>2. i > 1 => i - 1 \in 1..n
      BY <1>1
    <3> QED BY <1>2, <3>1, <3>2
  <2>2. i < n => i < Len(w)
    BY <1>1
  <2> QED BY <2>1, <2>2 DEF Paired
<1>5. ASSUME NEW j \in 1..k PROVE P(n + j)
  <2>1. w[n + j] = b[j] /\ (j < k => w[(n + j) + 1] = b[j + 1])
        /\ (j > 1 => w[(n + j) - 1] = b[j - 1])
    <3>1. j < k => j + 1 \in 1..k /\ n + (j + 1) = (n + j) + 1
      BY <1>1
    <3>2. j > 1 => j - 1 \in 1..k /\ n + (j - 1) = (n + j) - 1
      BY <1>1
    <3>3. j < k => w[n + (j + 1)] = b[j + 1]
      BY <1>3, <3>1
    <3>4. j > 1 => w[n + (j - 1)] = b[j - 1]
      BY <1>3, <3>2
    <3> QED BY <1>3, <3>1, <3>2, <3>3, <3>4
  <2>2. (j < k => n + j < Len(w)) /\ (j > 1 => n + j > 1)
    BY <1>1
  <2> QED BY <2>1, <2>2 DEF Paired
<1>6. ASSUME NEW i \in 1..Len(w) PROVE P(i)
  <2>1. i \in 1..n \/ \E j \in 1..k : i = n + j
    <3>1. i > n => i - n \in 1..k /\ i = n + (i - n)
      BY <1>1
    <3>2. ~(i > n) => i \in 1..n
      BY <1>1
    <3> QED BY <3>1, <3>2
  <2> QED BY <2>1, <1>4, <1>5
<1> QED BY <1>6 DEF Paired, w

\* The results of a complete batch are the results of its calls.
LEMMA BatchFact ==
    ASSUME NEW m \in Seq(Messages), NEW i \in 1..Len(m), GroupEnd(m, i) # 0, GroupEnd(m, i) # i
    PROVE  /\ m[i].role = "assistant" /\ Len(m[i].calls) \in Nat /\ Len(m[i].calls) > 0
           /\ GroupEnd(m, i) = i + Len(m[i].calls) /\ GroupEnd(m, i) <= Len(m)
           /\ \A j \in (i + 1)..GroupEnd(m, i) : m[j].role = "tool"
           /\ \A k \in 1..Len(m[i].calls) :
                 \E j \in (i + 1)..GroupEnd(m, i) : m[j].re = m[i].calls[k]
<1> DEFINE c == m[i].calls
           n == Len(c)
           e == GroupEnd(m, i)
<1>1. n \in Nat /\ c \in Seq(Nat) /\ Len(m) \in Nat
  BY MessageTypes
<1>2. m[i].role = "assistant" /\ n # 0
  BY DEF GroupEnd
<1>3. /\ e = i + n /\ e <= Len(m)
      /\ \A j \in (i + 1)..e : m[j].role = "tool"
      /\ Elements(Results(m, i, e)) = Elements(c)
  BY <1>1, <1>2 DEF GroupEnd
<1> HIDE DEF e
<1>4. ASSUME NEW k \in 1..n PROVE \E j \in (i + 1)..e : m[j].re = c[k]
  <2> DEFINE r == Results(m, i, e)
  <2>1. DOMAIN r = 1..n /\ \A j \in 1..n : r[j] = m[i + j].re
    <3>1. e - i = n
      BY <1>1, <1>3
    <3> QED BY <3>1 DEF Results
  <2>2. c[k] \in Elements(r)
    <3>1. Elements(r) = Elements(c)
      BY <1>3
    <3>2. c[k] \in Elements(c)
      BY <1>1 DEF Elements
    <3> QED BY <3>1, <3>2
  <2> HIDE DEF r
  <2>3. PICK j \in 1..n : r[j] = c[k]
    BY <2>1, <2>2 DEF Elements
  <2>4. i + j \in (i + 1)..e
    BY <1>1, <1>3
  <2> QED BY <2>1, <2>3, <2>4
<1>5. n > 0
  BY <1>1, <1>2
<1> HIDE DEF n, c
<1>6. /\ m[i].role = "assistant" /\ n \in Nat /\ n > 0 /\ e = i + n /\ e <= Len(m)
      /\ \A j \in (i + 1)..e : m[j].role = "tool"
      /\ \A k \in 1..n : \E j \in (i + 1)..e : m[j].re = c[k]
  BY <1>1, <1>2, <1>3, <1>4, <1>5
<1> QED BY <1>6 DEF e, n, c

\* Only assistant messages of the history have calls.
OnlyAssistantsCall(m) == \A i \in 1..Len(m) : m[i].role # "assistant" => m[i].calls = <<>>

\* The wire form of a batch, call by call.
LEMMA SingleCallsFact ==
    ASSUME NEW m \in Seq(Messages), NEW i \in 1..Len(m), GroupEnd(m, i) # 0, GroupEnd(m, i) # i,
           OnlyAssistantsCall(m)
    PROVE  LET s == SingleCalls(m, i)
               n == Len(m[i].calls)
           IN /\ s \in Seq(Messages) /\ Len(s) = 2 * n
              /\ \A k \in 1..n :
                    /\ s[2 * k - 1].role = "assistant" /\ s[2 * k - 1].calls = <<m[i].calls[k]>>
                    /\ s[2 * k].role = "tool" /\ s[2 * k].re = m[i].calls[k]
                    /\ s[2 * k].calls = <<>>
<1> DEFINE c == m[i].calls
           n == Len(c)
           e == i + n
           s == SingleCalls(m, i)
           answer(id) == CHOOSE j \in (i + 1)..e : m[j].re = id
           At(j) == LET id == c[(j + 1) \div 2]
                    IN IF j % 2 = 1 THEN [m[i] EXCEPT !.calls = <<id>>] ELSE m[answer(id)]
<1>1. /\ m[i].role = "assistant" /\ n \in Nat /\ n > 0 /\ e <= Len(m)
      /\ \A j \in (i + 1)..e : m[j].role = "tool"
      /\ \A k \in 1..n : \E j \in (i + 1)..e : m[j].re = c[k]
  <2> DEFINE g == GroupEnd(m, i)
  <2>1. /\ m[i].role = "assistant" /\ n \in Nat /\ n > 0 /\ g = i + n /\ g <= Len(m)
        /\ \A j \in (i + 1)..g : m[j].role = "tool"
        /\ \A k \in 1..n : \E j \in (i + 1)..g : m[j].re = c[k]
    BY BatchFact
  <2>2. g = e
    BY <2>1
  <2> HIDE DEF g, e, n, c
  <2> QED BY <2>1, <2>2
<1>2. c \in Seq(Nat) /\ Len(m) \in Nat /\ m[i] \in Messages
  BY MessageTypes
<1>3. s = [j \in 1..(2 * n) |-> At(j)]
  BY DEF SingleCalls
<1> HIDE DEF s, n, c, e
<1>4. ASSUME NEW k \in 1..n
      PROVE  /\ At(2 * k - 1) = [m[i] EXCEPT !.calls = <<c[k]>>]
             /\ At(2 * k) = m[answer(c[k])] /\ answer(c[k]) \in (i + 1)..e
             /\ m[answer(c[k])].re = c[k]
             /\ 2 * k - 1 \in 1..(2 * n) /\ 2 * k \in 1..(2 * n)
  <2>1. /\ ((2 * k - 1) + 1) \div 2 = k /\ (2 * k - 1) % 2 = 1
        /\ (2 * k + 1) \div 2 = k /\ (2 * k) % 2 = 0
        /\ 2 * k - 1 \in 1..(2 * n) /\ 2 * k \in 1..(2 * n)
    BY <1>1
  <2>2. answer(c[k]) \in (i + 1)..e /\ m[answer(c[k])].re = c[k]
    BY <1>1
  <2>3. At(2 * k - 1) = [m[i] EXCEPT !.calls = <<c[k]>>]
    BY <2>1
  <2>4. At(2 * k) = m[answer(c[k])]
    <3>1. (2 * k) % 2 # 1 /\ c[(2 * k + 1) \div 2] = c[k]
      BY <2>1
    <3>2. At(2 * k) = m[answer(c[(2 * k + 1) \div 2])]
      BY <3>1
    <3> QED BY <3>1, <3>2
  <2> QED BY <2>1, <2>2, <2>3, <2>4
<1>5. ASSUME NEW k \in 1..n
      PROVE  /\ At(2 * k - 1) \in Messages /\ At(2 * k) \in Messages
             /\ At(2 * k - 1).role = "assistant" /\ At(2 * k - 1).calls = <<c[k]>>
             /\ At(2 * k).role = "tool" /\ At(2 * k).re = c[k] /\ At(2 * k).calls = <<>>
  <2> DEFINE x == m[i]
             y == [x EXCEPT !.calls = <<c[k]>>]
             a == answer(c[k])
  <2>1. c[k] \in Nat
    BY <1>2 DEF n
  <2>2. <<c[k]>> \in Seq(Nat)
    BY <2>1
  <2>3. y \in Messages /\ y.role = "assistant" /\ y.calls = <<c[k]>>
    <3>1. x \in Messages /\ x.role = "assistant"
      BY <1>1, <1>2
    <3> DEFINE q == <<c[k]>>
    <3>2. q \in Seq(Nat)
      BY <2>2
    <3> HIDE DEF x, q
    <3> QED BY <3>1, <3>2 DEF Messages, q
  <2>4. a \in 1..Len(m) /\ m[a].role = "tool" /\ m[a].re = c[k]
    <3>1. a \in (i + 1)..e /\ m[a].re = c[k]
      BY <1>4
    <3> HIDE DEF a
    <3>2. e \in Int
      BY <1>1 DEF e
    <3>3. a \in 1..Len(m)
      BY <1>1, <1>2, <3>1, <3>2
    <3> QED BY <1>1, <3>1, <3>3
  <2>5. m[a] \in Messages /\ m[a].calls = <<>>
    BY <2>4 DEF OnlyAssistantsCall
  <2>6. At(2 * k - 1) = y /\ At(2 * k) = m[a]
    BY <1>4
  <2> HIDE DEF At, y, a
  <2> QED BY <2>3, <2>4, <2>5, <2>6
<1> HIDE DEF At
<1>6. \A j \in 1..(2 * n) : \E k \in 1..n : j = 2 * k - 1 \/ j = 2 * k
  <2> SUFFICES ASSUME NEW j \in 1..(2 * n) PROVE \E k \in 1..n : j = 2 * k - 1 \/ j = 2 * k
    OBVIOUS
  <2> DEFINE k == (j + 1) \div 2
  <2>1. k \in 1..n /\ (j = 2 * k - 1 \/ j = 2 * k)
    BY <1>1
  <2> QED BY <2>1
<1>7. \A j \in 1..(2 * n) : At(j) \in Messages
  BY <1>5, <1>6
<1>8. s \in Seq(Messages) /\ Len(s) = 2 * n
  <2>1. 2 * n \in Nat
    BY <1>1
  <2> DEFINE l == 2 * n
  <2>2. s = [j \in 1..l |-> At(j)] /\ l \in Nat /\ \A j \in 1..l : At(j) \in Messages
    BY <1>3, <1>7, <2>1
  <2> HIDE DEF l
  <2>3. s \in Seq(Messages) /\ Len(s) = l
    BY <2>2
  <2> QED BY <2>3 DEF l
<1>9. \A k \in 1..n : s[2 * k - 1] = At(2 * k - 1) /\ s[2 * k] = At(2 * k)
  BY <1>3, <1>4
<1>10. \A k \in 1..n : /\ s[2 * k - 1].role = "assistant" /\ s[2 * k - 1].calls = <<c[k]>>
                       /\ s[2 * k].role = "tool" /\ s[2 * k].re = c[k] /\ s[2 * k].calls = <<>>
  BY <1>5, <1>9
<1> QED BY <1>8, <1>10 DEF s, n, c

LEMMA SingleCallsPaired ==
    ASSUME NEW m \in Seq(Messages), NEW i \in 1..Len(m), GroupEnd(m, i) # 0, GroupEnd(m, i) # i,
           OnlyAssistantsCall(m)
    PROVE  Paired(SingleCalls(m, i))
<1> DEFINE c == m[i].calls
           n == Len(c)
           s == SingleCalls(m, i)
<1>1. n \in Nat
  BY MessageTypes
<1>2. /\ s \in Seq(Messages) /\ Len(s) = 2 * n
      /\ \A k \in 1..n : /\ s[2 * k - 1].role = "assistant" /\ s[2 * k - 1].calls = <<c[k]>>
                         /\ s[2 * k].role = "tool" /\ s[2 * k].re = c[k] /\ s[2 * k].calls = <<>>
  BY SingleCallsFact
<1> HIDE DEF s, n, c
<1> DEFINE P(j) == /\ Len(s[j].calls) <= 1
                   /\ s[j].role = "assistant" /\ s[j].calls # <<>> =>
                        j < Len(s) /\ s[j + 1].role = "tool" /\ s[j + 1].re = s[j].calls[1]
                   /\ s[j].role = "tool" =>
                        j > 1 /\ s[j - 1].role = "assistant" /\ s[j - 1].calls # <<>>
<1>3. ASSUME NEW k \in 1..n PROVE P(2 * k - 1) /\ P(2 * k)
  <2>1. (2 * k - 1) + 1 = 2 * k /\ 2 * k - 1 < 2 * n /\ 2 * k > 1
    BY <1>1
  <2>2. Len(<<c[k]>>) <= 1 /\ <<c[k]>>[1] = c[k] /\ <<c[k]>> # <<>> /\ Len(<<>>) <= 1
    OBVIOUS
  <2>3. /\ s[2 * k - 1].role = "assistant" /\ s[2 * k - 1].calls = <<c[k]>>
        /\ s[2 * k].role = "tool" /\ s[2 * k].re = c[k] /\ s[2 * k].calls = <<>>
    BY <1>2
  <2>4. P(2 * k - 1)
    BY <1>2, <2>1, <2>2, <2>3
  <2>5. P(2 * k)
    BY <2>1, <2>2, <2>3
  <2> QED BY <2>4, <2>5
<1>4. ASSUME NEW j \in 1..Len(s) PROVE P(j)
  <2> DEFINE k == (j + 1) \div 2
  <2>1. k \in 1..n /\ (j = 2 * k - 1 \/ j = 2 * k)
    BY <1>1, <1>2
  <2> QED BY <1>3, <2>1
<1> QED BY <1>4 DEF Paired, s

\* The wire form of a complete history is paired.
LEMMA WirePaired ==
    ASSUME NEW m \in Seq(Messages), OnlyAssistantsCall(m), NEW i \in 1..(Len(m) + 1), Complete(m, i)
    PROVE  WireFrom(m)[i] \in Seq(Messages) /\ Paired(WireFrom(m)[i])
<1> DEFINE n == Len(m)
           W == WireFrom(m)
           Fine(k) == W[k] \in Seq(Messages) /\ Paired(W[k])
           S == {k \in 1..(n + 1) : Complete(m, k) /\ ~Fine(k)}
<1>1. n \in Nat
  OBVIOUS
<1>2. SUFFICES S = {}
  OBVIOUS
<1>3. SUFFICES ASSUME S # {} PROVE FALSE
  OBVIOUS
<1>4. PICK k \in S : \A o \in S : o <= k
  <2>1. S \in SUBSET (1..(n + 1)) /\ n + 1 \in Nat
    <3>1. \A o \in S : o \in 1..(n + 1)
      BY Zenon
    <3>2. n + 1 \in Nat
      BY <1>1
    <3> HIDE DEF S
    <3> QED BY <3>1, <3>2
  <2> HIDE DEF S
  <2> QED BY <2>1, <1>3, GreatestIndex
<1>5. k \in 1..(n + 1) /\ Complete(m, k) /\ ~Fine(k)
  BY <1>4
<1>6. W[k] = WireAt(m, W, k)
  BY <1>5, WireEquation
<1>7. CASE k = n + 1
  <2>1. W[k] = <<>>
    BY <1>1, <1>6, <1>7 DEF WireAt
  <2>2. <<>> \in Seq(Messages) /\ Paired(<<>>)
    BY DEF Paired
  <2> QED BY <1>5, <2>1, <2>2
<1>8. CASE k # n + 1
  <2>1. k \in 1..n
    BY <1>1, <1>5, <1>8
  <2> DEFINE e == GroupEnd(m, k)
             part == IF e = k THEN <<m[k]>> ELSE SingleCalls(m, k)
  <2>2. e # 0 /\ Complete(m, e + 1)
    BY <1>1, <1>5, <2>1, CompleteEquation
  <2>3. e \in k..n
    BY <2>1, <2>2, GroupEndType
  <2>4. e + 1 \in 1..(n + 1) /\ ~(e + 1 <= k)
    BY <1>1, <2>1, <2>3
  <2>5. Fine(e + 1)
    <3>1. e + 1 \notin S
      BY <1>4, <2>4
    <3> QED BY <2>2, <2>4, <3>1
  <2>6. W[k] = part \o W[e + 1]
    <3>1. ~(k > n)
      BY <1>1, <2>1
    <3> HIDE DEF W
    <3> QED BY <1>6, <2>2, <3>1 DEF WireAt
  <2>7. part \in Seq(Messages) /\ Paired(part)
    <3>1. CASE e = k
      <4> DEFINE x == m[k]
      <4>1. x \in Messages /\ x.role # "tool" /\ (x.role = "assistant" => x.calls = <<>>)
        <5>1. x \in Messages /\ x.calls \in Seq(Nat) /\ Len(x.calls) \in Nat
          BY <2>1, MessageTypes
        <5>2. x.role # "tool"
          BY <2>2 DEF GroupEnd
        <5>3. x.role # "assistant" \/ Len(x.calls) = 0
          <6>1. x.role = "assistant" /\ Len(x.calls) # 0 => e = k + Len(x.calls)
            BY <2>2, <5>2 DEF GroupEnd
          <6> DEFINE y == Len(x.calls)
          <6> HIDE DEF y
          <6>2. y \in Nat /\ y # 0 => k + y # k
            BY <2>1
          <6> QED BY <3>1, <5>1, <6>1, <6>2 DEF y
        <5> QED BY <5>1, <5>2, <5>3
      <4>2. x.calls = <<>>
        BY <2>1, <4>1 DEF OnlyAssistantsCall
      <4> HIDE DEF x
      <4> DEFINE q == <<x>>
      <4>3. q \in Seq(Messages) /\ Len(q) = 1 /\ q[1] = x
        BY <4>1
      <4>4. \A j \in 1..1 : j = 1
        OBVIOUS
      <4>5. Len(<<>>) <= 1
        OBVIOUS
      <4> HIDE DEF q
      <4>6. Paired(q)
        BY <4>1, <4>2, <4>3, <4>4, <4>5 DEF Paired
      <4> QED BY <3>1, <4>3, <4>6 DEF q, x
    <3>2. CASE e # k
      <4>1. part = SingleCalls(m, k)
        BY <3>2
      <4>2. SingleCalls(m, k) \in Seq(Messages)
        BY <2>1, <2>2, <3>2, SingleCallsFact
      <4>3. Paired(SingleCalls(m, k))
        BY <2>1, <2>2, <3>2, SingleCallsPaired
      <4> QED BY <4>1, <4>2, <4>3
    <3> QED BY <3>1, <3>2
  <2> HIDE DEF part, W
  <2> DEFINE rest == W[e + 1]
  <2>8. rest \in Seq(Messages) /\ Paired(rest) /\ W[k] = part \o rest
    BY <2>5, <2>6
  <2> HIDE DEF rest
  <2>9. part \o rest \in Seq(Messages) /\ Paired(part \o rest)
    BY <2>7, <2>8, PairedConcat
  <2> QED BY <1>5, <2>8, <2>9
<1> QED BY <1>7, <1>8

\* The calls of a history: pairs of a message and a number of its calls.
Asks(q, bound) == {p \in (1..Len(q)) \X (1..bound) :
                      q[p[1]].role = "assistant" /\ p[2] <= Len(q[p[1]].calls)}

LEMMA AsksFinite ==
    ASSUME NEW q \in Seq(Messages), NEW b \in Nat
    PROVE  IsFiniteSet(Asks(q, b)) /\ Cardinality(Asks(q, b)) \in Nat
<1>1. IsFiniteSet(1..Len(q)) /\ IsFiniteSet(1..b)
  BY FS_Interval
<1>2. IsFiniteSet((1..Len(q)) \X (1..b))
  BY <1>1, FS_Product
<1>3. Asks(q, b) \in SUBSET ((1..Len(q)) \X (1..b))
  BY DEF Asks
<1>4. IsFiniteSet(Asks(q, b))
  BY <1>2, <1>3, FS_Subset
<1> QED BY <1>4, FS_CardinalityType

LEMMA DisjointSum ==
    ASSUME NEW S, NEW T, IsFiniteSet(S), IsFiniteSet(T), \A x \in S : x \notin T
    PROVE  IsFiniteSet(S \cup T) /\ Cardinality(S \cup T) = Cardinality(S) + Cardinality(T)
<1>1. S \cap T = {}
  OBVIOUS
<1>2. Cardinality(S) \in Nat /\ Cardinality(T) \in Nat /\ Cardinality(S \cap T) = 0
  BY <1>1, FS_CardinalityType, FS_EmptySet
<1>3. /\ IsFiniteSet(S \cup T)
      /\ Cardinality(S \cup T) = Cardinality(S) + Cardinality(T) - Cardinality(S \cap T)
  BY FS_Union
<1>4. Cardinality(S) + Cardinality(T) - Cardinality(S \cap T) = Cardinality(S) + Cardinality(T)
  BY <1>2
<1> QED BY <1>3, <1>4

\* The calls of two histories in a row.
LEMMA AsksConcat ==
    ASSUME NEW a \in Seq(Messages), NEW q \in Seq(Messages), NEW b \in Nat
    PROVE  Cardinality(Asks(a \o q, b)) = Cardinality(Asks(a, b)) + Cardinality(Asks(q, b))
<1> DEFINE w == a \o q
           n == Len(a)
           k == Len(q)
           A == Asks(a, b)
           Q == Asks(q, b)
           f == [p \in Q |-> <<n + p[1], p[2]>>]
           T == {f[p] : p \in Q}
<1>1. n \in Nat /\ k \in Nat /\ w \in Seq(Messages) /\ Len(w) = n + k
  OBVIOUS
<1>2. \A j \in 1..n : w[j] = a[j]
  OBVIOUS
<1>3. \A j \in 1..k : w[n + j] = q[j]
  OBVIOUS
<1> HIDE DEF w
<1>4. \A p \in Q : p[1] \in 1..k /\ p[2] \in 1..b /\ p = <<p[1], p[2]>>
                   /\ q[p[1]].role = "assistant" /\ p[2] <= Len(q[p[1]].calls)
  BY DEF Asks
<1>5. \A p \in A : p[1] \in 1..n /\ p[2] \in 1..b /\ p = <<p[1], p[2]>>
                   /\ a[p[1]].role = "assistant" /\ p[2] <= Len(a[p[1]].calls)
  BY DEF Asks
<1>6. \A x \in 1..k, y \in 1..b :
         q[x].role = "assistant" /\ y <= Len(q[x].calls) => <<x, y>> \in Q
  BY DEF Asks
<1>7. \A x \in 1..n, y \in 1..b :
         a[x].role = "assistant" /\ y <= Len(a[x].calls) => <<x, y>> \in A
  BY DEF Asks
<1> HIDE DEF A, Q
<1>8. Asks(w, b) = A \cup T
  <2>1. ASSUME NEW p \in Asks(w, b) PROVE p \in A \cup T
    <3>1. p[1] \in 1..(n + k) /\ p[2] \in 1..b /\ p = <<p[1], p[2]>>
          /\ w[p[1]].role = "assistant" /\ p[2] <= Len(w[p[1]].calls)
      BY <1>1 DEF Asks
    <3> DEFINE x == p[1]
               y == p[2]
    <3>2. x \in 1..(n + k) /\ y \in 1..b /\ p = <<x, y>>
          /\ w[x].role = "assistant" /\ y <= Len(w[x].calls)
      BY <3>1
    <3> HIDE DEF x, y
    <3>3. CASE x <= n
      <4>1. x \in 1..n
        BY <1>1, <3>2, <3>3
      <4>2. <<x, y>> \in A
        BY <1>2, <1>7, <3>2, <4>1
      <4> QED BY <3>2, <4>2
    <3>4. CASE x > n
      <4>1. PICK j \in 1..k : x = n + j
        <5>1. x - n \in 1..k /\ x = n + (x - n)
          BY <1>1, <3>2, <3>4
        <5> QED BY <5>1
      <4>2. <<j, y>> \in Q
        BY <1>3, <1>6, <3>2, <4>1
      <4>3. f[<<j, y>>] = <<x, y>>
        BY <4>1, <4>2
      <4>4. p \in T
        BY <3>2, <4>2, <4>3
      <4> QED BY <4>4
    <3> QED BY <1>1, <3>2, <3>3, <3>4
  <2>2. ASSUME NEW p \in A PROVE p \in Asks(w, b)
    <3>1. p[1] \in 1..n /\ p[2] \in 1..b /\ p = <<p[1], p[2]>>
          /\ a[p[1]].role = "assistant" /\ p[2] <= Len(a[p[1]].calls)
      BY <1>5, <2>2
    <3>2. p[1] \in 1..Len(w) /\ w[p[1]] = a[p[1]]
      BY <1>1, <1>2, <3>1
    <3> QED BY <3>1, <3>2 DEF Asks
  <2>3. ASSUME NEW t \in T PROVE t \in Asks(w, b)
    <3>1. PICK p \in Q : t = <<n + p[1], p[2]>>
      BY <2>3
    <3>2. p[1] \in 1..k /\ p[2] \in 1..b /\ q[p[1]].role = "assistant" /\ p[2] <= Len(q[p[1]].calls)
      BY <1>4
    <3> DEFINE x == n + p[1]
               y == p[2]
    <3>3. x \in 1..Len(w) /\ w[x] = q[p[1]]
      BY <1>1, <1>3, <3>2
    <3>4. t = <<x, y>> /\ y \in 1..b /\ w[x].role = "assistant" /\ y <= Len(w[x].calls)
      BY <3>1, <3>2, <3>3
    <3> HIDE DEF x, y
    <3> QED BY <3>3, <3>4 DEF Asks
  <2> HIDE DEF T
  <2> QED BY <2>1, <2>2, <2>3
<1>9. f \in Bijection(Q, T)
  <2>1. f \in [Q -> T]
    OBVIOUS
  <2>2. \A t \in T : \E p \in Q : f[p] = t
    OBVIOUS
  <2>3. \A p, r \in Q : f[p] = f[r] => p = r
    <3> SUFFICES ASSUME NEW p \in Q, NEW r \in Q, f[p] = f[r] PROVE p = r
      OBVIOUS
    <3>1. <<n + p[1], p[2]>> = <<n + r[1], r[2]>>
      OBVIOUS
    <3>2. n + p[1] = n + r[1] /\ p[2] = r[2]
      BY <3>1
    <3>3. p[1] = r[1]
      <4>1. p[1] \in Nat /\ r[1] \in Nat
        BY <1>4
      <4> QED BY <1>1, <3>2, <4>1
    <3> QED BY <1>4, <3>2, <3>3
  <2>4. DOMAIN f = Q
    OBVIOUS
  <2> HIDE DEF f, T
  <2> QED BY <2>1, <2>2, <2>3, <2>4 DEF Bijection, Injection, Surjection, IsInjective
<1>10. \A t \in A : t \notin T
  <2> SUFFICES ASSUME NEW t \in A, NEW p \in Q, t = <<n + p[1], p[2]>> PROVE FALSE
    OBVIOUS
  <2>1. t[1] = n + p[1]
    OBVIOUS
  <2> QED BY <1>1, <1>4, <1>5, <2>1
<1>11. IsFiniteSet(A) /\ IsFiniteSet(Q)
  BY AsksFinite DEF A, Q
<1> HIDE DEF f, T
<1>12. IsFiniteSet(T) /\ Cardinality(T) = Cardinality(Q)
  <2>1. ExistsBijection(Q, T)
    BY <1>9 DEF ExistsBijection
  <2> QED BY <2>1, <1>11, FS_Bijection
<1>13. Cardinality(A \cup T) = Cardinality(A) + Cardinality(T)
  BY <1>10, <1>11, <1>12, DisjointSum
<1> QED BY <1>8, <1>12, <1>13 DEF w, A, Q

LEMMA Counted ==
    ASSUME NEW n \in Nat, NEW S, NEW f \in [1..n -> S], \A x \in S : \E k \in 1..n : f[k] = x,
           \A k, l \in 1..n : f[k] = f[l] => k = l
    PROVE  IsFiniteSet(S) /\ Cardinality(S) = n
<1>1. f \in Bijection(1..n, S)
  <2>1. DOMAIN f = 1..n
    OBVIOUS
  <2> QED BY <2>1 DEF Bijection, Injection, Surjection, IsInjective
<1>2. ExistsBijection(1..n, S)
  BY <1>1 DEF ExistsBijection
<1> QED BY <1>2, FS_CountingElements, FS_NatBijection

\* The wire form of a group asks for as many calls as the group.
LEMMA AsksSingle ==
    ASSUME NEW m \in Seq(Messages), NEW i \in 1..Len(m), GroupEnd(m, i) # 0, GroupEnd(m, i) # i,
           OnlyAssistantsCall(m), NEW b \in Nat, b >= 1
    PROVE  Cardinality(Asks(SingleCalls(m, i), b)) = Len(m[i].calls)
<1> DEFINE c == m[i].calls
           n == Len(c)
           s == SingleCalls(m, i)
           A == Asks(s, b)
           f == [k \in 1..n |-> <<2 * k - 1, 1>>]
<1>1. n \in Nat
  BY MessageTypes
<1>2. /\ s \in Seq(Messages) /\ Len(s) = 2 * n
      /\ \A k \in 1..n : /\ s[2 * k - 1].role = "assistant" /\ s[2 * k - 1].calls = <<c[k]>>
                         /\ s[2 * k].role = "tool"
  BY SingleCallsFact
<1> HIDE DEF s, n, c
<1>3. ASSUME NEW k \in 1..n PROVE <<2 * k - 1, 1>> \in A
  <2>1. 2 * k - 1 \in 1..(2 * n) /\ 1 \in 1..b
    BY <1>1
  <2>2. Len(<<c[k]>>) = 1
    OBVIOUS
  <2>3. s[2 * k - 1].role = "assistant" /\ 1 <= Len(s[2 * k - 1].calls)
    <3>1. s[2 * k - 1].role = "assistant" /\ s[2 * k - 1].calls = <<c[k]>>
      BY <1>2
    <3>2. Len(s[2 * k - 1].calls) = 1
      BY <2>2, <3>1
    <3> QED BY <3>1, <3>2
  <2> DEFINE x == 2 * k - 1
  <2>4. x \in 1..Len(s) /\ 1 \in 1..b /\ s[x].role = "assistant" /\ 1 <= Len(s[x].calls)
    BY <1>2, <2>1, <2>3
  <2> HIDE DEF x
  <2>5. <<x, 1>> \in A
    BY <2>4 DEF Asks
  <2> QED BY <2>5 DEF x
<1>4. ASSUME NEW p \in A PROVE \E k \in 1..n : <<2 * k - 1, 1>> = p
  <2> DEFINE x == p[1]
             y == p[2]
  <2>1. x \in 1..(2 * n) /\ y \in 1..b /\ p = <<x, y>>
        /\ s[x].role = "assistant" /\ y <= Len(s[x].calls)
    BY <1>2 DEF Asks
  <2> HIDE DEF x, y
  <2> DEFINE k == (x + 1) \div 2
  <2>2. k \in 1..n /\ (x = 2 * k - 1 \/ x = 2 * k)
    <3>1. x \in 1..(2 * n)
      BY <2>1
    <3> QED BY <1>1, <3>1
  <2> HIDE DEF k
  <2>3. x = 2 * k - 1
    BY <1>2, <2>1, <2>2
  <2>4. s[x].calls = <<c[k]>>
    BY <1>2, <2>2, <2>3
  <2>5. Len(<<c[k]>>) = 1
    OBVIOUS
  <2>6. y <= 1
    BY <2>1, <2>4, <2>5
  <2>7. y = 1
    BY <2>1, <2>6
  <2> QED BY <2>1, <2>2, <2>3, <2>7
<1>5. f \in [1..n -> A]
  <2> HIDE DEF A
  <2> QED BY <1>3
<1>6. \A k, l \in 1..n : f[k] = f[l] => k = l
  <2> SUFFICES ASSUME NEW k \in 1..n, NEW l \in 1..n, f[k] = f[l] PROVE k = l
    OBVIOUS
  <2>1. 2 * k - 1 = 2 * l - 1
    OBVIOUS
  <2> QED BY <2>1, <1>1
<1>7. \A p \in A : \E k \in 1..n : f[k] = p
  <2> HIDE DEF A
  <2> QED BY <1>4
<1> HIDE DEF f, A
<1>8. Cardinality(A) = n
  BY <1>1, <1>5, <1>6, <1>7, Counted
<1> QED BY <1>8 DEF A, s, n, c

LEMMA AsksOne ==
    ASSUME NEW x \in Messages, x.calls = <<>>, NEW b \in Nat
    PROVE  Cardinality(Asks(<<x>>, b)) = 0
<1> DEFINE q == <<x>>
<1>1. Len(q) = 1 /\ q[1] = x /\ Len(x.calls) = 0
  OBVIOUS
<1> HIDE DEF q
<1>2. Asks(q, b) = {}
  <2> SUFFICES ASSUME NEW p \in Asks(q, b) PROVE FALSE
    OBVIOUS
  <2>1. p[1] \in 1..1 /\ p[2] \in 1..b /\ p[2] <= Len(q[p[1]].calls)
    BY <1>1 DEF Asks
  <2>2. p[1] = 1
    BY <2>1
  <2>3. p[2] <= 0
    BY <1>1, <2>1, <2>2
  <2> QED BY <2>1, <2>3
<1> QED BY <1>2, FS_EmptySet DEF q

\* The calls of the messages from the i-th on.
AsksFrom(m, b, i) == {p \in Asks(m, b) : p[1] >= i}

\* The calls from a group on are the calls of the group and those behind it.
LEMMA AsksOfGroup ==
    ASSUME NEW m \in Seq(Messages), NEW i \in 1..Len(m), GroupEnd(m, i) # 0, OnlyAssistantsCall(m)
    PROVE  Cardinality(AsksFrom(m, Len(m), i)) =
             Len(m[i].calls) + Cardinality(AsksFrom(m, Len(m), GroupEnd(m, i) + 1))
<1> DEFINE b == Len(m)
           c == m[i].calls
           n == Len(c)
           e == GroupEnd(m, i)
           A == Asks(m, b)
           F == AsksFrom(m, b, i)
           G == AsksFrom(m, b, e + 1)
           P == {p \in A : p[1] = i}
           f == [k \in 1..n |-> <<i, k>>]
<1>1. n \in Nat /\ b \in Nat /\ e \in i..b /\ c \in Seq(Nat)
  BY MessageTypes, GroupEndType
<1>2. i + n <= b /\ \A j \in (i + 1)..e : m[j].role = "tool"
  <2>1. CASE e = i
    <3>1. n = 0 \/ m[i].role # "assistant"
      <4>1. m[i].role = "assistant" /\ n # 0 => e = i + n
        BY <1>1 DEF GroupEnd
      <4> HIDE DEF n, e
      <4> QED BY <1>1, <2>1, <4>1
    <3>2. n = 0
      BY <3>1 DEF OnlyAssistantsCall
    <3> HIDE DEF n, e
    <3> QED BY <1>1, <2>1, <3>2
  <2>2. CASE e # i
    <3>1. e = i + n /\ \A j \in (i + 1)..e : m[j].role = "tool"
      BY <2>2, BatchFact
    <3> HIDE DEF e, n
    <3> QED BY <1>1, <3>1
  <2> QED BY <2>1, <2>2
<1>3. n > 0 => m[i].role = "assistant"
  <2>1. m[i].role # "assistant" => c = <<>>
    BY DEF OnlyAssistantsCall
  <2> QED BY <2>1
<1>4. \A p \in A : p[1] \in 1..b /\ p[2] \in 1..b /\ p = <<p[1], p[2]>>
                   /\ m[p[1]].role = "assistant" /\ p[2] <= Len(m[p[1]].calls)
  BY DEF Asks
<1>5. \A x \in 1..b, y \in 1..b :
         m[x].role = "assistant" /\ y <= Len(m[x].calls) => <<x, y>> \in A
  BY DEF Asks
<1>6. IsFiniteSet(A)
  BY <1>1, AsksFinite
<1>7. F = {p \in A : p[1] >= i} /\ G = {p \in A : p[1] >= e + 1}
  BY DEF AsksFrom
<1> HIDE DEF A, F, G, e
<1>8. F = P \cup G
  <2>1. ASSUME NEW p \in A, p[1] >= i PROVE p[1] = i \/ p[1] >= e + 1
    <3>1. p[1] \in 1..b /\ m[p[1]].role = "assistant"
      BY <1>4
    <3>2. p[1] \notin (i + 1)..e
      BY <1>2, <3>1
    <3> DEFINE x == p[1]
    <3>3. x \in 1..b /\ x \notin (i + 1)..e /\ x >= i
      BY <2>1, <3>1, <3>2
    <3> HIDE DEF x
    <3>4. x = i \/ x >= e + 1
      BY <1>1, <3>3
    <3> QED BY <3>4 DEF x
  <2>2. ASSUME NEW p \in A PROVE (p[1] = i => p[1] >= i) /\ (p[1] >= e + 1 => p[1] >= i)
    BY <1>1, <1>4
  <2> QED BY <1>7, <2>1, <2>2
<1>9. \A p \in P : p \notin G
  BY <1>1, <1>7
<1>10. IsFiniteSet(P) /\ Cardinality(P) = n
  <2>1. ASSUME NEW k \in 1..n PROVE <<i, k>> \in P
    <3>1. k \in 1..b /\ k <= n /\ n > 0
      BY <1>1, <1>2
    <3>2. <<i, k>> \in A
      BY <1>3, <1>5, <3>1
    <3>3. <<i, k>>[1] = i
      OBVIOUS
    <3> QED BY <3>2, <3>3
  <2>2. ASSUME NEW p \in P PROVE \E k \in 1..n : <<i, k>> = p
    <3>1. p[1] = i /\ p = <<p[1], p[2]>> /\ p[2] \in 1..b /\ p[2] <= Len(m[p[1]].calls)
      BY <1>4, <2>2
    <3>2. p[2] <= n
      BY <3>1
    <3> HIDE DEF n
    <3>3. p[2] \in 1..n
      BY <1>1, <3>1, <3>2
    <3> QED BY <3>1, <3>3
  <2> HIDE DEF P, n
  <2>3. f \in [1..n -> P]
    BY <2>1
  <2>4. \A k, l \in 1..n : f[k] = f[l] => k = l
    OBVIOUS
  <2>5. \A p \in P : \E k \in 1..n : f[k] = p
    BY <2>2
  <2> HIDE DEF f
  <2> QED BY <1>1, <2>3, <2>4, <2>5, Counted
<1>11. IsFiniteSet(G)
  <2>1. G \in SUBSET A
    BY <1>7
  <2> QED BY <2>1, <1>6, FS_Subset
<1> HIDE DEF P
<1>12. Cardinality(F) = Cardinality(P) + Cardinality(G)
  BY <1>8, <1>9, <1>10, <1>11, DisjointSum
<1> QED BY <1>10, <1>12 DEF F, G, n, c, e

\* The wire form asks for every call, and for none twice.
LEMMA WireAsks ==
    ASSUME NEW m \in Seq(Messages), OnlyAssistantsCall(m), NEW i \in 1..(Len(m) + 1), Complete(m, i)
    PROVE  Cardinality(Asks(WireFrom(m)[i], Len(m))) = Cardinality(AsksFrom(m, Len(m), i))
<1> DEFINE n == Len(m)
           W == WireFrom(m)
           Same(k) == Cardinality(Asks(W[k], n)) = Cardinality(AsksFrom(m, n, k))
           S == {k \in 1..(n + 1) : Complete(m, k) /\ ~Same(k)}
<1>1. n \in Nat
  OBVIOUS
<1>2. SUFFICES S = {}
  OBVIOUS
<1>3. SUFFICES ASSUME S # {} PROVE FALSE
  OBVIOUS
<1>4. PICK k \in S : \A o \in S : o <= k
  <2>1. S \in SUBSET (1..(n + 1)) /\ n + 1 \in Nat
    <3>1. \A o \in S : o \in 1..(n + 1)
      BY Zenon
    <3>2. n + 1 \in Nat
      BY <1>1
    <3> HIDE DEF S
    <3> QED BY <3>1, <3>2
  <2> HIDE DEF S
  <2> QED BY <2>1, <1>3, GreatestIndex
<1>5. k \in 1..(n + 1) /\ Complete(m, k) /\ ~Same(k)
  BY <1>4
<1>6. W[k] = WireAt(m, W, k)
  BY <1>5, WireEquation
<1>7. CASE k = n + 1
  <2>1. W[k] = <<>>
    BY <1>1, <1>6, <1>7 DEF WireAt
  <2>2. Asks(<<>>, n) = {}
    <3>1. Len(<<>>) = 0 /\ 1..0 = {}
      OBVIOUS
    <3> QED BY <3>1 DEF Asks
  <2>3. AsksFrom(m, n, k) = {}
    <3> SUFFICES ASSUME NEW p \in AsksFrom(m, n, k) PROVE FALSE
      OBVIOUS
    <3>1. p[1] \in 1..n /\ p[1] >= k
      BY DEF AsksFrom, Asks
    <3> QED BY <1>1, <1>7, <3>1
  <2> QED BY <1>5, <2>1, <2>2, <2>3
<1>8. CASE k # n + 1
  <2>1. k \in 1..n
    BY <1>1, <1>5, <1>8
  <2> DEFINE e == GroupEnd(m, k)
             part == IF e = k THEN <<m[k]>> ELSE SingleCalls(m, k)
             rest == W[e + 1]
  <2>2. e # 0 /\ Complete(m, e + 1)
    BY <1>1, <1>5, <2>1, CompleteEquation
  <2>3. e \in k..n
    BY <2>1, <2>2, GroupEndType
  <2>4. e + 1 \in 1..(n + 1) /\ ~(e + 1 <= k)
    BY <1>1, <2>1, <2>3
  <2>5. Same(e + 1)
    <3>1. e + 1 \notin S
      BY <1>4, <2>4
    <3> QED BY <2>2, <2>4, <3>1
  <2>6. W[k] = part \o rest
    <3>1. ~(k > n)
      BY <1>1, <2>1
    <3> HIDE DEF W
    <3> QED BY <1>6, <2>2, <3>1 DEF WireAt
  <2>7. rest \in Seq(Messages)
    BY <2>2, <2>4, WirePaired
  <2>8. part \in Seq(Messages) /\ Cardinality(Asks(part, n)) = Len(m[k].calls)
    <3>1. CASE e = k
      <4> DEFINE x == m[k]
      <4>1. x \in Messages /\ x.calls \in Seq(Nat) /\ Len(x.calls) \in Nat
        BY <2>1, MessageTypes
      <4>2. x.role # "assistant" \/ Len(x.calls) = 0
        <5>1. x.role = "assistant" /\ Len(x.calls) # 0 => e = k + Len(x.calls)
          BY <2>2 DEF GroupEnd
        <5> DEFINE y == Len(x.calls)
        <5> HIDE DEF y
        <5>2. y \in Nat /\ y # 0 => k + y # k
          BY <2>1
        <5> QED BY <3>1, <4>1, <5>1, <5>2 DEF y
      <4>3. x.calls = <<>>
        BY <2>1, <4>1, <4>2 DEF OnlyAssistantsCall
      <4>4. part = <<x>> /\ Len(x.calls) = 0
        BY <3>1, <4>3
      <4> HIDE DEF x, part
      <4>5. <<x>> \in Seq(Messages)
        BY <4>1
      <4>6. Cardinality(Asks(<<x>>, n)) = 0
        BY <1>1, <4>1, <4>3, AsksOne
      <4> QED BY <4>4, <4>5, <4>6 DEF x
    <3>2. CASE e # k
      <4>1. part = SingleCalls(m, k)
        BY <3>2
      <4>2. SingleCalls(m, k) \in Seq(Messages)
        BY <2>1, <2>2, <3>2, SingleCallsFact
      <4>3. n >= 1
        BY <1>1, <2>1
      <4>4. Cardinality(Asks(SingleCalls(m, k), n)) = Len(m[k].calls)
        BY <1>1, <2>1, <2>2, <3>2, <4>3, AsksSingle
      <4> QED BY <4>1, <4>2, <4>4
    <3> QED BY <3>1, <3>2
  <2>9. Cardinality(AsksFrom(m, n, k)) = Len(m[k].calls) + Cardinality(AsksFrom(m, n, e + 1))
    BY <2>1, <2>2, AsksOfGroup
  <2>10. Cardinality(Asks(rest, n)) = Cardinality(AsksFrom(m, n, e + 1))
    BY <2>5
  <2> HIDE DEF part, rest
  <2>11. Cardinality(Asks(part \o rest, n)) = Cardinality(Asks(part, n)) + Cardinality(Asks(rest, n))
    BY <1>1, <2>7, <2>8, AsksConcat
  <2> QED BY <1>5, <2>6, <2>8, <2>9, <2>10, <2>11
<1> QED BY <1>7, <1>8

\* single_call_wire keeps every call of a history and puts its result behind it.
LEMMA PairsRight ==
    ASSUME NEW m \in Seq(Messages), OnlyAssistantsCall(m)
    PROVE  PairsAreRight(m)
<1> SUFFICES ASSUME Grouped(m)
             PROVE  LET w == SingleCallWire(m)
                        Asked(q) == {p \in (DOMAIN q) \X (1..Len(m)) :
                                        q[p[1]].role = "assistant" /\ p[2] <= Len(q[p[1]].calls)}
                    IN /\ Grouped(w)
                       /\ \A i \in DOMAIN w : Len(w[i].calls) <= 1
                       /\ \A i \in DOMAIN w : w[i].calls # <<>> /\ w[i].role = "assistant" =>
                                  w[i + 1].role = "tool" /\ w[i + 1].re = w[i].calls[1]
                       /\ Cardinality(Asked(w)) = Cardinality(Asked(m))
  BY DEF PairsAreRight
<1> DEFINE w == SingleCallWire(m)
           Asked(q) == {p \in (DOMAIN q) \X (1..Len(m)) :
                           q[p[1]].role = "assistant" /\ p[2] <= Len(q[p[1]].calls)}
<1>1. Complete(m, 1) /\ 1 \in 1..(Len(m) + 1)
  BY GroupedIsComplete
<1>2. w \in Seq(Messages) /\ Paired(w)
  BY <1>1, WirePaired DEF SingleCallWire
<1>3. Grouped(w)
  <2> HIDE DEF w
  <2> QED BY <1>2, PairedIsGrouped
<1>4. DOMAIN w = 1..Len(w) /\ DOMAIN m = 1..Len(m)
  <2> HIDE DEF w
  <2> QED BY <1>2
<1>5. Asked(w) = Asks(w, Len(m)) /\ Asked(m) = Asks(m, Len(m))
  BY <1>4 DEF Asks
<1>6. AsksFrom(m, Len(m), 1) = Asks(m, Len(m))
  <2>1. \A p \in Asks(m, Len(m)) : p[1] >= 1
    BY DEF Asks
  <2> QED BY <2>1 DEF AsksFrom
<1>7. Cardinality(Asked(w)) = Cardinality(Asked(m))
  <2>1. Cardinality(Asks(w, Len(m))) = Cardinality(AsksFrom(m, Len(m), 1))
    BY <1>1, WireAsks DEF SingleCallWire
  <2> QED BY <1>5, <1>6, <2>1
<1> HIDE DEF w, Asked
<1>8. /\ \A i \in DOMAIN w : Len(w[i].calls) <= 1
      /\ \A i \in DOMAIN w : w[i].calls # <<>> /\ w[i].role = "assistant" =>
                                  w[i + 1].role = "tool" /\ w[i + 1].re = w[i].calls[1]
  BY <1>2, <1>4 DEF Paired
<1>9. /\ Grouped(w)
      /\ \A i \in DOMAIN w : Len(w[i].calls) <= 1
      /\ \A i \in DOMAIN w : w[i].calls # <<>> /\ w[i].role = "assistant" =>
                                  w[i + 1].role = "tool" /\ w[i + 1].re = w[i].calls[1]
      /\ Cardinality(Asked(w)) = Cardinality(Asked(m))
  BY <1>3, <1>7, <1>8
<1> QED BY <1>9 DEF w, Asked

\* The three functions on the history are right whenever the engine uses them:
\* interaction_groups finds the one cut of it, split_history keeps what it must
\* and no more, single_call_wire pairs every call with its result.
THEOREM GroupingAlwaysRight == Spec => []GroupingIsRight
<1>1. IInv => GroupingIsRight
  <2> SUFFICES ASSUME IInv PROVE GroupingIsRight
    OBVIOUS
  <2>1. memory \in Seq(Messages) /\ DOMAIN memory = 1..Len(memory)
    BY DEF IInv, TypeInv
  <2>2. OnlyAssistantsCall(memory)
    BY <2>1 DEF IInv, RoleInv, OnlyAssistantsCall
  <2>3. CutIsRight(memory)
    BY <2>1, CutRight
  <2>4. PairsAreRight(memory)
    BY <2>1, <2>2, PairsRight
  <2>5. SplitIsRight(memory, RawTurns)
    <3>1. RawTurns \in Nat
      BY Budget
    <3> QED BY <2>1, <3>1, OldGroupsFact DEF SplitIsRight
  <2> QED BY <2>3, <2>4, <2>5 DEF GroupingIsRight
<1> QED BY <1>1, Inductive, PTL

----------------------------------------------------------------------------
(* Transcript: the inductive invariant *)

Rows == [id : Nat, kind : Kinds]
Refs == [id : Nat, seq : Nat]
Entries == [id : Nat, kind : Kinds, seq : Nat]
SummaryRecords == [id : Nat, prior : Nat, sources : Seq(Nat), retained : SUBSET Nat]
Sessions == [next : Nat, memory : Seq(Refs), outbox : Seq(Entries), summaries : Seq(SummaryRecords),
             committed : SUBSET Nat, ledger : Nat, revision : Nat, reload : BOOLEAN]
Events == {"none", "user_message_appended", "run_interrupted", "session_resumed", "checkpoint",
           "error", "run_finished"}
Tries == [event : Events, left : Int, receipt : Nat]
Acks == [next : Nat, memory : Seq(Refs), summaries : SUBSET Nat, reload : BOOLEAN]
Points == {"idle", "ready", "work", "save", "check", "error", "fail", "finish"}

TranscriptTypes ==
    /\ rows \in Seq(Rows) /\ eng \in Sessions /\ prop \in Sessions
    /\ db \in [revision : Nat, context : Nat, next : Nat, running : BOOLEAN, ledger : Nat,
               memory : Seq(Refs)]
    /\ try \in Tries /\ ack \in Acks
    /\ owner \in BOOLEAN /\ refused \in BOOLEAN /\ at \in Points
    /\ made \in Nat /\ faults \in Nat
    /\ Ids \subseteq 0..made /\ said \subseteq 0..made

\* No two entries have one identity.
DistinctIds(q) == \A a, b \in DOMAIN q : q[a].id = q[b].id => a = b

\* A row with this identity and kind.
In(r, id, kind) == \E i \in DOMAIN r : r[i] = [id |-> id, kind |-> kind]

\* The active messages: the goal first, in the order of creation.
GoalFirst(q) ==
    /\ q # <<>> /\ q[1].id = 1
    /\ \A i, j \in DOMAIN q : i < j => q[i].id < q[j].id

\* A summary whose sources and retained messages are rows, and whose prior
\* ledger is a row or another summary of the session.
SoundSummary(s, r, x) ==
    /\ x.sources # <<>>
    /\ \A i \in DOMAIN x.sources : In(r, x.sources[i], "message")
    /\ \A i, j \in DOMAIN x.sources : i < j => x.sources[i] < x.sources[j]
    /\ \A id \in x.retained : In(r, id, "message")
    /\ x.prior # 0 => In(r, x.prior, "summary") \/ x.prior \in Held(s.summaries)

\* The active messages are rows or records of the outbox.
HasMessages(s, r) ==
    \A i \in DOMAIN s.memory :
        \/ In(r, s.memory[i].id, "message")
        \/ \E j \in DOMAIN s.outbox : s.outbox[j].id = s.memory[i].id /\ s.outbox[j].kind = "message"

\* The summaries, those known to be committed, and the ledger.
SummariesSound(s, r) ==
    /\ \A i \in DOMAIN s.summaries : SoundSummary(s, r, s.summaries[i])
    /\ DistinctIds(s.summaries)
    /\ \A id \in Held(s.summaries) : id \in Held(r) => In(r, id, "summary")
    /\ s.ledger # 0 => In(r, s.ledger, "summary") \/ s.ledger \in Held(s.summaries)
    /\ s.committed \subseteq Held(r)

\* The outbox has no record twice, and a summary under its own kind.
OutboxSound(s) ==
    /\ \A i \in DOMAIN s.outbox :
          s.outbox[i].kind = "summary" <=> s.outbox[i].id \in Held(s.summaries)
    /\ DistinctIds(s.outbox)

\* What a session has is in the transcript or on its way there.
Sound(s, r) ==
    GoalFirst(s.memory) /\ HasMessages(s, r) /\ SummariesSound(s, r) /\ OutboxSound(s)

\* No record of the outbox is saved, and it has the numbers behind the table.
Fresh(s, r) ==
    /\ s.next = Len(r) + Len(s.outbox) + 1
    /\ \A i \in DOMAIN s.outbox : s.outbox[i].seq = Len(r) + i /\ s.outbox[i].id \notin Held(r)
    /\ \A i, j \in DOMAIN s.outbox :
          i < j /\ "summary" \notin {s.outbox[i].kind, s.outbox[j].kind} => s.outbox[i].id < s.outbox[j].id
    /\ \A i \in DOMAIN r, j \in DOMAIN s.outbox :
          "summary" \notin {r[i].kind, s.outbox[j].kind} => r[i].id < s.outbox[j].id
    /\ \A id \in Held(s.summaries) : id \in Held(r) => id \in s.committed

\* Every record of the outbox is saved under its number, the last one last.
Stored(s, r) ==
    /\ s.next = Len(r) + 1
    /\ \A i \in DOMAIN s.outbox :
          s.outbox[i].seq \in DOMAIN r
          /\ r[s.outbox[i].seq] = [id |-> s.outbox[i].id, kind |-> s.outbox[i].kind]

\* Everything the session has recorded is in the transcript.
AllIn(s, r) ==
    /\ \A i \in DOMAIN s.outbox : In(r, s.outbox[i].id, s.outbox[i].kind)
    /\ Held(s.summaries) \subseteq Held(r)

\* The summaries are not in the outbox yet.
Unstaged(s) == \A i \in DOMAIN s.outbox : s.outbox[i].kind # "summary"

\* Every identity of the session is at most n.
Below(s, n) == Held(s.outbox) \cup Held(s.summaries) \subseteq 0..n

\* TranscriptInOrder of any rows.
InOrder(r) ==
    /\ \A i, j \in DOMAIN r : r[i].id = r[j].id => i = j
    /\ \A i, j \in DOMAIN r :
          i < j /\ "summary" \notin {r[i].kind, r[j].kind} => r[i].id < r[j].id

\* A session between two saves.
Ready(s, r, n) == Sound(s, r) /\ Below(s, n) /\ Unstaged(s)

\* p is what a save of s proposes.
Proposes(s, p, r, n) ==
    /\ p \in Sessions
    /\ p.memory = s.memory /\ p.summaries = s.summaries
    /\ p.ledger = s.ledger /\ p.committed = s.committed
    /\ Sound(p, r) /\ Below(p, n)
    /\ Held(p.summaries) \subseteq p.committed \cup Held(p.outbox)

UpToDate == eng.revision = db.revision /\ ~eng.reload

TableInv ==
    /\ InOrder(rows)
    /\ db.context = db.revision /\ db.next = Len(rows) + 1
    /\ GoalFirst(db.memory)
    /\ \A i \in DOMAIN db.memory :
          db.memory[i].seq \in DOMAIN rows
          /\ rows[db.memory[i].seq] = [id |-> db.memory[i].id, kind |-> "message"]
    /\ db.ledger # 0 => In(rows, db.ledger, "summary")

EngineInv ==
    at # "idle" =>
      /\ Ready(eng, rows, made)
      /\ at # "save" => said \subseteq Ids \cup Held(eng.outbox) \cup Held(eng.summaries)
      /\ eng.revision <= db.revision
      /\ at \in {"ready", "work", "finish"} /\ UpToDate => Fresh(eng, rows)
      /\ at \in {"error", "fail"} /\ UpToDate => Fresh(eng, rows) \/ Stored(WithSummaries(eng), rows)

SaveInv ==
    at = "save" =>
      /\ Proposes(eng, prop, rows, made)
      /\ Clone => prop = WithSummaries(eng)
      /\ said \subseteq Ids \cup Held(prop.outbox) \cup Held(prop.summaries)
      /\ try.receipt = 0 /\ UpToDate =>
           (Fresh(prop, rows) \/ Stored(prop, rows)) /\ (Clone => Fresh(eng, rows))
      /\ try.receipt # 0 =>
           /\ eng.revision < try.receipt /\ try.receipt <= db.revision
           /\ AllIn(prop, rows) /\ said \subseteq Ids
           /\ db.revision = try.receipt => Stored(prop, rows)

CheckInv ==
    at = "check" =>
      /\ AllIn(eng, rows) /\ said \subseteq Ids /\ ~eng.reload
      /\ Held(eng.summaries) \subseteq ack.summaries /\ ack.summaries \subseteq Ids
      /\ UpToDate => Stored(WithSummaries(eng), rows) /\ ack.next = Len(rows) + 1

TInv == TranscriptTypes /\ TableInv /\ EngineInv /\ SaveInv /\ CheckInv /\ ~refused

----------------------------------------------------------------------------
(* Transcript: the entries whose identities are not known *)

\* What the recursion of Without computes from the i-th entry on.
WithoutAt(q, known, f, i) ==
    IF i > Len(q) THEN <<>> ELSE (IF q[i].id \in known THEN <<>> ELSE <<q[i]>>) \o f[i + 1]

LEMMA WithoutExists ==
    ASSUME NEW T, NEW q \in Seq(T), NEW known
    PROVE  \E f : f = [i \in 1..(Len(q) + 1) |-> WithoutAt(q, known, f, i)]
<1> DEFINE n == Len(q)
           Ok(k) == \E f : f = [i \in k..(n + 1) |-> WithoutAt(q, known, f, i)]
           S == {k \in 1..(n + 1) : ~Ok(k)}
<1>1. n \in Nat
  OBVIOUS
<1>2. SUFFICES S = {}
  <2>1. 1 \in 1..(n + 1)
    BY <1>1
  <2>2. Ok(1)
    BY <1>2, <2>1
  <2> QED BY <2>2
<1>3. SUFFICES ASSUME S # {} PROVE FALSE
  OBVIOUS
<1>4. PICK k \in S : \A o \in S : o <= k
  <2>1. S \in SUBSET (1..(n + 1)) /\ n + 1 \in Nat
    BY <1>1
  <2> HIDE DEF S
  <2> QED BY <2>1, <1>3, GreatestIndex
<1>5. CASE k = n + 1
  <2> DEFINE f == [i \in k..(n + 1) |-> <<>>]
  <2>1. \A i \in k..(n + 1) : WithoutAt(q, known, f, i) = <<>>
    BY <1>1, <1>5 DEF WithoutAt
  <2>2. f = [i \in k..(n + 1) |-> WithoutAt(q, known, f, i)]
    BY <2>1
  <2> QED BY <2>2
<1>6. CASE k # n + 1
  <2>1. k \in 1..n /\ k + 1 \in 1..(n + 1)
    BY <1>1, <1>6
  <2>2. Ok(k + 1)
    <3>1. k + 1 \notin S
      BY <1>4, <2>1
    <3> QED BY <3>1, <2>1
  <2>3. PICK f : f = [i \in (k + 1)..(n + 1) |-> WithoutAt(q, known, f, i)]
    BY <2>2
  <2> DEFINE g == [i \in k..(n + 1) |-> IF i = k THEN WithoutAt(q, known, f, k) ELSE f[i]]
  <2>4. \A i \in (k + 1)..(n + 1) : g[i] = f[i]
    BY <2>1
  <2>5. ASSUME NEW i \in k..(n + 1) PROVE WithoutAt(q, known, g, i) = WithoutAt(q, known, f, i)
    <3>1. CASE i > n
      BY <3>1 DEF WithoutAt
    <3>2. CASE i <= n
      <4>1. g[i + 1] = f[i + 1]
        BY <1>1, <2>1, <2>4, <3>2
      <4> HIDE DEF g
      <4> QED BY <4>1 DEF WithoutAt
    <3> QED BY <3>1, <3>2, <1>1, <2>1
  <2>6. \A i \in k..(n + 1) : g[i] = WithoutAt(q, known, f, i)
    BY <2>1, <2>3
  <2>7. g = [i \in k..(n + 1) |-> WithoutAt(q, known, g, i)]
    <3>1. g = [i \in k..(n + 1) |-> g[i]]
      OBVIOUS
    <3> HIDE DEF g
    <3> QED BY <2>5, <2>6, <3>1
  <2> QED BY <2>7
<1> QED BY <1>5, <1>6

LEMMA WithoutEquation ==
    ASSUME NEW T, NEW q \in Seq(T), NEW known, NEW i \in 1..(Len(q) + 1)
    PROVE  WithoutFrom(q, known)[i] = WithoutAt(q, known, WithoutFrom(q, known), i)
<1>1. WithoutFrom(q, known) = CHOOSE f : f = [j \in 1..(Len(q) + 1) |-> WithoutAt(q, known, f, j)]
  BY DEF WithoutFrom, WithoutAt
<1>2. WithoutFrom(q, known) =
        [j \in 1..(Len(q) + 1) |-> WithoutAt(q, known, WithoutFrom(q, known), j)]
  BY <1>1, WithoutExists
<1> QED BY <1>2

\* w has the unknown entries of q from the i-th on.
Filters(w, q, known, i) ==
    /\ \A a \in DOMAIN w : \E j \in i..Len(q) : w[a] = q[j] /\ q[j].id \notin known
    /\ \A j \in i..Len(q) : q[j].id \notin known => \E a \in DOMAIN w : w[a] = q[j]
    /\ DistinctIds(q) => DistinctIds(w)
    /\ (\A j \in i..Len(q) : q[j].id \notin known) =>
         Len(w) = Len(q) + 1 - i /\ \A a \in DOMAIN w : w[a] = q[i + a - 1]

LEMMA FiltersStep ==
    ASSUME NEW T, NEW q \in Seq(T), NEW known, NEW i \in 1..Len(q), NEW v \in Seq(T),
           Filters(v, q, known, i + 1)
    PROVE  LET w == (IF q[i].id \in known THEN <<>> ELSE <<q[i]>>) \o v
           IN w \in Seq(T) /\ Filters(w, q, known, i)
<1> DEFINE n == Len(q)
           w == (IF q[i].id \in known THEN <<>> ELSE <<q[i]>>) \o v
<1>1. n \in Nat /\ i \in Nat /\ q[i] \in T /\ DOMAIN q = 1..n
  OBVIOUS
<1>2. \A j \in i..n : j = i \/ j \in (i + 1)..n
  BY <1>1
<1>3. \A j \in (i + 1)..n : j \in i..n /\ j # i /\ j \in DOMAIN q
  BY <1>1
<1>4. i \in i..n
  BY <1>1
<1>5. CASE q[i].id \in known
  <2>1. w = v
    BY <1>5
  <2> HIDE DEF w
  <2>2. \A a \in DOMAIN w : \E j \in i..n : w[a] = q[j] /\ q[j].id \notin known
    BY <1>3, <2>1 DEF Filters
  <2>3. \A j \in i..n : q[j].id \notin known => \E a \in DOMAIN w : w[a] = q[j]
    BY <1>2, <1>5, <2>1 DEF Filters
  <2>4. DistinctIds(q) => DistinctIds(w)
    BY <2>1 DEF Filters
  <2>5. ~ \A j \in i..n : q[j].id \notin known
    BY <1>4, <1>5
  <2> QED BY <2>1, <2>2, <2>3, <2>4, <2>5 DEF Filters, w
<1>6. CASE q[i].id \notin known
  <2> DEFINE x == q[i]
  <2>1. w = <<x>> \o v
    BY <1>6
  <2> HIDE DEF w, x
  <2>2. x \in T
    BY <1>1 DEF x
  <2>3. /\ w \in Seq(T) /\ Len(w) = Len(v) + 1 /\ w[1] = x /\ Len(v) \in Nat
        /\ \A a \in 1..Len(v) : w[a + 1] = v[a]
        /\ DOMAIN w = 1..(Len(v) + 1) /\ DOMAIN v = 1..Len(v)
    BY <2>1, <2>2
  <2>4. \A a \in DOMAIN w : a = 1 \/ \E c \in DOMAIN v : a = c + 1 /\ w[a] = v[c]
    <3> SUFFICES ASSUME NEW a \in DOMAIN w, a # 1 PROVE \E c \in DOMAIN v : a = c + 1 /\ w[a] = v[c]
      OBVIOUS
    <3>1. a - 1 \in 1..Len(v) /\ a = (a - 1) + 1
      BY <2>3
    <3> QED BY <2>3, <3>1
  <2>5. \A c \in DOMAIN v : c + 1 \in DOMAIN w /\ w[c + 1] = v[c]
    BY <2>3
  <2>6. 1 \in DOMAIN w
    BY <2>3
  <2>7. \A a \in DOMAIN w : \E j \in i..n : w[a] = q[j] /\ q[j].id \notin known
    <3> SUFFICES ASSUME NEW a \in DOMAIN w PROVE \E j \in i..n : w[a] = q[j] /\ q[j].id \notin known
      OBVIOUS
    <3>1. CASE a = 1
      BY <1>4, <1>6, <2>3, <3>1 DEF x
    <3>2. CASE a # 1
      <4>1. PICK c \in DOMAIN v : w[a] = v[c]
        BY <2>4, <3>2
      <4>2. PICK j \in (i + 1)..n : v[c] = q[j] /\ q[j].id \notin known
        BY DEF Filters
      <4> QED BY <1>3, <4>1, <4>2
    <3> QED BY <3>1, <3>2
  <2>8. \A j \in i..n : q[j].id \notin known => \E a \in DOMAIN w : w[a] = q[j]
    <3> SUFFICES ASSUME NEW j \in i..n, q[j].id \notin known PROVE \E a \in DOMAIN w : w[a] = q[j]
      OBVIOUS
    <3>1. CASE j = i
      BY <2>3, <2>6, <3>1 DEF x
    <3>2. CASE j # i
      <4>1. PICK c \in DOMAIN v : v[c] = q[j]
        BY <1>2, <3>2 DEF Filters
      <4> QED BY <2>5, <4>1
    <3> QED BY <3>1, <3>2
  <2>9. ASSUME DistinctIds(q) PROVE DistinctIds(w)
    <3>1. DistinctIds(v)
      BY <2>9 DEF Filters
    <3>2. \A c \in DOMAIN v : v[c].id # x.id
      <4> SUFFICES ASSUME NEW c \in DOMAIN v, v[c].id = x.id PROVE FALSE
        OBVIOUS
      <4>1. PICK j \in (i + 1)..n : v[c] = q[j]
        BY DEF Filters
      <4>2. j \in DOMAIN q /\ j # i /\ i \in DOMAIN q
        BY <1>1, <1>3
      <4> QED BY <2>9, <4>1, <4>2 DEF DistinctIds, x
    <3>3. ASSUME NEW a \in DOMAIN w, NEW b \in DOMAIN w, w[a].id = w[b].id PROVE a = b
      <4>1. CASE a = 1
        BY <2>3, <2>4, <3>2, <3>3, <4>1
      <4>2. CASE b = 1
        BY <2>3, <2>4, <3>2, <3>3, <4>2
      <4>3. CASE a # 1 /\ b # 1
        <5>1. PICK c \in DOMAIN v : a = c + 1 /\ w[a] = v[c]
          BY <2>4, <4>3
        <5>2. PICK d \in DOMAIN v : b = d + 1 /\ w[b] = v[d]
          BY <2>4, <4>3
        <5>3. c = d
          BY <3>1, <3>3, <5>1, <5>2 DEF DistinctIds
        <5> QED BY <5>1, <5>2, <5>3
      <4> QED BY <4>1, <4>2, <4>3
    <3> QED BY <3>3 DEF DistinctIds
  <2>10. ASSUME \A j \in i..n : q[j].id \notin known
         PROVE  Len(w) = n + 1 - i /\ \A a \in DOMAIN w : w[a] = q[i + a - 1]
    <3>1. Len(v) = n + 1 - (i + 1) /\ \A c \in DOMAIN v : v[c] = q[(i + 1) + c - 1]
      BY <1>3, <2>10 DEF Filters
    <3>2. Len(w) = n + 1 - i
      BY <1>1, <2>3, <3>1
    <3>3. ASSUME NEW a \in DOMAIN w PROVE w[a] = q[i + a - 1]
      <4>1. CASE a = 1
        <5>1. i + a - 1 = i
          BY <1>1, <4>1
        <5> QED BY <2>3, <4>1, <5>1 DEF x
      <4>2. CASE a # 1
        <5>1. PICK c \in DOMAIN v : a = c + 1 /\ w[a] = v[c]
          BY <2>4, <4>2
        <5>2. c \in Nat
          BY <2>3
        <5>3. (i + 1) + c - 1 = i + a - 1
          BY <1>1, <5>1, <5>2
        <5> QED BY <3>1, <5>1, <5>3
      <4> QED BY <4>1, <4>2
    <3> QED BY <3>2, <3>3
  <2>11. Filters(w, q, known, i)
    BY <2>7, <2>8, <2>9, <2>10 DEF Filters
  <2> QED BY <2>3, <2>11 DEF w
<1> QED BY <1>5, <1>6

LEMMA WithoutFilters ==
    ASSUME NEW T, NEW q \in Seq(T), NEW known
    PROVE  Without(q, known) \in Seq(T) /\ Filters(Without(q, known), q, known, 1)
<1> DEFINE n == Len(q)
           W == WithoutFrom(q, known)
           Fine(k) == W[k] \in Seq(T) /\ Filters(W[k], q, known, k)
           S == {k \in 1..(n + 1) : ~Fine(k)}
<1>1. n \in Nat /\ 1 \in 1..(n + 1)
  OBVIOUS
<1>2. SUFFICES S = {}
  <2>1. Fine(1)
    BY <1>1, <1>2
  <2> QED BY <2>1 DEF Without
<1>3. SUFFICES ASSUME S # {} PROVE FALSE
  OBVIOUS
<1>4. PICK k \in S : \A o \in S : o <= k
  <2>1. S \in SUBSET (1..(n + 1)) /\ n + 1 \in Nat
    <3>1. \A o \in S : o \in 1..(n + 1)
      BY Zenon
    <3>2. n + 1 \in Nat
      BY <1>1
    <3> HIDE DEF S
    <3> QED BY <3>1, <3>2
  <2> HIDE DEF S
  <2> QED BY <2>1, <1>3, GreatestIndex
<1>5. k \in 1..(n + 1) /\ ~Fine(k)
  BY <1>4
<1>6. W[k] = WithoutAt(q, known, W, k)
  BY <1>5, WithoutEquation
<1>7. CASE k = n + 1
  <2> DEFINE e == <<>>
  <2>1. W[k] = e
    BY <1>1, <1>6, <1>7 DEF WithoutAt
  <2>2. e \in Seq(T) /\ DOMAIN e = {} /\ Len(e) = 0
    OBVIOUS
  <2>3. k..n = {} /\ n + 1 - k = 0
    BY <1>1, <1>7
  <2> HIDE DEF e, W
  <2>4. Filters(e, q, known, k)
    BY <2>2, <2>3 DEF Filters, DistinctIds
  <2> QED BY <1>5, <2>1, <2>2, <2>4
<1>8. CASE k # n + 1
  <2>1. k \in 1..n /\ k + 1 \in 1..(n + 1) /\ ~(k + 1 <= k) /\ ~(k > n)
    BY <1>1, <1>5, <1>8
  <2>2. Fine(k + 1)
    <3>1. k + 1 \notin S
      BY <1>4, <2>1
    <3> QED BY <2>1, <3>1
  <2> HIDE DEF W
  <2> DEFINE v == W[k + 1]
             w == (IF q[k].id \in known THEN <<>> ELSE <<q[k]>>) \o v
  <2>3. v \in Seq(T) /\ Filters(v, q, known, k + 1)
    BY <2>2
  <2>4. W[k] = w
    BY <1>6, <2>1 DEF WithoutAt
  <2> HIDE DEF v
  <2>5. w \in Seq(T) /\ Filters(w, q, known, k)
    BY <2>1, <2>3, FiltersStep
  <2> QED BY <1>5, <2>4, <2>5
<1> QED BY <1>7, <1>8

\* What Without returns.
LEMMA WithoutFact ==
    ASSUME NEW T, NEW q \in Seq(T), NEW known
    PROVE  /\ Without(q, known) \in Seq(T)
           /\ Held(Without(q, known)) = Held(q) \ known
           /\ DistinctIds(q) => DistinctIds(Without(q, known))
           /\ Held(q) \subseteq known => Without(q, known) = <<>>
           /\ (\A id \in Held(q) : id \notin known) => Without(q, known) = q
<1> DEFINE w == Without(q, known)
           n == Len(q)
<1>1. w \in Seq(T) /\ Filters(w, q, known, 1)
  BY WithoutFilters
<1> HIDE DEF w
<1>2. DOMAIN q = 1..n /\ n \in Nat /\ DOMAIN w = 1..Len(w) /\ Len(w) \in Nat
  BY <1>1
<1>3. Held(w) = Held(q) \ known
  <2>1. ASSUME NEW id \in Held(w) PROVE id \in Held(q) /\ id \notin known
    <3>1. PICK a \in DOMAIN w : id = w[a].id
      BY DEF Held
    <3>2. PICK j \in 1..n : w[a] = q[j] /\ q[j].id \notin known
      BY <1>1 DEF Filters
    <3> QED BY <1>2, <3>1, <3>2 DEF Held
  <2>2. ASSUME NEW id \in Held(q), id \notin known PROVE id \in Held(w)
    <3>1. PICK j \in 1..n : id = q[j].id
      BY <1>2 DEF Held
    <3>2. PICK a \in DOMAIN w : w[a] = q[j]
      BY <1>1, <2>2, <3>1 DEF Filters
    <3> QED BY <3>1, <3>2 DEF Held
  <2> QED BY <2>1, <2>2
<1>4. ASSUME Held(q) \subseteq known PROVE w = <<>>
  <2>1. Held(w) = {}
    BY <1>3, <1>4
  <2>2. DOMAIN w = {}
    BY <2>1 DEF Held
  <2>3. Len(w) = 0
    BY <1>2, <2>2
  <2> QED BY <1>1, <2>3
<1>5. ASSUME \A id \in Held(q) : id \notin known PROVE w = q
  <2>1. \A j \in 1..n : q[j].id \notin known
    BY <1>2, <1>5 DEF Held
  <2>2. Len(w) = n + 1 - 1 /\ \A a \in DOMAIN w : w[a] = q[1 + a - 1]
    BY <1>1, <2>1 DEF Filters
  <2>3. Len(w) = n /\ \A a \in 1..n : 1 + a - 1 = a
    BY <1>2, <2>2
  <2>4. \A a \in 1..n : w[a] = q[a]
    BY <1>2, <2>2, <2>3
  <2> QED BY <1>1, <2>3, <2>4, SeqEqual
<1> QED BY <1>1, <1>3, <1>4, <1>5 DEF Filters, w

----------------------------------------------------------------------------
(* Transcript: sessions *)

LEMMA ConcatFact ==
    ASSUME NEW T, NEW a \in Seq(T), NEW b \in Seq(T)
    PROVE  /\ a \o b \in Seq(T) /\ Len(a \o b) = Len(a) + Len(b)
           /\ \A i \in DOMAIN a : i \in DOMAIN (a \o b) /\ (a \o b)[i] = a[i]
           /\ \A j \in DOMAIN b : Len(a) + j \in DOMAIN (a \o b) /\ (a \o b)[Len(a) + j] = b[j]
           /\ \A i \in DOMAIN (a \o b) :
                 i \in DOMAIN a \/ \E j \in DOMAIN b : i = Len(a) + j
           /\ Held(a \o b) = Held(a) \cup Held(b)
<1> DEFINE c == a \o b
           n == Len(a)
           k == Len(b)
<1>1. /\ c \in Seq(T) /\ Len(c) = n + k /\ n \in Nat /\ k \in Nat
      /\ DOMAIN a = 1..n /\ DOMAIN b = 1..k /\ DOMAIN c = 1..(n + k)
  <2>1. c \in Seq(T) /\ Len(c) = n + k /\ n \in Nat /\ k \in Nat
    OBVIOUS
  <2> HIDE DEF c
  <2> QED BY <2>1
<1>2. \A i \in 1..n : c[i] = a[i]
  OBVIOUS
<1>3. \A j \in 1..k : c[n + j] = b[j]
  OBVIOUS
<1> HIDE DEF c
<1>4. \A i \in 1..n : i \in 1..(n + k)
  BY <1>1
<1>5. \A j \in 1..k : n + j \in 1..(n + k)
  BY <1>1
<1>6. \A i \in 1..(n + k) : i \in 1..n \/ \E j \in 1..k : i = n + j
  <2> SUFFICES ASSUME NEW i \in 1..(n + k), i \notin 1..n PROVE \E j \in 1..k : i = n + j
    OBVIOUS
  <2>1. i - n \in 1..k /\ i = n + (i - n)
    BY <1>1
  <2> QED BY <2>1
<1>7. Held(c) = Held(a) \cup Held(b)
  <2>1. ASSUME NEW id \in Held(c) PROVE id \in Held(a) \cup Held(b)
    <3>1. PICK i \in DOMAIN c : id = c[i].id
      BY DEF Held
    <3>2. CASE i \in 1..n
      BY <1>1, <1>2, <3>1, <3>2 DEF Held
    <3>3. CASE \E j \in 1..k : i = n + j
      BY <1>1, <1>3, <3>1, <3>3 DEF Held
    <3> QED BY <1>1, <1>6, <3>2, <3>3
  <2>2. ASSUME NEW id \in Held(a) PROVE id \in Held(c)
    BY <1>1, <1>2, <1>4 DEF Held
  <2>3. ASSUME NEW id \in Held(b) PROVE id \in Held(c)
    BY <1>1, <1>3, <1>5 DEF Held
  <2> QED BY <2>1, <2>2, <2>3
<1>8. /\ c \in Seq(T) /\ Len(c) = n + k
      /\ \A i \in DOMAIN a : i \in DOMAIN c /\ c[i] = a[i]
      /\ \A j \in DOMAIN b : n + j \in DOMAIN c /\ c[n + j] = b[j]
      /\ \A i \in DOMAIN c : i \in DOMAIN a \/ \E j \in DOMAIN b : i = n + j
  BY <1>1, <1>2, <1>3, <1>4, <1>5, <1>6
<1> QED BY <1>7, <1>8 DEF c

LEMMA OneFact ==
    ASSUME NEW T, NEW x \in T
    PROVE  /\ <<x>> \in Seq(T) /\ Len(<<x>>) = 1 /\ <<x>>[1] = x
           /\ DOMAIN <<x>> = {1} /\ Held(<<x>>) = {x.id}
<1>1. <<x>> \in Seq(T) /\ Len(<<x>>) = 1 /\ <<x>>[1] = x
  OBVIOUS
<1>2. DOMAIN <<x>> = 1..1 /\ 1..1 = {1}
  OBVIOUS
<1>3. DOMAIN <<x>> = {1}
  BY <1>2
<1> QED BY <1>1, <1>3 DEF Held

LEMMA SessionFields ==
    ASSUME NEW s \in Sessions
    PROVE  /\ s.next \in Nat /\ s.memory \in Seq(Refs) /\ s.outbox \in Seq(Entries)
           /\ s.summaries \in Seq(SummaryRecords) /\ s.committed \in SUBSET Nat
           /\ s.ledger \in Nat /\ s.revision \in Nat /\ s.reload \in BOOLEAN
           /\ DOMAIN s.memory = 1..Len(s.memory) /\ Len(s.memory) \in Nat
           /\ DOMAIN s.outbox = 1..Len(s.outbox) /\ Len(s.outbox) \in Nat
           /\ DOMAIN s.summaries = 1..Len(s.summaries) /\ Len(s.summaries) \in Nat
           /\ \A i \in DOMAIN s.outbox : s.outbox[i] \in Entries
           /\ \A i \in DOMAIN s.outbox : s.outbox[i].id \in Nat
           /\ \A i \in DOMAIN s.memory : s.memory[i].id \in Nat
           /\ \A i \in DOMAIN s.summaries : s.summaries[i].id \in Nat
<1>1. /\ s.next \in Nat /\ s.memory \in Seq(Refs) /\ s.outbox \in Seq(Entries)
      /\ s.summaries \in Seq(SummaryRecords) /\ s.committed \in SUBSET Nat
      /\ s.ledger \in Nat /\ s.revision \in Nat /\ s.reload \in BOOLEAN
  BY DEF Sessions
<1> DEFINE me == s.memory
           ou == s.outbox
           su == s.summaries
<1>2. me \in Seq(Refs) /\ ou \in Seq(Entries) /\ su \in Seq(SummaryRecords)
  BY <1>1
<1> HIDE DEF me, ou, su
<1>3. /\ DOMAIN me = 1..Len(me) /\ Len(me) \in Nat
      /\ DOMAIN ou = 1..Len(ou) /\ Len(ou) \in Nat
      /\ DOMAIN su = 1..Len(su) /\ Len(su) \in Nat
      /\ \A i \in DOMAIN ou : ou[i] \in Entries
      /\ \A i \in DOMAIN me : me[i] \in Refs
      /\ \A i \in DOMAIN su : su[i] \in SummaryRecords
  BY <1>2
<1>4. /\ \A i \in DOMAIN ou : ou[i].id \in Nat
      /\ \A i \in DOMAIN me : me[i].id \in Nat
      /\ \A i \in DOMAIN su : su[i].id \in Nat
  BY <1>3 DEF Entries, Refs, SummaryRecords
<1> QED BY <1>1, <1>3, <1>4 DEF me, ou, su

LEMMA InHeld ==
    ASSUME NEW r, NEW id, NEW kind, In(r, id, kind)
    PROVE  id \in Held(r)
BY DEF In, Held

LEMMA InGrows ==
    ASSUME NEW r \in Seq(Rows), NEW x \in Seq(Rows), NEW id, NEW kind
    PROVE  /\ In(r, id, kind) => In(r \o x, id, kind)
           /\ In(x, id, kind) => In(r \o x, id, kind)
<1>1. \A i \in DOMAIN r : i \in DOMAIN (r \o x) /\ (r \o x)[i] = r[i]
  BY ConcatFact
<1>2. \A j \in DOMAIN x : Len(r) + j \in DOMAIN (r \o x) /\ (r \o x)[Len(r) + j] = x[j]
  BY ConcatFact
<1> QED BY <1>1, <1>2 DEF In

\* What a session has stays sound when rows are appended.
LEMMA SoundGrows ==
    ASSUME NEW s \in Sessions, NEW r \in Seq(Rows), NEW x \in Seq(Rows), Sound(s, r),
           \A id \in Held(s.summaries) : id \in Held(x) => In(x, id, "summary")
    PROVE  Sound(s, r \o x)
<1> DEFINE r2 == r \o x
<1>1. \A id, kind : In(r, id, kind) => In(r2, id, kind)
  BY InGrows
<1>2. \A id, kind : In(x, id, kind) => In(r2, id, kind)
  BY InGrows
<1>3. Held(r2) = Held(r) \cup Held(x)
  BY ConcatFact
<1> HIDE DEF r2
<1>4. HasMessages(s, r2)
  BY <1>1 DEF Sound, HasMessages
<1>5. SummariesSound(s, r2)
  <2>1. ASSUME NEW i \in DOMAIN s.summaries PROVE SoundSummary(s, r2, s.summaries[i])
    <3>1. SoundSummary(s, r, s.summaries[i])
      BY DEF Sound, SummariesSound
    <3> QED BY <1>1, <3>1 DEF SoundSummary
  <2>2. \A id \in Held(s.summaries) : id \in Held(r2) => In(r2, id, "summary")
    BY <1>1, <1>2, <1>3 DEF Sound, SummariesSound
  <2> QED BY <1>1, <1>3, <2>1, <2>2 DEF Sound, SummariesSound
<1> QED BY <1>4, <1>5 DEF Sound, r2

\* The records that save stages for the summaries.
StagedEntries(s) ==
    LET staged == Without(s.summaries, s.committed \cup Held(s.outbox))
    IN [i \in DOMAIN staged |-> [id |-> staged[i].id, kind |-> "summary", seq |-> s.next + i - 1]]

LEMMA StagedFact ==
    ASSUME NEW s \in Sessions, DistinctIds(s.summaries)
    PROVE  LET b == StagedEntries(s)
           IN /\ b \in Seq(Entries)
              /\ Held(b) = Held(s.summaries) \ (s.committed \cup Held(s.outbox))
              /\ DistinctIds(b)
              /\ \A j \in DOMAIN b : b[j].kind = "summary" /\ b[j].seq = s.next + j - 1
<1> DEFINE q == Without(s.summaries, s.committed \cup Held(s.outbox))
           b == StagedEntries(s)
<1>1. s.next \in Nat /\ s.summaries \in Seq(SummaryRecords)
  BY SessionFields
<1>2. /\ q \in Seq(SummaryRecords) /\ DistinctIds(q)
      /\ Held(q) = Held(s.summaries) \ (s.committed \cup Held(s.outbox))
  BY <1>1, WithoutFact
<1>3. b = [i \in DOMAIN q |-> [id |-> q[i].id, kind |-> "summary", seq |-> s.next + i - 1]]
  BY DEF StagedEntries
<1> HIDE DEF q, b
<1>4. DOMAIN q = 1..Len(q) /\ Len(q) \in Nat /\ \A i \in DOMAIN q : q[i] \in SummaryRecords
  BY <1>2
<1>5. \A i \in DOMAIN q : [id |-> q[i].id, kind |-> "summary", seq |-> s.next + i - 1] \in Entries
  <2> SUFFICES ASSUME NEW i \in DOMAIN q
               PROVE  [id |-> q[i].id, kind |-> "summary", seq |-> s.next + i - 1] \in Entries
    OBVIOUS
  <2>1. q[i].id \in Nat
    BY <1>4 DEF SummaryRecords
  <2>2. s.next + i - 1 \in Nat
    BY <1>1, <1>4
  <2> QED BY <2>1, <2>2 DEF Entries, Kinds
<1>6. b \in Seq(Entries) /\ DOMAIN b = DOMAIN q
  BY <1>3, <1>4, <1>5
<1>7. \A j \in DOMAIN b : b[j].kind = "summary" /\ b[j].seq = s.next + j - 1 /\ b[j].id = q[j].id
  BY <1>3, <1>6
<1>8. Held(b) = Held(q)
  BY <1>6, <1>7 DEF Held
<1>9. DistinctIds(b)
  BY <1>2, <1>6, <1>7 DEF DistinctIds
<1> QED BY <1>2, <1>6, <1>7, <1>8, <1>9 DEF b

\* save stages the summaries that are not known to be committed.
LEMMA StageFact ==
    ASSUME NEW s \in Sessions, NEW r \in Seq(Rows), Sound(s, r), Unstaged(s)
    PROVE  LET t == WithSummaries(s)
           IN /\ t \in Sessions
              /\ t.memory = s.memory /\ t.summaries = s.summaries /\ t.committed = s.committed
              /\ t.ledger = s.ledger /\ t.revision = s.revision /\ t.reload = s.reload
              /\ Sound(t, r)
              /\ Held(t.outbox) \subseteq Held(s.outbox) \cup Held(s.summaries)
              /\ Held(s.outbox) \subseteq Held(t.outbox)
              /\ Held(s.summaries) \subseteq s.committed \cup Held(t.outbox)
              /\ Fresh(s, r) => Fresh(t, r)
              /\ AllIn(t, r) => AllIn(s, r)
<1> DEFINE a == s.outbox
           b == StagedEntries(s)
           t == WithSummaries(s)
           c == a \o b
<1>1. /\ b \in Seq(Entries) /\ Held(b) = Held(s.summaries) \ (s.committed \cup Held(a))
      /\ DistinctIds(b) /\ \A j \in DOMAIN b : b[j].kind = "summary" /\ b[j].seq = s.next + j - 1
  BY StagedFact DEF Sound, SummariesSound
<1>2. a \in Seq(Entries) /\ DOMAIN a = 1..Len(a) /\ Len(a) \in Nat /\ s.next \in Nat
  BY SessionFields
<1>3. t = [s EXCEPT !.outbox = c, !.next = s.next + Len(b)]
  <2> DEFINE q == Without(s.summaries, s.committed \cup Held(s.outbox))
  <2>1. q \in Seq(SummaryRecords)
    BY SessionFields, WithoutFact
  <2>2. b = [i \in DOMAIN q |-> [id |-> q[i].id, kind |-> "summary", seq |-> s.next + i - 1]]
    BY DEF StagedEntries
  <2>3. t = [s EXCEPT !.outbox = a \o [i \in DOMAIN q |->
                                    [id |-> q[i].id, kind |-> "summary", seq |-> s.next + i - 1]],
                      !.next = s.next + Len(q)]
    BY DEF WithSummaries
  <2> HIDE DEF q, b
  <2>4. Len(b) = Len(q)
    <3>1. DOMAIN b = DOMAIN q
      BY <2>2
    <3> QED BY <1>1, <2>1, <3>1
  <2> QED BY <2>2, <2>3, <2>4
<1> HIDE DEF b, t
<1>4. DOMAIN b = 1..Len(b) /\ Len(b) \in Nat
  BY <1>1
<1>5. /\ c \in Seq(Entries) /\ Len(c) = Len(a) + Len(b)
      /\ \A i \in DOMAIN a : i \in DOMAIN c /\ c[i] = a[i]
      /\ \A j \in DOMAIN b : Len(a) + j \in DOMAIN c /\ c[Len(a) + j] = b[j]
      /\ \A i \in DOMAIN c : i \in DOMAIN a \/ \E j \in DOMAIN b : i = Len(a) + j
      /\ Held(c) = Held(a) \cup Held(b)
  <2>1. a \in Seq(Entries) /\ b \in Seq(Entries)
    BY <1>1, <1>2
  <2> HIDE DEF a
  <2> QED BY <2>1, ConcatFact
<1> HIDE DEF c
<1>6. /\ t \in Sessions /\ t.outbox = c /\ t.next = s.next + Len(b)
      /\ t.memory = s.memory /\ t.summaries = s.summaries /\ t.committed = s.committed
      /\ t.ledger = s.ledger /\ t.revision = s.revision /\ t.reload = s.reload
  <2>1. s.next + Len(b) \in Nat
    BY <1>2, <1>4
  <2> QED BY <1>3, <1>5, <2>1 DEF Sessions
<1>7. OutboxSound(t)
  <2>1. ASSUME NEW i \in DOMAIN c PROVE c[i].kind = "summary" <=> c[i].id \in Held(s.summaries)
    <3>1. CASE i \in DOMAIN a
      BY <1>5, <3>1 DEF Sound, OutboxSound
    <3>2. CASE \E j \in DOMAIN b : i = Len(a) + j
      <4>1. PICK j \in DOMAIN b : i = Len(a) + j
        BY <3>2
      <4>2. b[j].id \in Held(b)
        BY DEF Held
      <4> QED BY <1>1, <1>5, <4>1, <4>2
    <3> QED BY <1>5, <3>1, <3>2
  <2>2. DistinctIds(c)
    <3> SUFFICES ASSUME NEW i \in DOMAIN c, NEW k \in DOMAIN c, c[i].id = c[k].id PROVE i = k
      BY DEF DistinctIds
    <3>1. CASE i \in DOMAIN a /\ k \in DOMAIN a
      BY <1>5, <3>1 DEF Sound, OutboxSound, DistinctIds
    <3>2. CASE (\E j \in DOMAIN b : i = Len(a) + j) /\ (\E j \in DOMAIN b : k = Len(a) + j)
      <4>1. PICK j \in DOMAIN b : i = Len(a) + j
        BY <3>2
      <4>2. PICK l \in DOMAIN b : k = Len(a) + l
        BY <3>2
      <4>3. b[j].id = b[l].id
        BY <1>5, <4>1, <4>2
      <4>4. j = l
        BY <1>1, <4>3 DEF DistinctIds
      <4> QED BY <4>1, <4>2, <4>4
    <3>3. ASSUME NEW x \in DOMAIN a, NEW j \in DOMAIN b PROVE a[x].id # b[j].id
      <4>1. a[x].id \in Held(a) /\ b[j].id \in Held(b)
        BY DEF Held
      <4> QED BY <1>1, <4>1
    <3>4. CASE i \in DOMAIN a /\ \E j \in DOMAIN b : k = Len(a) + j
      BY <1>5, <3>3, <3>4
    <3>5. CASE k \in DOMAIN a /\ \E j \in DOMAIN b : i = Len(a) + j
      BY <1>5, <3>3, <3>5
    <3> QED BY <1>5, <3>1, <3>2, <3>4, <3>5
  <2> QED BY <1>6, <2>1, <2>2 DEF OutboxSound
<1>8. HasMessages(t, r)
  <2>1. \A i \in DOMAIN s.memory :
           \/ In(r, s.memory[i].id, "message")
           \/ \E j \in DOMAIN a : a[j].id = s.memory[i].id /\ a[j].kind = "message"
    BY DEF Sound, HasMessages
  <2>2. \A i \in DOMAIN s.memory :
           \/ In(r, s.memory[i].id, "message")
           \/ \E j \in DOMAIN c : c[j].id = s.memory[i].id /\ c[j].kind = "message"
    BY <1>5, <2>1
  <2> QED BY <1>6, <2>2 DEF HasMessages
<1>9. Sound(t, r)
  <2>1. SummariesSound(t, r)
    BY <1>6 DEF Sound, SummariesSound, SoundSummary
  <2> QED BY <1>6, <1>7, <1>8, <2>1 DEF Sound
<1>10. ASSUME Fresh(s, r) PROVE Fresh(t, r)
  <2> DEFINE n == Len(r)
  <2>0. n \in Nat
    OBVIOUS
  <2>1. s.next = n + Len(a) + 1
    BY <1>10 DEF Fresh
  <2> HIDE DEF n, a
  <2>2. t.next = n + Len(c) + 1
    BY <1>2, <1>4, <1>5, <1>6, <2>0, <2>1
  <2>3. ASSUME NEW i \in DOMAIN c PROVE c[i].seq = n + i /\ c[i].id \notin Held(r)
    <3>1. CASE i \in DOMAIN a
      BY <1>5, <1>10, <3>1 DEF Fresh, a, n
    <3>2. CASE \E j \in DOMAIN b : i = Len(a) + j
      <4>1. PICK j \in DOMAIN b : i = Len(a) + j
        BY <3>2
      <4>2. b[j].seq = s.next + j - 1 /\ j \in Nat
        BY <1>1, <1>4
      <4>3. b[j].seq = n + i
        BY <1>2, <2>0, <2>1, <4>1, <4>2
      <4>4. b[j].id \in Held(b)
        BY DEF Held
      <4>5. b[j].id \notin Held(r)
        BY <1>1, <1>10, <4>4 DEF Fresh
      <4> QED BY <1>5, <4>1, <4>3, <4>5
    <3> QED BY <1>5, <3>1, <3>2
  <2>4. \A i \in DOMAIN c : c[i].kind # "summary" => i \in DOMAIN a
    BY <1>1, <1>5
  <2>5. \A i, j \in DOMAIN c :
           i < j /\ "summary" \notin {c[i].kind, c[j].kind} => c[i].id < c[j].id
    <3> SUFFICES ASSUME NEW i \in DOMAIN c, NEW j \in DOMAIN c, i < j,
                        c[i].kind # "summary", c[j].kind # "summary"
                 PROVE  c[i].id < c[j].id
      OBVIOUS
    <3>1. i \in DOMAIN a /\ j \in DOMAIN a /\ c[i] = a[i] /\ c[j] = a[j]
      BY <1>5, <2>4
    <3> QED BY <1>10, <3>1 DEF Fresh, a
  <2>6. \A i \in DOMAIN r, j \in DOMAIN c :
           "summary" \notin {r[i].kind, c[j].kind} => r[i].id < c[j].id
    <3> SUFFICES ASSUME NEW i \in DOMAIN r, NEW j \in DOMAIN c,
                        r[i].kind # "summary", c[j].kind # "summary"
                 PROVE  r[i].id < c[j].id
      OBVIOUS
    <3>1. j \in DOMAIN a /\ c[j] = a[j]
      BY <1>5, <2>4
    <3> QED BY <1>10, <3>1 DEF Fresh, a
  <2>7. \A id \in Held(t.summaries) : id \in Held(r) => id \in t.committed
    BY <1>6, <1>10 DEF Fresh
  <2> QED BY <1>6, <2>2, <2>3, <2>5, <2>6, <2>7 DEF Fresh, n
<1>11. ASSUME AllIn(t, r) PROVE AllIn(s, r)
  <2>1. \A i \in DOMAIN a : In(r, a[i].id, a[i].kind)
    BY <1>5, <1>6, <1>11 DEF AllIn
  <2> QED BY <1>6, <1>11, <2>1 DEF AllIn
<1>12. /\ Held(c) \subseteq Held(a) \cup Held(s.summaries) /\ Held(a) \subseteq Held(c)
       /\ Held(s.summaries) \subseteq s.committed \cup Held(c)
  BY <1>1, <1>5
<1> QED BY <1>6, <1>9, <1>10, <1>11, <1>12 DEF t

\* t is s with a new record, whose identity is above all others.
NewRecord(s, r, n, kind, t) ==
    /\ s \in Sessions /\ r \in Seq(Rows) /\ Sound(s, r) /\ n \in Nat /\ Below(s, n)
    /\ Held(r) \subseteq 0..n /\ kind \in Kinds /\ kind # "summary"
    /\ t = Recorded(s, kind, n + 1)

\* archive_record, audit.
LEMMA RecordFact ==
    ASSUME NEW s, NEW r, NEW n, NEW kind, NEW t, NewRecord(s, r, n, kind, t)
    PROVE  /\ t \in Sessions
           /\ t.memory = s.memory /\ t.summaries = s.summaries /\ t.committed = s.committed
           /\ t.ledger = s.ledger /\ t.revision = s.revision /\ t.reload = s.reload
           /\ Sound(t, r) /\ Below(t, n + 1)
           /\ Held(t.outbox) = Held(s.outbox) \cup {n + 1}
           /\ \E k \in DOMAIN t.outbox : t.outbox[k].id = n + 1 /\ t.outbox[k].kind = kind
           /\ Fresh(s, r) => Fresh(t, r)
           /\ Unstaged(s) => Unstaged(t)
<1>0. /\ s \in Sessions /\ r \in Seq(Rows) /\ Sound(s, r) /\ n \in Nat /\ Below(s, n)
      /\ Held(r) \subseteq 0..n /\ kind \in Kinds /\ kind # "summary"
      /\ t = Recorded(s, kind, n + 1)
  BY DEF NewRecord
<1> USE <1>0
<1> DEFINE a == s.outbox
           e == [id |-> n + 1, kind |-> kind, seq |-> s.next]
           b == <<e>>
           c == a \o b
<1>1. a \in Seq(Entries) /\ DOMAIN a = 1..Len(a) /\ Len(a) \in Nat /\ s.next \in Nat
  BY SessionFields
<1>2. e \in Entries /\ e.id = n + 1 /\ e.kind = kind /\ e.seq = s.next
  BY <1>1 DEF Entries
<1>3. t = [s EXCEPT !.outbox = c, !.next = s.next + 1]
  <2>1. Append(a, e) = a \o <<e>>
    BY <1>1, <1>2, AppendIsConcat
  <2> QED BY <2>1 DEF Recorded
<1> HIDE DEF e
<1>4. b \in Seq(Entries) /\ Len(b) = 1 /\ b[1] = e /\ DOMAIN b = {1} /\ Held(b) = {n + 1}
  BY <1>2, OneFact
<1> HIDE DEF b
<1>5. /\ c \in Seq(Entries) /\ Len(c) = Len(a) + 1
      /\ \A i \in DOMAIN a : i \in DOMAIN c /\ c[i] = a[i]
      /\ Len(a) + 1 \in DOMAIN c /\ c[Len(a) + 1] = e
      /\ \A i \in DOMAIN c : i \in DOMAIN a \/ i = Len(a) + 1
      /\ Held(c) = Held(a) \cup {n + 1}
  <2>1. a \in Seq(Entries) /\ b \in Seq(Entries)
    BY <1>1, <1>4
  <2> HIDE DEF a
  <2>2. /\ c \in Seq(Entries) /\ Len(c) = Len(a) + Len(b)
        /\ \A i \in DOMAIN a : i \in DOMAIN c /\ c[i] = a[i]
        /\ \A j \in DOMAIN b : Len(a) + j \in DOMAIN c /\ c[Len(a) + j] = b[j]
        /\ \A i \in DOMAIN c : i \in DOMAIN a \/ \E j \in DOMAIN b : i = Len(a) + j
        /\ Held(c) = Held(a) \cup Held(b)
    BY <2>1, ConcatFact
  <2> HIDE DEF c
  <2> QED BY <1>4, <2>2
<1> HIDE DEF c
<1>6. /\ t \in Sessions /\ t.outbox = c /\ t.next = s.next + 1
      /\ t.memory = s.memory /\ t.summaries = s.summaries /\ t.committed = s.committed
      /\ t.ledger = s.ledger /\ t.revision = s.revision /\ t.reload = s.reload
  <2>1. s.next + 1 \in Nat
    BY <1>1
  <2> QED BY <1>3, <1>5, <2>1 DEF Sessions
<1>7. n + 1 \notin Held(a) /\ n + 1 \notin Held(s.summaries) /\ n + 1 \notin Held(r)
      /\ \A i \in DOMAIN a : a[i].id \in Held(a) /\ a[i].id <= n
  <2>1. ~(n + 1 \in 0..n)
    OBVIOUS
  <2>2. \A i \in DOMAIN a : a[i].id \in Held(a)
    BY DEF Held
  <2> QED BY <2>1, <2>2 DEF Below
<1>8. OutboxSound(t)
  <2>1. ASSUME NEW i \in DOMAIN c PROVE c[i].kind = "summary" <=> c[i].id \in Held(s.summaries)
    <3>1. CASE i \in DOMAIN a
      BY <1>5, <3>1 DEF Sound, OutboxSound
    <3>2. CASE i = Len(a) + 1
      BY <1>2, <1>5, <1>7, <3>2
    <3> QED BY <1>5, <3>1, <3>2
  <2>2. DistinctIds(c)
    <3> SUFFICES ASSUME NEW i \in DOMAIN c, NEW k \in DOMAIN c, c[i].id = c[k].id PROVE i = k
      BY DEF DistinctIds
    <3>1. CASE i \in DOMAIN a /\ k \in DOMAIN a
      BY <1>5, <3>1 DEF Sound, OutboxSound, DistinctIds
    <3>2. CASE i \in DOMAIN a /\ k = Len(a) + 1
      BY <1>2, <1>5, <1>7, <3>2
    <3>3. CASE k \in DOMAIN a /\ i = Len(a) + 1
      BY <1>2, <1>5, <1>7, <3>3
    <3> QED BY <1>5, <3>1, <3>2, <3>3
  <2> QED BY <1>6, <2>1, <2>2 DEF OutboxSound
<1>9. HasMessages(t, r)
  <2>1. \A i \in DOMAIN s.memory :
           \/ In(r, s.memory[i].id, "message")
           \/ \E j \in DOMAIN a : a[j].id = s.memory[i].id /\ a[j].kind = "message"
    BY DEF Sound, HasMessages
  <2>2. \A i \in DOMAIN s.memory :
           \/ In(r, s.memory[i].id, "message")
           \/ \E j \in DOMAIN c : c[j].id = s.memory[i].id /\ c[j].kind = "message"
    BY <1>5, <2>1
  <2> QED BY <1>6, <2>2 DEF HasMessages
<1>10. Sound(t, r)
  <2>1. SummariesSound(t, r)
    BY <1>6 DEF Sound, SummariesSound, SoundSummary
  <2> QED BY <1>6, <1>8, <1>9, <2>1 DEF Sound
<1>11. ASSUME Fresh(s, r) PROVE Fresh(t, r)
  <2> DEFINE m == Len(r)
  <2>0. m \in Nat
    OBVIOUS
  <2>1. s.next = m + Len(a) + 1
    BY <1>11 DEF Fresh
  <2> HIDE DEF m, a
  <2>2. t.next = m + Len(c) + 1
    BY <1>1, <1>5, <1>6, <2>0, <2>1
  <2>3. ASSUME NEW i \in DOMAIN c PROVE c[i].seq = m + i /\ c[i].id \notin Held(r)
    <3>1. CASE i \in DOMAIN a
      BY <1>5, <1>11, <3>1 DEF Fresh, a, m
    <3>2. CASE i = Len(a) + 1
      <4>1. s.next = m + i
        BY <1>1, <2>0, <2>1, <3>2
      <4> QED BY <1>2, <1>5, <1>7, <3>2, <4>1
    <3> QED BY <1>5, <3>1, <3>2
  <2>5. \A i, j \in DOMAIN c :
           i < j /\ "summary" \notin {c[i].kind, c[j].kind} => c[i].id < c[j].id
    <3> SUFFICES ASSUME NEW i \in DOMAIN c, NEW j \in DOMAIN c, i < j,
                        c[i].kind # "summary", c[j].kind # "summary"
                 PROVE  c[i].id < c[j].id
      OBVIOUS
    <3>1. CASE j \in DOMAIN a
      <4>1. i \in DOMAIN a
        BY <1>1, <1>5, <3>1
      <4>2. c[i] = a[i] /\ c[j] = a[j]
        BY <1>5, <3>1, <4>1
      <4> QED BY <1>11, <3>1, <4>1, <4>2 DEF Fresh, a
    <3>2. CASE j = Len(a) + 1
      <4>1. i \in DOMAIN a
        BY <1>1, <1>5, <3>2
      <4>2. c[i].id <= n /\ c[i].id \in Nat /\ c[j].id = n + 1
        <5>1. c[i] = a[i] /\ a[i].id <= n
          BY <1>5, <1>7, <4>1
        <5>2. a[i].id \in Nat
          BY <4>1, SessionFields DEF a
        <5> QED BY <1>2, <1>5, <3>2, <5>1, <5>2
      <4> QED BY <4>2
    <3> QED BY <1>5, <3>1, <3>2
  <2>6. \A i \in DOMAIN r, j \in DOMAIN c :
           "summary" \notin {r[i].kind, c[j].kind} => r[i].id < c[j].id
    <3> SUFFICES ASSUME NEW i \in DOMAIN r, NEW j \in DOMAIN c,
                        r[i].kind # "summary", c[j].kind # "summary"
                 PROVE  r[i].id < c[j].id
      OBVIOUS
    <3>1. CASE j \in DOMAIN a
      <4>1. c[j] = a[j]
        BY <1>5, <3>1
      <4> QED BY <1>11, <3>1, <4>1 DEF Fresh, a
    <3>2. CASE j = Len(a) + 1
      <4>1. r[i].id \in Held(r)
        BY DEF Held
      <4>2. r[i].id \in 0..n /\ c[j].id = n + 1
        BY <1>2, <1>5, <3>2, <4>1
      <4> QED BY <4>2
    <3> QED BY <1>5, <3>1, <3>2
  <2>7. \A id \in Held(t.summaries) : id \in Held(r) => id \in t.committed
    BY <1>6, <1>11 DEF Fresh
  <2> QED BY <1>6, <2>2, <2>3, <2>5, <2>6, <2>7 DEF Fresh, m
<1>12. Below(t, n + 1)
  <2>1. \A x \in 0..n : x \in 0..(n + 1)
    OBVIOUS
  <2>2. n + 1 \in 0..(n + 1)
    OBVIOUS
  <2>3. Held(a) \subseteq 0..n /\ Held(s.summaries) \subseteq 0..n
    BY DEF Below
  <2> HIDE DEF a
  <2> QED BY <1>5, <1>6, <2>1, <2>2, <2>3 DEF Below
<1>13. ASSUME Unstaged(s) PROVE Unstaged(t)
  BY <1>2, <1>5, <1>6, <1>13 DEF Unstaged
<1>14. \E k \in DOMAIN t.outbox : t.outbox[k].id = n + 1 /\ t.outbox[k].kind = kind
  BY <1>2, <1>5, <1>6
<1> QED BY <1>5, <1>6, <1>10, <1>11, <1>12, <1>13, <1>14 DEF b, e

LEMMA GoalFirstGrows ==
    ASSUME NEW a \in Seq(Refs), NEW c \in Seq(Refs), NEW n \in Nat, GoalFirst(a),
           \A i \in DOMAIN a : a[i].id \in 0..n,
           Len(c) = Len(a) + 1, \A i \in DOMAIN a : i \in DOMAIN c /\ c[i] = a[i],
           c[Len(a) + 1].id = n + 1
    PROVE  GoalFirst(c)
<1>1. a # <<>> /\ a[1].id = 1 /\ \A i, j \in DOMAIN a : i < j => a[i].id < a[j].id
  BY DEF GoalFirst
<1>2. DOMAIN a = 1..Len(a) /\ Len(a) \in Nat /\ DOMAIN c = 1..(Len(a) + 1) /\ 1 \in DOMAIN a
  BY <1>1
<1>3. c # <<>> /\ c[1].id = 1
  <2>1. Len(c) # 0
    BY <1>2
  <2> QED BY <1>1, <1>2, <2>1
<1>4. ASSUME NEW i \in DOMAIN c, NEW j \in DOMAIN c, i < j PROVE c[i].id < c[j].id
  <2>1. CASE j \in DOMAIN a
    <3>1. i \in DOMAIN a
      BY <1>2, <1>4, <2>1
    <3> QED BY <1>1, <1>4, <2>1, <3>1
  <2>2. CASE j = Len(a) + 1
    <3>1. i \in DOMAIN a
      BY <1>2, <1>4, <2>2
    <3>2. c[i].id \in 0..n /\ c[j].id = n + 1
      BY <2>2, <3>1
    <3> QED BY <3>2
  <2> QED BY <1>2, <2>1, <2>2
<1> QED BY <1>3, <1>4 DEF GoalFirst

\* t is s with a new message, whose identity is above all others.
NewMessage(s, r, n, t) ==
    /\ s \in Sessions /\ r \in Seq(Rows) /\ Ready(s, r, n) /\ n \in Nat
    /\ Held(r) \subseteq 0..n /\ t = Appended(s, n + 1)

\* append_message: a new record that is an active message too.
LEMMA AppendedFact ==
    ASSUME NEW s, NEW r, NEW n, NEW t, NewMessage(s, r, n, t)
    PROVE  /\ t \in Sessions /\ Ready(t, r, n + 1) /\ t.summaries = s.summaries
           /\ t.revision = s.revision /\ t.reload = s.reload
           /\ Held(t.outbox) = Held(s.outbox) \cup {n + 1}
           /\ Fresh(s, r) => Fresh(t, r)
<1>0. /\ s \in Sessions /\ r \in Seq(Rows) /\ Sound(s, r) /\ n \in Nat /\ Below(s, n)
      /\ Held(r) \subseteq 0..n /\ t = Appended(s, n + 1) /\ Unstaged(s)
  BY DEF NewMessage, Ready
<1> USE <1>0
<1> DEFINE u == Recorded(s, "message", n + 1)
           x == [id |-> n + 1, seq |-> s.next]
           a == s.memory
           b == <<x>>
           c == a \o b
<1>1. /\ u \in Sessions
      /\ u.memory = s.memory /\ u.summaries = s.summaries /\ u.committed = s.committed
      /\ u.ledger = s.ledger /\ u.revision = s.revision /\ u.reload = s.reload
      /\ Sound(u, r) /\ Below(u, n + 1)
      /\ Held(u.outbox) = Held(s.outbox) \cup {n + 1}
      /\ \E k \in DOMAIN u.outbox : u.outbox[k].id = n + 1 /\ u.outbox[k].kind = "message"
      /\ Fresh(s, r) => Fresh(u, r)
      /\ Unstaged(s) => Unstaged(u)
  <2>1. "message" \in Kinds /\ "message" # "summary"
    BY DEF Kinds
  <2> DEFINE k == "message"
  <2> HIDE DEF k
  <2>2. k \in Kinds /\ k # "summary" /\ u = Recorded(s, k, n + 1)
    BY <2>1 DEF k
  <2> HIDE DEF u
  <2>3. NewRecord(s, r, n, k, u)
    BY <2>2 DEF NewRecord
  <2> QED BY <2>3, RecordFact DEF k
<1>2. a \in Seq(Refs) /\ s.next \in Nat /\ s.outbox \in Seq(Entries) /\ DOMAIN a = 1..Len(a)
      /\ Len(a) \in Nat
  BY SessionFields
<1>3. x \in Refs /\ x.id = n + 1
  BY <1>2 DEF Refs
<1>4. t = [u EXCEPT !.memory = c]
  <2>1. Append(a, x) = a \o <<x>>
    BY <1>2, <1>3, AppendIsConcat
  <2> QED BY <1>1, <2>1 DEF Appended
<1> HIDE DEF x, u
<1>5. b \in Seq(Refs) /\ Len(b) = 1 /\ b[1] = x /\ DOMAIN b = {1}
  BY <1>3, OneFact
<1> HIDE DEF b
<1>6. /\ c \in Seq(Refs) /\ Len(c) = Len(a) + 1
      /\ \A i \in DOMAIN a : i \in DOMAIN c /\ c[i] = a[i]
      /\ c[Len(a) + 1] = x
      /\ \A i \in DOMAIN c : i \in DOMAIN a \/ i = Len(a) + 1
  <2>1. a \in Seq(Refs) /\ b \in Seq(Refs)
    BY <1>2, <1>5
  <2> HIDE DEF a
  <2>2. /\ c \in Seq(Refs) /\ Len(c) = Len(a) + Len(b)
        /\ \A i \in DOMAIN a : i \in DOMAIN c /\ c[i] = a[i]
        /\ \A j \in DOMAIN b : Len(a) + j \in DOMAIN c /\ c[Len(a) + j] = b[j]
        /\ \A i \in DOMAIN c : i \in DOMAIN a \/ \E j \in DOMAIN b : i = Len(a) + j
    BY <2>1, ConcatFact
  <2> HIDE DEF c
  <2> QED BY <1>5, <2>2
<1> HIDE DEF c
<1>7. /\ t \in Sessions /\ t.memory = c /\ t.outbox = u.outbox /\ t.next = u.next
      /\ t.summaries = u.summaries /\ t.committed = u.committed
      /\ t.ledger = u.ledger /\ t.revision = u.revision /\ t.reload = u.reload
  BY <1>1, <1>4, <1>6 DEF Sessions
<1>8. \A i \in DOMAIN a : a[i].id \in 0..n
  <2> SUFFICES ASSUME NEW i \in DOMAIN a PROVE a[i].id \in 0..n
    OBVIOUS
  <2>1. CASE In(r, a[i].id, "message")
    BY <2>1, InHeld
  <2>2. CASE \E j \in DOMAIN s.outbox : s.outbox[j].id = a[i].id
    BY <2>2 DEF Below, Held
  <2> QED BY <2>1, <2>2 DEF Sound, HasMessages
<1>9. GoalFirst(c)
  <2>1. GoalFirst(a) /\ \A i \in DOMAIN a : a[i].id \in 0..n
    BY <1>8 DEF Sound
  <2> HIDE DEF a
  <2> QED BY <1>2, <1>3, <1>6, <2>1, GoalFirstGrows
<1>10. HasMessages(t, r)
  <2> DEFINE q == u.outbox
  <2>1. \E k \in DOMAIN q : q[k].id = n + 1 /\ q[k].kind = "message"
    BY <1>1
  <2>3. ASSUME NEW i \in DOMAIN c
        PROVE  \/ In(r, c[i].id, "message")
               \/ \E j \in DOMAIN q : q[j].id = c[i].id /\ q[j].kind = "message"
    <3>1. CASE i \in DOMAIN a
      <4>1. \/ In(r, a[i].id, "message")
            \/ \E j \in DOMAIN q : q[j].id = a[i].id /\ q[j].kind = "message"
        BY <1>1, <3>1 DEF Sound, HasMessages
      <4> QED BY <1>6, <3>1, <4>1
    <3>2. CASE i = Len(a) + 1
      BY <1>3, <1>6, <2>1, <3>2
    <3> QED BY <1>6, <3>1, <3>2
  <2> QED BY <1>7, <2>3 DEF HasMessages
<1>11. Sound(t, r)
  <2>1. SummariesSound(t, r) /\ OutboxSound(t)
    BY <1>1, <1>7 DEF Sound, SummariesSound, SoundSummary, OutboxSound
  <2> QED BY <1>7, <1>9, <1>10, <2>1 DEF Sound
<1>12. Below(t, n + 1) /\ (Fresh(s, r) => Fresh(t, r)) /\ (Unstaged(s) => Unstaged(t))
  BY <1>1, <1>7 DEF Below, Fresh, Unstaged
<1> QED BY <1>1, <1>7, <1>11, <1>12 DEF Ready

----------------------------------------------------------------------------
(* Transcript: what a save writes *)

Bare(q) == [i \in DOMAIN q |-> [id |-> q[i].id, kind |-> q[i].kind]]

LEMMA BareFact ==
    ASSUME NEW q \in Seq(Entries)
    PROVE  /\ Bare(q) \in Seq(Rows) /\ Len(Bare(q)) = Len(q) /\ DOMAIN Bare(q) = DOMAIN q
           /\ \A i \in DOMAIN q : Bare(q)[i] = [id |-> q[i].id, kind |-> q[i].kind]
           /\ Held(Bare(q)) = Held(q)
<1> DEFINE b == Bare(q)
<1>1. DOMAIN q = 1..Len(q) /\ Len(q) \in Nat /\ \A i \in DOMAIN q : q[i] \in Entries
  OBVIOUS
<1>2. \A i \in DOMAIN q : [id |-> q[i].id, kind |-> q[i].kind] \in Rows
  BY <1>1 DEF Entries, Rows
<1>3. b = [i \in DOMAIN q |-> [id |-> q[i].id, kind |-> q[i].kind]]
  BY DEF Bare
<1> HIDE DEF b
<1>4. b \in Seq(Rows) /\ DOMAIN b = DOMAIN q
  BY <1>1, <1>2, <1>3
<1>5. Len(b) = Len(q)
  BY <1>1, <1>4
<1>6. \A i \in DOMAIN q : b[i] = [id |-> q[i].id, kind |-> q[i].kind]
  BY <1>3
<1>7. Held(b) = Held(q)
  BY <1>4, <1>6 DEF Held
<1> QED BY <1>4, <1>5, <1>6, <1>7 DEF b

LEMMA EmptyMap ==
    ASSUME NEW q, q = <<>>, NEW f(_)
    PROVE  [i \in DOMAIN q |-> f(i)] = <<>>
<1> DEFINE b == [i \in DOMAIN q |-> f(i)]
<1>1. DOMAIN q = 1..0 /\ DOMAIN b = DOMAIN q
  OBVIOUS
<1>2. b \in Seq({}) /\ Len(b) = 0
  BY <1>1
<1> HIDE DEF b
<1> QED BY <1>2 DEF b

\* The rows that the save of p appends.
News(p, r) == IF Fresh(p, r) THEN Bare(p.outbox) ELSE <<>>

LEMMA WrittenFact ==
    ASSUME NEW p \in Sessions, rows \in Seq(Rows), Sound(p, rows),
           Held(p.summaries) \subseteq p.committed \cup Held(p.outbox),
           Fresh(p, rows) \/ Stored(p, rows)
    PROVE  Written(p) = rows \o News(p, rows)
<1> DEFINE new == Without(p.outbox, Ids)
           rest == Without(p.summaries, Ids \cup Held(new))
           o == p.outbox
           one == [i \in DOMAIN new |-> [id |-> new[i].id, kind |-> new[i].kind]]
           two == [i \in DOMAIN rest |-> [id |-> rest[i].id, kind |-> "summary"]]
<1>1. Ids = Held(rows) /\ p.committed \subseteq Held(rows)
  BY DEF Ids, Held, Sound, SummariesSound
<1>2. o \in Seq(Entries) /\ p.summaries \in Seq(SummaryRecords)
  BY SessionFields
<1>3. Written(p) = (rows \o one) \o two
  BY DEF Written
<1>4. ASSUME Held(p.summaries) \subseteq Ids \cup Held(new) PROVE two = <<>>
  <2>1. rest = <<>>
    BY <1>2, <1>4, WithoutFact
  <2> HIDE DEF rest
  <2> DEFINE f(i) == [id |-> rest[i].id, kind |-> "summary"]
  <2>2. two = [i \in DOMAIN rest |-> f(i)]
    OBVIOUS
  <2> HIDE DEF two, f
  <2> QED BY <2>1, <2>2, EmptyMap
<1>5. CASE Fresh(p, rows)
  <2>1. new = o
    <3>1. \A id \in Held(o) : id \notin Ids
      BY <1>1, <1>5 DEF Fresh, Held
    <3> QED BY <1>2, <3>1, WithoutFact
  <2>2. one = Bare(o)
    BY <2>1 DEF Bare
  <2>3. two = <<>>
    BY <1>1, <1>4, <2>1
  <2> HIDE DEF one, two, new, rest, o
  <2>4. Bare(o) \in Seq(Rows)
    BY <1>2, BareFact
  <2>5. rows \o Bare(o) \in Seq(Rows)
    BY <2>4, ConcatFact
  <2> DEFINE w == rows \o Bare(o)
  <2> HIDE DEF w
  <2>6. w \in Seq(Rows) /\ Written(p) = w \o <<>>
    BY <1>3, <2>2, <2>3, <2>5 DEF w
  <2>7. Written(p) = w
    BY <2>6, ConcatEmptySeq
  <2> QED BY <1>5, <2>7 DEF w, News, o
<1>6. CASE ~Fresh(p, rows)
  <2>0. Stored(p, rows)
    BY <1>6
  <2>1. \A id \in Held(o) : id \in Ids
    <3>1. \A i \in DOMAIN o : o[i].seq \in DOMAIN rows
                              /\ rows[o[i].seq] = [id |-> o[i].id, kind |-> o[i].kind]
      BY <2>0 DEF Stored
    <3> SUFFICES ASSUME NEW id \in Held(o) PROVE id \in Ids
      OBVIOUS
    <3>2. PICK i \in DOMAIN o : id = o[i].id
      BY DEF Held
    <3> HIDE DEF o
    <3>a. o[i].seq \in DOMAIN rows /\ rows[o[i].seq] = [id |-> o[i].id, kind |-> o[i].kind]
      BY <3>1
    <3>3. rows[o[i].seq].id = id /\ o[i].seq \in DOMAIN rows
      BY <3>a, <3>2
    <3> QED BY <3>3 DEF Ids
  <2>2. new = <<>>
    BY <1>2, <2>1, WithoutFact
  <2>3. one = <<>>
    <3> HIDE DEF new
    <3> DEFINE f(i) == [id |-> new[i].id, kind |-> new[i].kind]
    <3>1. one = [i \in DOMAIN new |-> f(i)]
      OBVIOUS
    <3> HIDE DEF one, f
    <3> QED BY <2>2, <3>1, EmptyMap
  <2>4. two = <<>>
    BY <1>1, <1>4, <2>1
  <2> HIDE DEF one, two, new, rest, o
  <2>5. rows \o <<>> = rows
    BY ConcatEmptySeq
  <2> QED BY <1>3, <1>6, <2>3, <2>4, <2>5 DEF News
<1> QED BY <1>5, <1>6

\* The rows after a save stay in order when the outbox is appended.
LEMMA FreshInOrder ==
    ASSUME NEW p \in Sessions, NEW r \in Seq(Rows), InOrder(r), DistinctIds(p.outbox), Fresh(p, r),
           NEW q, q = r \o Bare(p.outbox)
    PROVE  InOrder(q) /\ Stored(p, q)
<1> DEFINE o == p.outbox
           b == Bare(o)
           n == Len(r)
<1>1. /\ o \in Seq(Entries) /\ Len(o) \in Nat /\ n \in Nat /\ DOMAIN r = 1..n
      /\ DOMAIN o = 1..Len(o)
  BY SessionFields
<1>2. /\ b \in Seq(Rows) /\ Len(b) = Len(o) /\ DOMAIN b = DOMAIN o
      /\ \A i \in DOMAIN o : b[i] = [id |-> o[i].id, kind |-> o[i].kind]
  <2> HIDE DEF o
  <2> QED BY <1>1, BareFact
<1> HIDE DEF b
<1>3. /\ q \in Seq(Rows) /\ Len(q) = n + Len(b)
      /\ \A i \in DOMAIN r : i \in DOMAIN q /\ q[i] = r[i]
      /\ \A j \in DOMAIN b : n + j \in DOMAIN q /\ q[n + j] = b[j]
      /\ \A i \in DOMAIN q : i \in DOMAIN r \/ \E j \in DOMAIN b : i = n + j
  <2>1. q = r \o b
    BY DEF b
  <2>2. b \in Seq(Rows)
    BY <1>2
  <2>3. /\ r \o b \in Seq(Rows) /\ Len(r \o b) = Len(r) + Len(b)
        /\ \A i \in DOMAIN r : i \in DOMAIN (r \o b) /\ (r \o b)[i] = r[i]
        /\ \A j \in DOMAIN b : Len(r) + j \in DOMAIN (r \o b) /\ (r \o b)[Len(r) + j] = b[j]
        /\ \A i \in DOMAIN (r \o b) : i \in DOMAIN r \/ \E j \in DOMAIN b : i = Len(r) + j
    BY <2>2, ConcatFact
  <2> DEFINE c == r \o b
  <2> HIDE DEF c
  <2>4. /\ c \in Seq(Rows) /\ Len(c) = n + Len(b)
        /\ \A i \in DOMAIN r : i \in DOMAIN c /\ c[i] = r[i]
        /\ \A j \in DOMAIN b : n + j \in DOMAIN c /\ c[n + j] = b[j]
        /\ \A i \in DOMAIN c : i \in DOMAIN r \/ \E j \in DOMAIN b : i = n + j
    BY <2>3 DEF c
  <2>5. q = c
    BY <2>1 DEF c
  <2> QED BY <2>4, <2>5
<1>4. /\ p.next = n + Len(o) + 1
      /\ \A i \in DOMAIN o : o[i].seq = n + i /\ o[i].id \notin Held(r)
      /\ \A i, j \in DOMAIN o :
            i < j /\ "summary" \notin {o[i].kind, o[j].kind} => o[i].id < o[j].id
      /\ \A i \in DOMAIN r, j \in DOMAIN o :
            "summary" \notin {r[i].kind, o[j].kind} => r[i].id < o[j].id
      /\ \A i, j \in DOMAIN o : o[i].id = o[j].id => i = j
  BY DEF Fresh, DistinctIds
<1> HIDE DEF o, n
<1>5. \A j \in DOMAIN o : q[n + j].id = o[j].id /\ q[n + j].kind = o[j].kind
                          /\ q[n + j] = [id |-> o[j].id, kind |-> o[j].kind] /\ n + j \in DOMAIN q
  BY <1>2, <1>3
<1>6. \A i \in DOMAIN r : r[i].id \in Held(r)
  BY DEF Held
<1>7. ASSUME NEW i \in DOMAIN q, NEW k \in DOMAIN q, q[i].id = q[k].id PROVE i = k
  <2>1. CASE i \in DOMAIN r /\ k \in DOMAIN r
    BY <1>3, <1>7, <2>1 DEF InOrder
  <2>a. ASSUME NEW u \in DOMAIN r, NEW j \in DOMAIN o PROVE q[u].id # q[n + j].id
    <3>1. q[u].id = r[u].id /\ q[n + j].id = o[j].id
      BY <1>3, <1>5
    <3>2. r[u].id \in Held(r) /\ o[j].id \notin Held(r)
      BY <1>4, <1>6
    <3> QED BY <3>1, <3>2
  <2>2. CASE i \in DOMAIN r /\ \E j \in DOMAIN o : k = n + j
    BY <1>7, <2>a, <2>2
  <2>3. CASE k \in DOMAIN r /\ \E j \in DOMAIN o : i = n + j
    BY <1>7, <2>a, <2>3
  <2>4. CASE (\E j \in DOMAIN o : i = n + j) /\ (\E j \in DOMAIN o : k = n + j)
    <3>1. PICK j \in DOMAIN o : i = n + j
      BY <2>4
    <3>2. PICK l \in DOMAIN o : k = n + l
      BY <2>4
    <3>3. o[j].id = o[l].id
      BY <1>5, <1>7, <3>1, <3>2
    <3> QED BY <1>4, <3>1, <3>2, <3>3
  <2> QED BY <1>2, <1>3, <2>1, <2>2, <2>3, <2>4
<1>8. ASSUME NEW i \in DOMAIN q, NEW k \in DOMAIN q, i < k,
             q[i].kind # "summary", q[k].kind # "summary"
      PROVE  q[i].id < q[k].id
  <2>1. CASE i \in DOMAIN r /\ k \in DOMAIN r
    BY <1>3, <1>8, <2>1 DEF InOrder
  <2>2. CASE i \in DOMAIN r /\ \E j \in DOMAIN o : k = n + j
    <3>1. PICK j \in DOMAIN o : k = n + j
      BY <2>2
    <3>2. q[i] = r[i] /\ q[k].id = o[j].id /\ q[k].kind = o[j].kind
      BY <1>3, <1>5, <2>2, <3>1
    <3>3. r[i].kind # "summary" /\ o[j].kind # "summary"
      BY <1>8, <3>2
    <3>4. r[i].id < o[j].id
      BY <1>4, <2>2, <3>3
    <3> QED BY <3>2, <3>4
  <2>3. CASE k \in DOMAIN r /\ \E j \in DOMAIN o : i = n + j
    BY <1>1, <1>8, <2>3
  <2>4. CASE (\E j \in DOMAIN o : i = n + j) /\ (\E j \in DOMAIN o : k = n + j)
    <3>1. PICK j \in DOMAIN o : i = n + j
      BY <2>4
    <3>2. PICK l \in DOMAIN o : k = n + l
      BY <2>4
    <3>3. j < l
      BY <1>1, <1>8, <3>1, <3>2
    <3>4. o[j].kind # "summary" /\ o[l].kind # "summary"
      BY <1>5, <1>8, <3>1, <3>2
    <3> QED BY <1>4, <1>5, <3>1, <3>2, <3>3, <3>4
  <2> QED BY <1>2, <1>3, <2>1, <2>2, <2>3, <2>4
<1>9. InOrder(q)
  BY <1>7, <1>8 DEF InOrder
<1>10. Stored(p, q)
  <2>1. p.next = Len(q) + 1
    BY <1>2, <1>3, <1>4
  <2>2. \A i \in DOMAIN o : o[i].seq \in DOMAIN q
                            /\ q[o[i].seq] = [id |-> o[i].id, kind |-> o[i].kind]
    BY <1>4, <1>5
  <2> QED BY <2>1, <2>2 DEF Stored, o
<1> QED BY <1>9, <1>10

\* What is stored is in the transcript.
LEMMA StoredAllIn ==
    ASSUME NEW p \in Sessions, NEW q \in Seq(Rows), Stored(p, q), p.committed \subseteq Held(q),
           Held(p.summaries) \subseteq p.committed \cup Held(p.outbox)
    PROVE  AllIn(p, q) /\ Held(p.outbox) \subseteq Held(q)
<1> DEFINE o == p.outbox
<1>1. \A i \in DOMAIN o : o[i].seq \in DOMAIN q
                          /\ q[o[i].seq] = [id |-> o[i].id, kind |-> o[i].kind]
  BY DEF Stored
<1>2. \A i \in DOMAIN o : In(q, o[i].id, o[i].kind)
  <2> HIDE DEF o
  <2> QED BY <1>1 DEF In
<1>3. Held(o) \subseteq Held(q)
  <2> SUFFICES ASSUME NEW id \in Held(o) PROVE id \in Held(q)
    OBVIOUS
  <2>1. PICK i \in DOMAIN o : id = o[i].id
    BY DEF Held
  <2> HIDE DEF o
  <2> QED BY <1>2, <2>1, InHeld
<1> QED BY <1>2, <1>3 DEF AllIn

\* One save of a session whose outbox is fresh, or was stored by an earlier one.
LEMMA WriteFact ==
    ASSUME NEW p \in Sessions, NEW r \in Seq(Rows), InOrder(r), Sound(p, r),
           Held(p.summaries) \subseteq p.committed \cup Held(p.outbox),
           Fresh(p, r) \/ Stored(p, r),
           NEW q, q = r \o News(p, r)
    PROVE  /\ q \in Seq(Rows) /\ InOrder(q) /\ Stored(p, q) /\ AllIn(p, q)
           /\ Held(q) = Held(r) \cup Held(p.outbox)
           /\ \A id, kind : In(r, id, kind) => In(q, id, kind)
           /\ \A s \in Sessions : s.summaries = p.summaries /\ Sound(s, r) => Sound(s, q)
           /\ Sound(p, q)
<1> DEFINE x == News(p, r)
           o == p.outbox
<1>1. o \in Seq(Entries) /\ DistinctIds(o)
  BY SessionFields DEF Sound, OutboxSound
<1>2. /\ x \in Seq(Rows)
      /\ \A id \in Held(p.summaries) : id \in Held(x) => In(x, id, "summary")
      /\ Held(x) \subseteq Held(o)
  <2>1. CASE Fresh(p, r)
    <3>1. x = Bare(o)
      BY <2>1 DEF News
    <3> HIDE DEF x, o
    <3>2. /\ x \in Seq(Rows) /\ DOMAIN x = DOMAIN o /\ Held(x) = Held(o)
          /\ \A i \in DOMAIN o : x[i] = [id |-> o[i].id, kind |-> o[i].kind]
      BY <1>1, <3>1, BareFact
    <3>3. ASSUME NEW id \in Held(p.summaries), id \in Held(x) PROVE In(x, id, "summary")
      <4>1. PICK i \in DOMAIN o : id = o[i].id
        BY <3>2, <3>3 DEF Held
      <4>2. o[i].kind = "summary"
        BY <3>3, <4>1 DEF Sound, OutboxSound, o
      <4> QED BY <3>2, <4>1, <4>2 DEF In
    <3> QED BY <3>2, <3>3
  <2>2. CASE ~Fresh(p, r)
    <3>1. x = <<>>
      BY <2>2 DEF News
    <3> HIDE DEF x
    <3>2. x \in Seq(Rows) /\ DOMAIN x = {}
      BY <3>1
    <3> QED BY <3>2 DEF Held
  <2> QED BY <2>1, <2>2
<1> HIDE DEF x
<1>3. q \in Seq(Rows) /\ Held(q) = Held(r) \cup Held(x) /\ q = r \o x
  <2>1. q = r \o x
    BY DEF x
  <2> QED BY <1>2, <2>1, ConcatFact
<1>4. \A id, kind : In(r, id, kind) => In(q, id, kind)
  BY <1>2, <1>3, InGrows
<1>5. \A s \in Sessions : s.summaries = p.summaries /\ Sound(s, r) => Sound(s, q)
  <2> SUFFICES ASSUME NEW s \in Sessions, s.summaries = p.summaries, Sound(s, r) PROVE Sound(s, q)
    OBVIOUS
  <2>1. \A id \in Held(s.summaries) : id \in Held(x) => In(x, id, "summary")
    BY <1>2
  <2> QED BY <1>2, <1>3, <2>1, SoundGrows
<1>6. Sound(p, q)
  BY <1>5
<1>7. InOrder(q) /\ Stored(p, q)
  <2>1. CASE Fresh(p, r)
    <3>1. q = r \o Bare(p.outbox)
      BY <1>3, <2>1 DEF News, x
    <3> QED BY <1>1, <2>1, <3>1, FreshInOrder
  <2>2. CASE ~Fresh(p, r)
    <3>1. x = <<>>
      BY <2>2 DEF News, x
    <3>2. q = r
      BY <1>3, <3>1, ConcatEmptySeq
    <3> QED BY <2>2, <3>2
  <2> QED BY <2>1, <2>2
<1>8. AllIn(p, q) /\ Held(o) \subseteq Held(q)
  <2>1. p.committed \subseteq Held(q)
    BY <1>6 DEF Sound, SummariesSound
  <2> QED BY <1>3, <1>7, <2>1, StoredAllIn
<1>9. Held(q) = Held(r) \cup Held(o)
  BY <1>2, <1>3, <1>8
<1> QED BY <1>3, <1>4, <1>5, <1>6, <1>7, <1>8, <1>9

LEMMA SequenceFact ==
    ASSUME NEW q \in Seq(Rows), InOrder(q), NEW id, NEW kind, In(q, id, kind)
    PROVE  /\ SequenceOf(q, id) \in DOMAIN q
           /\ q[SequenceOf(q, id)] = [id |-> id, kind |-> kind]
           /\ \A k \in DOMAIN q : q[k].id = id => k = SequenceOf(q, id)
<1>1. PICK i \in DOMAIN q : q[i] = [id |-> id, kind |-> kind]
  BY DEF In
<1>2. q[i].id = id
  BY <1>1
<1>3. SequenceOf(q, id) \in DOMAIN q /\ q[SequenceOf(q, id)].id = id
  BY <1>2 DEF SequenceOf
<1>4. \A k \in DOMAIN q : q[k].id = id => k = SequenceOf(q, id)
  BY <1>3 DEF InOrder
<1> QED BY <1>1, <1>2, <1>3, <1>4

LEMMA OrderFact ==
    ASSUME NEW q \in Seq(Rows), InOrder(q), NEW a \in Nat, NEW b \in Nat, a < b,
           In(q, a, "message"), In(q, b, "message")
    PROVE  SequenceOf(q, a) < SequenceOf(q, b)
<1> DEFINE i == SequenceOf(q, a)
           j == SequenceOf(q, b)
<1>1. i \in DOMAIN q /\ q[i] = [id |-> a, kind |-> "message"]
  BY SequenceFact
<1>2. j \in DOMAIN q /\ q[j] = [id |-> b, kind |-> "message"]
  BY SequenceFact
<1> HIDE DEF i, j
<1>3. q[i].id = a /\ q[j].id = b /\ q[i].kind = "message" /\ q[j].kind = "message"
  BY <1>1, <1>2
<1>4. i \in Int /\ j \in Int
  BY <1>1, <1>2
<1>5. ~(j < i)
  <2> SUFFICES ASSUME j < i PROVE FALSE
    OBVIOUS
  <2>1. b < a
    BY <1>1, <1>2, <1>3 DEF InOrder
  <2> QED BY <2>1
<1>6. i # j
  BY <1>3
<1>7. i < j
  BY <1>4, <1>5, <1>6
<1> QED BY <1>7 DEF i, j

\* Messages with other numbers.
LEMMA SameGoal ==
    ASSUME NEW m \in Seq(Refs), NEW q \in Seq(Refs), DOMAIN m = DOMAIN q,
           \A i \in DOMAIN q : m[i].id = q[i].id, GoalFirst(q)
    PROVE  GoalFirst(m)
<1>1. q # <<>> /\ q[1].id = 1 /\ \A i, j \in DOMAIN q : i < j => q[i].id < q[j].id
  BY DEF GoalFirst
<1>2. 1 \in DOMAIN q
  BY <1>1
<1>3. m # <<>>
  <2>1. 1 \in DOMAIN m
    BY <1>2
  <2> QED BY <2>1
<1> QED BY <1>1, <1>2, <1>3 DEF GoalFirst

LEMMA SealedFact ==
    ASSUME NEW p \in Sessions, NEW q \in Seq(Rows), InOrder(q), GoalFirst(p.memory),
           \A i \in DOMAIN p.memory : In(q, p.memory[i].id, "message")
    PROVE  /\ Sealed(p, q) \in Seq(Refs) /\ GoalFirst(Sealed(p, q))
           /\ \A i \in DOMAIN Sealed(p, q) :
                 /\ Sealed(p, q)[i].seq \in DOMAIN q
                 /\ q[Sealed(p, q)[i].seq] = [id |-> Sealed(p, q)[i].id, kind |-> "message"]
                 /\ In(q, Sealed(p, q)[i].id, "message")
<1> DEFINE m == p.memory
           s == Sealed(p, q)
<1>1. /\ m \in Seq(Refs) /\ DOMAIN m = 1..Len(m) /\ Len(m) \in Nat
      /\ \A i \in DOMAIN m : m[i].id \in Nat
  BY SessionFields
<1>2. s = [i \in DOMAIN m |-> [id |-> m[i].id, seq |-> SequenceOf(q, m[i].id)]]
  BY DEF Sealed
<1>3. \A i \in DOMAIN m : In(q, m[i].id, "message")
  OBVIOUS
<1>4. GoalFirst(m)
  OBVIOUS
<1> HIDE DEF m, s
<1>5. \A i \in DOMAIN m : SequenceOf(q, m[i].id) \in DOMAIN q
                          /\ q[SequenceOf(q, m[i].id)] = [id |-> m[i].id, kind |-> "message"]
  BY <1>3, SequenceFact
<1>6. \A i \in DOMAIN m : [id |-> m[i].id, seq |-> SequenceOf(q, m[i].id)] \in Refs
  <2>1. \A k \in DOMAIN q : k \in Nat
    OBVIOUS
  <2> QED BY <1>1, <1>5, <2>1 DEF Refs
<1>7. s \in Seq(Refs) /\ DOMAIN s = DOMAIN m
  BY <1>1, <1>2, <1>6
<1>8. \A i \in DOMAIN m : s[i].id = m[i].id /\ s[i].seq = SequenceOf(q, m[i].id)
  BY <1>2
<1>9. GoalFirst(s)
  BY <1>1, <1>4, <1>7, <1>8, SameGoal
<1>10. \A i \in DOMAIN s :
          /\ s[i].seq \in DOMAIN q
          /\ q[s[i].seq] = [id |-> s[i].id, kind |-> "message"]
          /\ In(q, s[i].id, "message")
  BY <1>3, <1>5, <1>7, <1>8
<1> QED BY <1>7, <1>9, <1>10 DEF s

\* When everything is in the transcript, so are the messages, the ledger and
\* the ledgers that the summaries continue.
LEMMA InTranscript ==
    ASSUME NEW p \in Sessions, NEW r \in Seq(Rows), Sound(p, r), AllIn(p, r)
    PROVE  /\ \A i \in DOMAIN p.memory : In(r, p.memory[i].id, "message")
           /\ \A id \in Held(p.summaries) : In(r, id, "summary")
           /\ p.ledger # 0 => In(r, p.ledger, "summary")
           /\ \A i \in DOMAIN p.summaries :
                 p.summaries[i].prior # 0 => In(r, p.summaries[i].prior, "summary")
<1>1. \A i \in DOMAIN p.memory : In(r, p.memory[i].id, "message")
  <2> SUFFICES ASSUME NEW i \in DOMAIN p.memory PROVE In(r, p.memory[i].id, "message")
    OBVIOUS
  <2>1. CASE \E j \in DOMAIN p.outbox :
               p.outbox[j].id = p.memory[i].id /\ p.outbox[j].kind = "message"
    <3>1. PICK j \in DOMAIN p.outbox :
               p.outbox[j].id = p.memory[i].id /\ p.outbox[j].kind = "message"
      BY <2>1
    <3>2. In(r, p.outbox[j].id, p.outbox[j].kind)
      BY DEF AllIn
    <3> QED BY <3>1, <3>2
  <2> QED BY <2>1 DEF Sound, HasMessages
<1>2. \A id \in Held(p.summaries) : In(r, id, "summary")
  BY DEF Sound, SummariesSound, AllIn
<1>3. p.ledger # 0 => In(r, p.ledger, "summary")
  BY <1>2 DEF Sound, SummariesSound
<1>4. ASSUME NEW i \in DOMAIN p.summaries, p.summaries[i].prior # 0
      PROVE  In(r, p.summaries[i].prior, "summary")
  <2>1. SoundSummary(p, r, p.summaries[i])
    BY DEF Sound, SummariesSound
  <2> QED BY <1>2, <1>4, <2>1 DEF SoundSummary
<1> QED BY <1>1, <1>2, <1>3, <1>4

\* A session all of whose records are in the transcript, with an empty outbox.
LEMMA SavedFact ==
    ASSUME NEW p \in Sessions, NEW r \in Seq(Rows), NEW n \in Nat, Sound(p, r), AllIn(p, r),
           Below(p, n), NEW t \in Sessions, t.outbox = <<>>, GoalFirst(t.memory),
           \A i \in DOMAIN t.memory : In(r, t.memory[i].id, "message"),
           t.summaries = p.summaries, t.ledger = p.ledger,
           t.committed \subseteq Held(r), Held(p.summaries) \subseteq t.committed
    PROVE  Ready(t, r, n) /\ (t.next = Len(r) + 1 => Fresh(t, r))
<1>1. DOMAIN t.outbox = {} /\ Len(t.outbox) = 0 /\ Held(t.outbox) = {}
  <2>1. DOMAIN t.outbox = {} /\ Len(t.outbox) = 0
    OBVIOUS
  <2> QED BY <2>1 DEF Held
<1>2. SummariesSound(t, r)
  BY DEF Sound, SummariesSound, SoundSummary
<1>3. HasMessages(t, r) /\ OutboxSound(t) /\ Unstaged(t)
  BY <1>1 DEF HasMessages, OutboxSound, DistinctIds, Unstaged
<1>4. Below(t, n)
  BY <1>1 DEF Below
<1>5. ASSUME t.next = Len(r) + 1 PROVE Fresh(t, r)
  <2>1. t.next = Len(r) + Len(t.outbox) + 1
    BY <1>1, <1>5
  <2> QED BY <1>1, <2>1 DEF Fresh
<1> QED BY <1>2, <1>3, <1>4, <1>5 DEF Ready, Sound

\* What SaveInv says of a save at the stored revision that has not committed.
LEMMA ProposalFact ==
    ASSUME TInv, at = "save", try.receipt = 0, UpToDate
    PROVE  /\ prop \in Sessions /\ rows \in Seq(Rows) /\ InOrder(rows) /\ Sound(prop, rows)
           /\ Held(prop.summaries) \subseteq prop.committed \cup Held(prop.outbox)
           /\ Fresh(prop, rows) \/ Stored(prop, rows)
           /\ Written(prop) = rows \o News(prop, rows)
<1>1. /\ prop \in Sessions /\ rows \in Seq(Rows) /\ InOrder(rows) /\ Sound(prop, rows)
      /\ Held(prop.summaries) \subseteq prop.committed \cup Held(prop.outbox)
      /\ Fresh(prop, rows) \/ Stored(prop, rows)
  BY DEF TInv, TranscriptTypes, TableInv, SaveInv, Proposes
<1>2. Written(prop) = rows \o News(prop, rows)
  BY <1>1, WrittenFact
<1> QED BY <1>1, <1>2

\* save_inner accepts the proposal of the worker at the stored revision.
LEMMA AcceptFact ==
    ASSUME TInv, at = "save", try.receipt = 0, UpToDate
    PROVE  Acceptable(prop)
<1> DEFINE q == Written(prop)
<1>1. /\ prop \in Sessions /\ rows \in Seq(Rows) /\ InOrder(rows) /\ Sound(prop, rows)
      /\ Held(prop.summaries) \subseteq prop.committed \cup Held(prop.outbox)
      /\ Fresh(prop, rows) \/ Stored(prop, rows)
      /\ q = rows \o News(prop, rows)
  BY ProposalFact
<1> HIDE DEF q
<1>2. /\ q \in Seq(Rows) /\ InOrder(q) /\ Stored(prop, q) /\ AllIn(prop, q) /\ Sound(prop, q)
  BY <1>1, WriteFact
<1>3. /\ \A i \in DOMAIN prop.memory : In(q, prop.memory[i].id, "message")
      /\ \A i \in DOMAIN prop.summaries :
            prop.summaries[i].prior # 0 => In(q, prop.summaries[i].prior, "summary")
  BY <1>1, <1>2, InTranscript
<1>4. db.next = Len(rows) + 1
  BY DEF TInv, TableInv
<1>5. ASSUME NEW i \in DOMAIN prop.outbox PROVE SameIdentity(prop.outbox[i])
  <2> DEFINE e == prop.outbox[i]
  <2>1. CASE Fresh(prop, rows)
    <3>1. e.id \notin Ids
      BY <2>1 DEF Fresh, Ids, Held
    <3> QED BY <3>1 DEF SameIdentity
  <2>2. CASE Stored(prop, rows)
    <3>1. e.seq \in DOMAIN rows /\ rows[e.seq] = [id |-> e.id, kind |-> e.kind]
      BY <2>2 DEF Stored
    <3> HIDE DEF e
    <3>2. In(rows, e.id, e.kind) /\ rows[e.seq].id = e.id
      BY <3>1 DEF In
    <3>3. /\ rows[SequenceOf(rows, e.id)] = [id |-> e.id, kind |-> e.kind]
          /\ e.seq = SequenceOf(rows, e.id)
      BY <1>1, <3>1, <3>2, SequenceFact
    <3>4. rows[SequenceOf(rows, e.id)].kind = e.kind
      BY <3>3
    <3>5. SameIdentity(e)
      BY <3>3, <3>4 DEF SameIdentity
    <3> QED BY <3>5 DEF e
  <2> QED BY <1>1, <2>1, <2>2
<1>6. ASSUME NEW i \in DOMAIN prop.summaries PROVE ValidSummary(q, prop.summaries[i])
  <2> DEFINE x == prop.summaries[i]
             w == x.sources
  <2>1. SoundSummary(prop, q, x) /\ (x.prior # 0 => In(q, x.prior, "summary"))
    BY <1>2, <1>3 DEF Sound, SummariesSound
  <2>2. w \in Seq(Nat)
    <3>1. x \in SummaryRecords
      <4>1. prop.summaries \in Seq(SummaryRecords)
        BY <1>1, SessionFields
      <4> QED BY <4>1
    <3> HIDE DEF x
    <3> QED BY <3>1 DEF SummaryRecords
  <2> HIDE DEF x
  <2>3. /\ w # <<>> /\ \A k \in DOMAIN w : In(q, w[k], "message")
        /\ \A k, j \in DOMAIN w : k < j => w[k] < w[j]
        /\ \A id \in x.retained : In(q, id, "message")
    BY <2>1 DEF SoundSummary
  <2> HIDE DEF w
  <2>4. ASSUME NEW k \in DOMAIN w, k > 1 PROVE SequenceOf(q, w[k - 1]) < SequenceOf(q, w[k])
    <3>1. k - 1 \in DOMAIN w /\ k - 1 < k /\ w[k] \in Nat /\ w[k - 1] \in Nat
      <4>1. k - 1 \in DOMAIN w /\ k - 1 < k
        BY <2>2, <2>4
      <4> QED BY <2>2, <4>1
    <3>2. w[k - 1] < w[k]
      BY <2>3, <3>1
    <3> QED BY <1>2, <2>3, <3>1, <3>2, OrderFact
  <2>5. \A k \in DOMAIN w : MessageIn(q, w[k])
    BY <2>3 DEF MessageIn, In
  <2>6. \A id \in x.retained : MessageIn(q, id)
    BY <2>3 DEF MessageIn, In
  <2>7. x.prior # 0 => [id |-> x.prior, kind |-> "summary"] \in {q[k] : k \in DOMAIN q}
    BY <2>1 DEF In
  <2>8. ValidSummary(q, x)
    BY <2>3, <2>4, <2>5, <2>6, <2>7 DEF ValidSummary, w
  <2> QED BY <2>8 DEF x
<1>7. \A i \in DOMAIN prop.memory : MessageIn(q, prop.memory[i].id)
  BY <1>3 DEF MessageIn, In
<1> QED BY <1>4, <1>5, <1>6, <1>7 DEF Acceptable, q

----------------------------------------------------------------------------
(* Transcript: the steps *)

LEMMA ReadyGrows ==
    ASSUME NEW s, NEW r, NEW n \in Nat, NEW m \in Nat, n <= m, Ready(s, r, n)
    PROVE  Ready(s, r, m)
<1>1. \A x \in 0..n : x \in 0..m
  OBVIOUS
<1>2. Below(s, m)
  BY <1>1 DEF Ready, Below
<1> QED BY <1>2 DEF Ready

LEMMA StageSave ==
    ASSUME NEW s \in Sessions, NEW r \in Seq(Rows), NEW n \in Nat, Ready(s, r, n),
           NEW p, p = WithSummaries(s)
    PROVE  /\ Proposes(s, p, r, n) /\ p.revision = s.revision /\ p.reload = s.reload
           /\ Fresh(s, r) => Fresh(p, r)
           /\ AllIn(p, r) => AllIn(s, r)
           /\ Held(s.outbox) \subseteq Held(p.outbox)
           /\ Held(p.outbox) \subseteq Held(s.outbox) \cup Held(s.summaries)
<1>1. Sound(s, r) /\ Below(s, n) /\ Unstaged(s)
  BY DEF Ready
<1>2. /\ p \in Sessions
      /\ p.memory = s.memory /\ p.summaries = s.summaries /\ p.committed = s.committed
      /\ p.ledger = s.ledger /\ p.revision = s.revision /\ p.reload = s.reload
      /\ Sound(p, r)
      /\ Held(p.outbox) \subseteq Held(s.outbox) \cup Held(s.summaries)
      /\ Held(s.outbox) \subseteq Held(p.outbox)
      /\ Held(s.summaries) \subseteq s.committed \cup Held(p.outbox)
      /\ Fresh(s, r) => Fresh(p, r)
      /\ AllIn(p, r) => AllIn(s, r)
  BY <1>1, StageFact
<1>3. Below(p, n)
  BY <1>1, <1>2 DEF Below
<1> QED BY <1>2, <1>3 DEF Proposes

\* p is s with its summaries and an event record.
StagesRecord(s, r, n, kind, p) ==
    /\ s \in Sessions /\ r \in Seq(Rows) /\ n \in Nat /\ Ready(s, r, n)
    /\ Held(r) \subseteq 0..n /\ kind \in Kinds /\ kind # "summary"
    /\ p = Recorded(WithSummaries(s), kind, n + 1)

LEMMA StageRecord ==
    ASSUME NEW s, NEW r, NEW n, NEW kind, NEW p, StagesRecord(s, r, n, kind, p)
    PROVE  /\ Proposes(s, p, r, n + 1)
           /\ Fresh(s, r) => Fresh(p, r)
           /\ Held(s.outbox) \cup {n + 1} \subseteq Held(p.outbox)
<1>0. /\ s \in Sessions /\ r \in Seq(Rows) /\ n \in Nat /\ Ready(s, r, n)
      /\ Held(r) \subseteq 0..n /\ kind \in Kinds /\ kind # "summary"
      /\ p = Recorded(WithSummaries(s), kind, n + 1)
  BY DEF StagesRecord
<1> USE <1>0
<1> DEFINE u == WithSummaries(s)
<1>1. /\ Proposes(s, u, r, n)
      /\ Fresh(s, r) => Fresh(u, r)
      /\ Held(s.outbox) \subseteq Held(u.outbox)
  BY StageSave
<1> HIDE DEF u
<1>2. u \in Sessions /\ Sound(u, r) /\ Below(u, n)
  BY <1>1 DEF Proposes
<1>3. p = Recorded(u, kind, n + 1)
  BY DEF u
<1>4. /\ p \in Sessions
      /\ p.memory = u.memory /\ p.summaries = u.summaries /\ p.committed = u.committed
      /\ p.ledger = u.ledger
      /\ Sound(p, r) /\ Below(p, n + 1)
      /\ Held(p.outbox) = Held(u.outbox) \cup {n + 1}
      /\ Fresh(u, r) => Fresh(p, r)
  <2>1. NewRecord(u, r, n, kind, p)
    BY <1>2, <1>3 DEF NewRecord
  <2> QED BY <2>1, RecordFact
<1> QED BY <1>1, <1>4 DEF Proposes

LEMMA TypesOf ==
    ASSUME TInv
    PROVE  /\ rows \in Seq(Rows) /\ eng \in Sessions /\ prop \in Sessions /\ try \in Tries /\ ack \in Acks
           /\ db.revision \in Nat /\ db.next \in Nat /\ db.ledger \in Nat /\ db.memory \in Seq(Refs)
           /\ eng.revision \in Nat /\ owner \in BOOLEAN /\ at \in Points /\ made \in Nat /\ faults \in Nat
           /\ Ids = Held(rows) /\ Ids \subseteq 0..made /\ said \subseteq 0..made /\ refused = FALSE
           /\ try.receipt \in Nat /\ try.event \in Events /\ try.left \in Int
           /\ MaxTries \in Nat
<1>1. Ids = Held(rows)
  BY DEF Ids, Held
<1>2. MaxTries \in Nat
  BY TranscriptAssumption
<1>3. /\ rows \in Seq(Rows) /\ eng \in Sessions /\ prop \in Sessions /\ try \in Tries /\ ack \in Acks
      /\ owner \in BOOLEAN /\ at \in Points /\ made \in Nat /\ faults \in Nat
      /\ Ids \subseteq 0..made /\ said \subseteq 0..made /\ refused = FALSE
  BY DEF TInv, TranscriptTypes
<1>4. db.revision \in Nat /\ db.next \in Nat /\ db.ledger \in Nat /\ db.memory \in Seq(Refs)
  BY DEF TInv, TranscriptTypes
<1>5. try.receipt \in Nat /\ try.event \in Events /\ try.left \in Int
  BY <1>3 DEF Tries
<1> QED BY <1>1, <1>2, <1>3, <1>4, <1>5, SessionFields

LEMMA Ids2 == Ids' = Held(rows')
BY DEF Ids, Held

\* A step that leaves the tables alone and does not save.
LEMMA Continue ==
    ASSUME TInv, rows' = rows, db' = db, refused' = FALSE, owner' \in BOOLEAN,
           made' \in Nat, made <= made', faults' \in Nat,
           eng' \in Sessions, prop' \in Sessions, try' \in Tries, ack' \in Acks,
           at' \in Points, at' \notin {"save", "check"}, said' \subseteq 0..made',
           at' # "idle" =>
             /\ Ready(eng', rows, made') /\ eng'.revision <= db.revision
             /\ said' \subseteq Held(rows) \cup Held(eng'.outbox) \cup Held(eng'.summaries)
             /\ eng'.revision = db.revision /\ ~eng'.reload =>
                  Fresh(eng', rows)
                  \/ (at' \in {"error", "fail"} /\ Stored(WithSummaries(eng'), rows))
    PROVE  TInv'
<1>1. Ids' = Ids /\ Ids' = Held(rows) /\ Ids' \subseteq 0..made'
  <2>1. Ids' = Held(rows) /\ Ids = Held(rows) /\ Ids \subseteq 0..made /\ made \in Nat
    BY TypesOf, Ids2
  <2>2. \A x \in 0..made : x \in 0..made'
    BY <2>1
  <2> QED BY <2>1, <2>2
<1>2. TranscriptTypes'
  BY <1>1 DEF TInv, TranscriptTypes
<1>3. TableInv'
  BY DEF TInv, TableInv
<1>4. EngineInv'
  <2> SUFFICES ASSUME at' # "idle" PROVE EngineInv'
    BY DEF EngineInv
  <2>1. UpToDate' = (eng'.revision = db.revision /\ ~eng'.reload)
    BY DEF UpToDate
  <2>2. at' \in {"ready", "work", "finish"} => at' \notin {"error", "fail"}
    OBVIOUS
  <2> QED BY <1>1, <2>1, <2>2 DEF EngineInv
<1>5. SaveInv' /\ CheckInv'
  BY DEF SaveInv, CheckInv
<1> QED BY <1>2, <1>3, <1>4, <1>5 DEF TInv

\* A save begins.
LEMMA EnterSave ==
    ASSUME TInv, rows' = rows, db' = db, ack' = ack, refused' = FALSE, owner' \in BOOLEAN,
           made' \in Nat, made <= made', faults' \in Nat, at' = "save",
           eng' \in Sessions, Ready(eng', rows, made'), eng'.revision <= db.revision,
           Proposes(eng', prop', rows, made'),
           NEW event \in Events, try' = [event |-> event, left |-> MaxTries, receipt |-> 0],
           said' \subseteq Held(rows) \cup Held(prop'.outbox) \cup Held(prop'.summaries),
           event = "checkpoint" => prop' = WithSummaries(eng'),
           eng'.revision = db.revision /\ ~eng'.reload =>
             /\ Fresh(prop', rows) \/ Stored(prop', rows)
             /\ event = "checkpoint" => Fresh(eng', rows)
    PROVE  TInv'
<1>1. Ids' = Ids /\ Ids' = Held(rows) /\ Ids' \subseteq 0..made'
  <2>1. Ids' = Held(rows) /\ Ids = Held(rows) /\ Ids \subseteq 0..made /\ made \in Nat
    BY TypesOf, Ids2
  <2>2. \A x \in 0..made : x \in 0..made'
    BY <2>1
  <2> QED BY <2>1, <2>2
<1>2. said' \subseteq 0..made' /\ prop' \in Sessions
  BY <1>1 DEF Proposes, Below
<1>3. try' \in Tries /\ try'.receipt = 0 /\ try'.event = event
  BY TypesOf DEF Tries
<1>4. TranscriptTypes'
  BY <1>1, <1>2, <1>3 DEF TInv, TranscriptTypes, Points
<1>5. TableInv'
  BY DEF TInv, TableInv
<1>6. UpToDate' = (eng'.revision = db.revision /\ ~eng'.reload) /\ Clone' = (event = "checkpoint")
  BY <1>3 DEF UpToDate, Clone
<1>7. EngineInv'
  BY <1>6 DEF EngineInv
<1>8. SaveInv'
  BY <1>1, <1>3, <1>6 DEF SaveInv
<1>9. CheckInv'
  BY DEF CheckInv
<1> QED BY <1>4, <1>5, <1>7, <1>8, <1>9 DEF TInv

LEMMA LoadedFact ==
    ASSUME TInv
    PROVE  /\ Loaded \in Sessions /\ Ready(Loaded, rows, made) /\ Fresh(Loaded, rows)
           /\ Loaded.revision = db.revision /\ ~Loaded.reload
           /\ Held(Loaded.outbox) = {} /\ Held(Loaded.summaries) = {}
<1> DEFINE s == Loaded
           e == <<>>
<1>1. e \in Seq(Entries) /\ e \in Seq(SummaryRecords) /\ DOMAIN e = {} /\ Len(e) = 0
  OBVIOUS
<1>2. s = [next |-> db.next, memory |-> db.memory, outbox |-> e, summaries |-> e,
           committed |-> {}, ledger |-> db.ledger, revision |-> db.revision, reload |-> FALSE]
  BY DEF Loaded
<1>3. /\ rows \in Seq(Rows) /\ db.next = Len(rows) + 1 /\ GoalFirst(db.memory)
      /\ \A i \in DOMAIN db.memory :
            db.memory[i].seq \in DOMAIN rows
            /\ rows[db.memory[i].seq] = [id |-> db.memory[i].id, kind |-> "message"]
      /\ db.ledger # 0 => In(rows, db.ledger, "summary")
  BY DEF TInv, TranscriptTypes, TableInv
<1> HIDE DEF e, s
<1>4. /\ s.next = db.next /\ s.memory = db.memory /\ s.outbox = e /\ s.summaries = e
      /\ s.committed = {} /\ s.ledger = db.ledger /\ s.revision = db.revision /\ s.reload = FALSE
  BY <1>2
<1>5. s \in Sessions
  BY <1>1, <1>2, TypesOf DEF Sessions
<1>6. Held(e) = {}
  BY <1>1 DEF Held
<1>7. HasMessages(s, rows)
  <2>1. \A i \in DOMAIN db.memory : In(rows, db.memory[i].id, "message")
    BY <1>3 DEF In
  <2> QED BY <1>4, <2>1 DEF HasMessages
<1>8. SummariesSound(s, rows)
  BY <1>1, <1>3, <1>4, <1>6 DEF SummariesSound, DistinctIds
<1>9. OutboxSound(s) /\ Unstaged(s) /\ Below(s, made)
  BY <1>1, <1>4, <1>6 DEF OutboxSound, DistinctIds, Unstaged, Below
<1>10. Fresh(s, rows)
  <2>1. s.next = Len(rows) + Len(s.outbox) + 1
    BY <1>1, <1>3, <1>4
  <2> QED BY <1>1, <1>4, <1>6, <2>1 DEF Fresh
<1>11. Ready(s, rows, made)
  BY <1>3, <1>4, <1>7, <1>8, <1>9 DEF Ready, Sound
<1> QED BY <1>4, <1>5, <1>6, <1>10, <1>11 DEF s

\* The engine's session when it is at the stored revision, between saves.
LEMMA EngineOf ==
    ASSUME TInv, at # "idle"
    PROVE  /\ Ready(eng, rows, made) /\ eng.revision <= db.revision
           /\ at \in {"ready", "work", "finish"} /\ eng.revision = db.revision /\ ~eng.reload =>
                Fresh(eng, rows)
           /\ at \in {"error", "fail"} /\ eng.revision = db.revision /\ ~eng.reload =>
                Fresh(eng, rows) \/ Stored(WithSummaries(eng), rows)
           /\ at # "save" => said \subseteq Held(rows) \cup Held(eng.outbox) \cup Held(eng.summaries)
BY TypesOf DEF TInv, EngineInv, UpToDate

LEMMA RecordReady ==
    ASSUME NEW s, NEW r, NEW n, NEW kind, NEW t, NewRecord(s, r, n, kind, t), Unstaged(s)
    PROVE  /\ t \in Sessions /\ Ready(t, r, n + 1) /\ t.summaries = s.summaries
           /\ t.revision = s.revision /\ t.reload = s.reload
           /\ Held(t.outbox) = Held(s.outbox) \cup {n + 1}
           /\ Fresh(s, r) => Fresh(t, r)
BY RecordFact DEF Ready

LEMMA SendMessageKeeps ==
    ASSUME TInv, SendMessage
    PROVE  TInv'
<1>1. /\ eng' = Appended(Loaded, made + 1) /\ prop' = WithSummaries(eng')
      /\ try' = [event |-> "user_message_appended", left |-> MaxTries, receipt |-> 0]
      /\ made' = made + 1 /\ said' = {made + 1} /\ at' = "save"
      /\ rows' = rows /\ db' = db /\ owner' = owner /\ ack' = ack /\ faults' = faults
      /\ refused' = refused
  BY DEF SendMessage
<1>2. /\ Loaded \in Sessions /\ Ready(Loaded, rows, made) /\ Fresh(Loaded, rows)
      /\ Loaded.revision = db.revision
  BY LoadedFact
<1>3. /\ rows \in Seq(Rows) /\ made \in Nat /\ Held(rows) \subseteq 0..made /\ owner \in BOOLEAN
      /\ faults \in Nat /\ refused = FALSE /\ db.revision \in Nat
  BY TypesOf
<1>4. /\ eng' \in Sessions /\ Ready(eng', rows, made + 1) /\ eng'.revision = Loaded.revision
      /\ made + 1 \in Held(eng'.outbox) /\ Fresh(eng', rows)
  <2>1. NewMessage(Loaded, rows, made, eng')
    BY <1>1, <1>2, <1>3 DEF NewMessage
  <2> QED BY <1>2, <2>1, AppendedFact
<1>5. /\ Proposes(eng', prop', rows, made + 1) /\ Fresh(prop', rows)
      /\ Held(eng'.outbox) \subseteq Held(prop'.outbox)
  <2>1. made + 1 \in Nat
    BY <1>3
  <2>2. prop' = WithSummaries(eng')
    BY <1>1
  <2> QED BY <1>3, <1>4, <2>1, <2>2, StageSave
<1>6. made + 1 \in Nat /\ made <= made + 1 /\ eng'.revision <= db.revision
  BY <1>2, <1>3, <1>4
<1>7. "user_message_appended" \in Events /\ "user_message_appended" # "checkpoint"
  BY DEF Events
<1>8. said' \subseteq Held(prop'.outbox)
  BY <1>1, <1>4, <1>5
<1> QED BY <1>1, <1>3, <1>4, <1>5, <1>6, <1>7, <1>8, EnterSave

LEMMA StartRunKeeps ==
    ASSUME TInv, StartRun
    PROVE  TInv'
<1>1. /\ owner' = TRUE /\ eng' = Loaded /\ rows' = rows /\ db' = db /\ ack' = ack
      /\ faults' = faults /\ refused' = refused
  BY DEF StartRun
<1>2. /\ Loaded \in Sessions /\ Ready(Loaded, rows, made) /\ Fresh(Loaded, rows)
      /\ Loaded.revision = db.revision
  BY LoadedFact
<1>3. /\ rows \in Seq(Rows) /\ made \in Nat /\ Held(rows) \subseteq 0..made
      /\ faults \in Nat /\ refused = FALSE /\ db.revision \in Nat
      /\ prop \in Sessions /\ try \in Tries /\ ack \in Acks
  BY TypesOf
<1>4. /\ eng' \in Sessions /\ eng'.revision <= db.revision /\ Fresh(eng', rows)
      /\ Ready(eng', rows, made)
  BY <1>1, <1>2, <1>3
<1>5. CASE db.running
  <2>1. /\ prop' = Recorded(WithSummaries(eng'), "run_interrupted", made + 1)
        /\ said' = {made + 1} /\ made' = made + 1 /\ at' = "save"
        /\ try' = [event |-> "run_interrupted", left |-> MaxTries, receipt |-> 0]
    BY <1>1, <1>5 DEF StartRun, Staged, HasRecord
  <2>2. /\ "run_interrupted" \in Kinds /\ "run_interrupted" # "summary"
        /\ "run_interrupted" \in Events /\ "run_interrupted" # "checkpoint"
    BY DEF Kinds, Events
  <2>3. /\ Proposes(eng', prop', rows, made + 1) /\ Fresh(prop', rows)
        /\ made + 1 \in Held(prop'.outbox)
    <3>1. StagesRecord(eng', rows, made, "run_interrupted", prop')
      BY <1>3, <1>4, <2>1, <2>2 DEF StagesRecord
    <3> QED BY <1>4, <3>1, StageRecord
  <2>4. made + 1 \in Nat /\ made <= made + 1
    BY <1>3
  <2>5. Ready(eng', rows, made + 1)
    BY <1>3, <1>4, <2>4, ReadyGrows
  <2>6. said' \subseteq Held(prop'.outbox)
    BY <2>1, <2>3
  <2> QED BY <1>1, <1>3, <1>4, <2>1, <2>2, <2>3, <2>4, <2>5, <2>6, EnterSave
<1>6. CASE ~db.running
  <2>1. at' = "ready" /\ said' = {} /\ prop' = prop /\ try' = try /\ made' = made
    BY <1>6 DEF StartRun
  <2>2. at' \in Points /\ at' \notin {"save", "check"} /\ made <= made
    BY <1>3, <2>1 DEF Points
  <2> QED BY <1>1, <1>3, <1>4, <2>1, <2>2, Continue
<1> QED BY <1>5, <1>6

LEMMA ResumeKeeps ==
    ASSUME TInv, NEW content \in BOOLEAN, Resume(content)
    PROVE  TInv'
<1>1. /\ at = "ready" /\ eng' = (IF content THEN Appended(eng, made + 1) ELSE eng)
      /\ prop' = WithSummaries(eng') /\ said' = said \cup Held(eng'.outbox)
      /\ try' = [event |-> "session_resumed", left |-> MaxTries, receipt |-> 0]
      /\ made' = (IF content THEN made + 1 ELSE made) /\ at' = "save"
      /\ rows' = rows /\ db' = db /\ owner' = owner /\ ack' = ack /\ faults' = faults
      /\ refused' = refused
  BY DEF Resume
<1>2. /\ Ready(eng, rows, made) /\ eng.revision <= db.revision
      /\ eng.revision = db.revision /\ ~eng.reload => Fresh(eng, rows)
      /\ said \subseteq Held(rows) \cup Held(eng.outbox) \cup Held(eng.summaries)
  BY <1>1, EngineOf
<1>3. /\ rows \in Seq(Rows) /\ made \in Nat /\ Held(rows) \subseteq 0..made /\ owner \in BOOLEAN
      /\ faults \in Nat /\ refused = FALSE /\ eng \in Sessions
  BY TypesOf
<1>4. /\ eng' \in Sessions /\ Ready(eng', rows, made') /\ eng'.revision = eng.revision
      /\ eng'.reload = eng.reload /\ (Fresh(eng, rows) => Fresh(eng', rows))
      /\ Held(eng.outbox) \subseteq Held(eng'.outbox) /\ eng'.summaries = eng.summaries
      /\ made' \in Nat /\ made <= made'
  <2>1. CASE content
    <3>1. eng' = Appended(eng, made + 1) /\ made' = made + 1
      BY <1>1, <2>1
    <3>2. NewMessage(eng, rows, made, eng')
      BY <1>2, <1>3, <3>1 DEF NewMessage
    <3>3. made' \in Nat /\ made <= made'
      BY <1>3, <3>1
    <3> QED BY <3>1, <3>2, <3>3, AppendedFact
  <2>2. CASE ~content
    BY <1>1, <1>2, <1>3, <2>2
  <2> QED BY <2>1, <2>2
<1>5. /\ Proposes(eng', prop', rows, made') /\ (Fresh(eng', rows) => Fresh(prop', rows))
      /\ Held(eng'.outbox) \subseteq Held(prop'.outbox)
  BY <1>1, <1>3, <1>4, StageSave
<1>6. "session_resumed" \in Events /\ "session_resumed" # "checkpoint"
  BY DEF Events
<1>7. prop'.summaries = eng'.summaries
  BY <1>5 DEF Proposes
<1>8. said' \subseteq Held(rows) \cup Held(prop'.outbox) \cup Held(prop'.summaries)
  BY <1>1, <1>2, <1>4, <1>5, <1>7
<1>9. eng'.revision <= db.revision
  BY <1>2, <1>4
<1> QED BY <1>1, <1>2, <1>3, <1>4, <1>5, <1>6, <1>8, <1>9, EnterSave

LEMMA BeginKeeps ==
    ASSUME TInv, Begin
    PROVE  TInv'
<1>1. /\ at = "ready" /\ eng' = Recorded(eng, "run_started", made + 1)
      /\ prop' = WithSummaries(eng') /\ said' = said \cup {made + 1}
      /\ try' = [event |-> "checkpoint", left |-> MaxTries, receipt |-> 0]
      /\ made' = made + 1 /\ at' = "save"
      /\ rows' = rows /\ db' = db /\ owner' = owner /\ ack' = ack /\ faults' = faults
      /\ refused' = refused
  BY DEF Begin
<1>2. /\ Ready(eng, rows, made) /\ eng.revision <= db.revision
      /\ eng.revision = db.revision /\ ~eng.reload => Fresh(eng, rows)
      /\ said \subseteq Held(rows) \cup Held(eng.outbox) \cup Held(eng.summaries)
  BY <1>1, EngineOf
<1>3. /\ rows \in Seq(Rows) /\ made \in Nat /\ Held(rows) \subseteq 0..made /\ owner \in BOOLEAN
      /\ faults \in Nat /\ refused = FALSE /\ eng \in Sessions
  BY TypesOf
<1>4. /\ eng' \in Sessions /\ Ready(eng', rows, made') /\ eng'.revision = eng.revision
      /\ eng'.reload = eng.reload /\ (Fresh(eng, rows) => Fresh(eng', rows))
      /\ Held(eng'.outbox) = Held(eng.outbox) \cup {made + 1} /\ eng'.summaries = eng.summaries
      /\ made' \in Nat /\ made <= made'
  <2>1. "run_started" \in Kinds /\ "run_started" # "summary"
    BY DEF Kinds
  <2>2. NewRecord(eng, rows, made, "run_started", eng') /\ Unstaged(eng)
    BY <1>1, <1>2, <1>3, <2>1 DEF NewRecord, Ready
  <2>3. made' \in Nat /\ made <= made'
    BY <1>1, <1>3
  <2> QED BY <1>1, <2>2, <2>3, RecordReady
<1>5. /\ Proposes(eng', prop', rows, made') /\ (Fresh(eng', rows) => Fresh(prop', rows))
      /\ Held(eng'.outbox) \subseteq Held(prop'.outbox)
  BY <1>1, <1>3, <1>4, StageSave
<1>6. "checkpoint" \in Events
  BY DEF Events
<1>7. prop'.summaries = eng'.summaries
  BY <1>5 DEF Proposes
<1>8. said' \subseteq Held(rows) \cup Held(prop'.outbox) \cup Held(prop'.summaries)
  BY <1>1, <1>2, <1>4, <1>5, <1>7
<1>9. eng'.revision <= db.revision
  BY <1>2, <1>4
<1> QED BY <1>1, <1>2, <1>3, <1>4, <1>5, <1>6, <1>8, <1>9, EnterSave

LEMMA SayKeeps ==
    ASSUME TInv, NEW kind \in {"message", "audit"}, Say(kind)
    PROVE  TInv'
<1>1. /\ at = "work" /\ made' = made + 1 /\ said' = said \cup {made + 1}
      /\ eng' = (IF kind = "message" THEN Appended(eng, made + 1) ELSE Recorded(eng, kind, made + 1))
      /\ rows' = rows /\ db' = db /\ owner' = owner /\ prop' = prop /\ try' = try /\ ack' = ack
      /\ at' = at /\ faults' = faults /\ refused' = refused
  BY DEF Say
<1>2. /\ Ready(eng, rows, made) /\ eng.revision <= db.revision
      /\ eng.revision = db.revision /\ ~eng.reload => Fresh(eng, rows)
      /\ said \subseteq Held(rows) \cup Held(eng.outbox) \cup Held(eng.summaries)
  BY <1>1, EngineOf
<1>3. /\ rows \in Seq(Rows) /\ made \in Nat /\ Held(rows) \subseteq 0..made /\ owner \in BOOLEAN
      /\ faults \in Nat /\ refused = FALSE /\ eng \in Sessions /\ prop \in Sessions /\ try \in Tries
      /\ ack \in Acks /\ said \subseteq 0..made /\ at \in Points
  BY TypesOf
<1>4. /\ eng' \in Sessions /\ Ready(eng', rows, made + 1) /\ eng'.revision = eng.revision
      /\ eng'.reload = eng.reload /\ (Fresh(eng, rows) => Fresh(eng', rows))
      /\ Held(eng'.outbox) = Held(eng.outbox) \cup {made + 1} /\ eng'.summaries = eng.summaries
  <2>1. CASE kind = "message"
    <3>1. NewMessage(eng, rows, made, eng')
      BY <1>1, <1>2, <1>3, <2>1 DEF NewMessage
    <3> QED BY <3>1, AppendedFact
  <2>2. CASE kind # "message"
    <3>1. kind \in Kinds /\ kind # "summary" /\ eng' = Recorded(eng, kind, made + 1)
      BY <1>1, <2>2 DEF Kinds
    <3>2. NewRecord(eng, rows, made, kind, eng') /\ Unstaged(eng)
      BY <1>1, <1>2, <1>3, <3>1 DEF NewRecord, Ready
    <3> QED BY <3>2, RecordReady
  <2> QED BY <2>1, <2>2
<1>5. made' \in Nat /\ made <= made' /\ eng'.revision <= db.revision
  BY <1>1, <1>2, <1>3, <1>4
<1>6. said' \subseteq 0..made'
  <2>1. \A x \in 0..made : x \in 0..(made + 1)
    BY <1>3
  <2>2. made + 1 \in 0..(made + 1)
    BY <1>3
  <2> QED BY <1>1, <1>3, <2>1, <2>2
<1>7. said' \subseteq Held(rows) \cup Held(eng'.outbox) \cup Held(eng'.summaries)
  BY <1>1, <1>2, <1>4
<1>8. at' \notin {"save", "check"}
  BY <1>1
<1> QED BY <1>1, <1>2, <1>3, <1>4, <1>5, <1>6, <1>7, <1>8, Continue

\* A checkpoint of the engine, or the save of its failure.
LEMMA SaveKeeps ==
    ASSUME TInv, NEW event \in {"checkpoint", "error"}, Save(eng, event),
           (event = "checkpoint" /\ at = "work") \/ (event = "error" /\ at = "fail"),
           rows' = rows, db' = db, owner' = owner, eng' = eng, ack' = ack, faults' = faults,
           refused' = refused
    PROVE  TInv'
<1>1. /\ prop' = WithSummaries(eng') /\ made' = made /\ at' = "save"
      /\ try' = [event |-> event, left |-> MaxTries, receipt |-> 0]
      /\ said' = said \cup Held(prop'.outbox)
  <2>1. ~HasRecord(event)
    BY DEF HasRecord
  <2> QED BY <2>1 DEF Save, Staged
<1>2. /\ Ready(eng, rows, made) /\ eng.revision <= db.revision
      /\ eng.revision = db.revision /\ ~eng.reload =>
            Fresh(eng, rows) \/ (at = "fail" /\ Stored(WithSummaries(eng), rows))
      /\ said \subseteq Held(rows) \cup Held(eng.outbox) \cup Held(eng.summaries)
  BY EngineOf
<1>3. /\ rows \in Seq(Rows) /\ made \in Nat /\ owner \in BOOLEAN
      /\ faults \in Nat /\ refused = FALSE /\ eng \in Sessions
  BY TypesOf
<1>4. /\ Proposes(eng', prop', rows, made) /\ (Fresh(eng', rows) => Fresh(prop', rows))
      /\ Held(eng'.outbox) \subseteq Held(prop'.outbox)
  BY <1>1, <1>2, <1>3, StageSave
<1>5. prop'.summaries = eng'.summaries
  BY <1>4 DEF Proposes
<1>6. said' \subseteq Held(rows) \cup Held(prop'.outbox) \cup Held(prop'.summaries)
  BY <1>1, <1>2, <1>4, <1>5
<1>7. event \in Events /\ made <= made
  BY <1>3 DEF Events
<1>8. eng'.revision = db.revision /\ ~eng'.reload =>
        /\ Fresh(prop', rows) \/ Stored(prop', rows)
        /\ event = "checkpoint" => Fresh(eng', rows)
  BY <1>1, <1>2, <1>4
<1> QED BY <1>1, <1>2, <1>3, <1>4, <1>6, <1>7, <1>8, EnterSave

LEMMA SaveFinishedKeeps ==
    ASSUME TInv, SaveFinished
    PROVE  TInv'
<1>1. /\ prop' = Recorded(WithSummaries(eng'), "run_finished", made + 1) /\ made' = made + 1
      /\ try' = [event |-> "run_finished", left |-> MaxTries, receipt |-> 0]
      /\ said' = said \cup Held(prop'.outbox) /\ at' = "save" /\ at \in {"finish", "work"}
      /\ rows' = rows /\ db' = db /\ owner' = owner /\ eng' = eng /\ ack' = ack
      /\ faults' = faults /\ refused' = refused
  <2>1. HasRecord("run_finished")
    BY DEF HasRecord
  <2> QED BY <2>1 DEF SaveFinished, Save, Staged
<1>2. /\ Ready(eng, rows, made) /\ eng.revision <= db.revision
      /\ eng.revision = db.revision /\ ~eng.reload => Fresh(eng, rows)
      /\ said \subseteq Held(rows) \cup Held(eng.outbox) \cup Held(eng.summaries)
  BY <1>1, EngineOf
<1>3. /\ rows \in Seq(Rows) /\ made \in Nat /\ owner \in BOOLEAN /\ Held(rows) \subseteq 0..made
      /\ faults \in Nat /\ refused = FALSE /\ eng \in Sessions
  BY TypesOf
<1>4. /\ "run_finished" \in Kinds /\ "run_finished" # "summary"
      /\ "run_finished" \in Events /\ "run_finished" # "checkpoint"
  BY DEF Kinds, Events
<1>5. /\ Proposes(eng', prop', rows, made + 1) /\ (Fresh(eng', rows) => Fresh(prop', rows))
      /\ Held(eng'.outbox) \subseteq Held(prop'.outbox)
  <2>1. StagesRecord(eng', rows, made, "run_finished", prop')
    BY <1>1, <1>2, <1>3, <1>4 DEF StagesRecord
  <2> QED BY <2>1, StageRecord
<1>6. prop'.summaries = eng'.summaries
  BY <1>5 DEF Proposes
<1>7. said' \subseteq Held(rows) \cup Held(prop'.outbox) \cup Held(prop'.summaries)
  BY <1>1, <1>2, <1>5, <1>6
<1>8. made + 1 \in Nat /\ made <= made + 1
  BY <1>3
<1>9. Ready(eng', rows, made + 1)
  BY <1>1, <1>2, <1>3, <1>8, ReadyGrows
<1> QED BY <1>1, <1>2, <1>3, <1>4, <1>5, <1>7, <1>8, <1>9, EnterSave

\* Steps that only move the control of the worker.
LEMMA MoveKeeps ==
    ASSUME TInv, rows' = rows, db' = db, eng' = eng, prop' = prop, ack' = ack, made' = made,
           said' = said, refused' = refused, owner' \in BOOLEAN, faults' \in Nat, try' \in Tries,
           at' \in Points, at' \notin {"save", "check"},
           \/ at' = "idle"
           \/ at = "work" /\ at' = "error"
           \/ at = "error" /\ at' = "fail"
           \/ at = "check" /\ at' = "error"
           \/ at = "save" /\ Clone /\ at' = "error"
    PROVE  TInv'
<1>1. /\ rows \in Seq(Rows) /\ made \in Nat /\ refused = FALSE /\ eng \in Sessions
      /\ prop \in Sessions /\ ack \in Acks /\ said \subseteq 0..made /\ try.receipt \in Nat
      /\ Ids = Held(rows) /\ db.revision \in Nat /\ eng.revision \in Nat
  BY TypesOf
<1>2. made <= made
  BY <1>1
<1>3. CASE at' = "idle"
  BY <1>1, <1>2, <1>3, Continue
<1>4. CASE at' # "idle"
  <2>1. /\ Ready(eng, rows, made) /\ eng.revision <= db.revision /\ at' \in {"error", "fail"}
    BY <1>4, EngineOf
  <2>2. said \subseteq Held(rows) \cup Held(eng.outbox) \cup Held(eng.summaries)
    <3>1. CASE at # "save"
      BY <1>4, <3>1, EngineOf
    <3>2. CASE at = "save"
      <4>1. /\ prop = WithSummaries(eng) /\ Proposes(eng, prop, rows, made)
            /\ said \subseteq Ids \cup Held(prop.outbox) \cup Held(prop.summaries)
        BY <1>4, <3>2 DEF TInv, SaveInv
      <4>2. Held(prop.outbox) \subseteq Held(eng.outbox) \cup Held(eng.summaries)
        BY <1>1, <2>1, <4>1, StageSave
      <4>3. prop.summaries = eng.summaries
        BY <4>1 DEF Proposes
      <4> QED BY <1>1, <4>1, <4>2, <4>3
    <3> QED BY <3>1, <3>2
  <2>3. eng.revision = db.revision /\ ~eng.reload =>
          Fresh(eng, rows) \/ Stored(WithSummaries(eng), rows)
    <3> SUFFICES ASSUME eng.revision = db.revision, ~eng.reload
                 PROVE  Fresh(eng, rows) \/ Stored(WithSummaries(eng), rows)
      OBVIOUS
    <3>1. CASE at \in {"work", "error"}
      BY <3>1, EngineOf
    <3>2. CASE at = "check"
      BY <3>2 DEF TInv, CheckInv, UpToDate
    <3>3. CASE at = "save"
      <4>1. CASE try.receipt = 0
        BY <1>4, <3>3, <4>1 DEF TInv, SaveInv, UpToDate
      <4>2. CASE try.receipt # 0
        <5>1. eng.revision < try.receipt /\ try.receipt <= db.revision
          BY <3>3, <4>2 DEF TInv, SaveInv
        <5> QED BY <1>1, <5>1
      <4> QED BY <4>1, <4>2
    <3> QED BY <1>4, <3>1, <3>2, <3>3
  <2> QED BY <1>1, <1>2, <2>1, <2>2, <2>3, Continue
<1> QED BY <1>3, <1>4

\* A try that leaves the save going.
LEMMA RetryKeeps ==
    ASSUME TInv, at = "save", at' = at, rows' = rows, db' = db, eng' = eng, prop' = prop, ack' = ack,
           made' = made, said' = said, refused' = refused, owner' \in BOOLEAN, faults' \in Nat,
           try' \in Tries, try'.event = try.event, try'.receipt = try.receipt
    PROVE  TInv'
<1>1. Ids' = Ids
  BY DEF Ids
<1>2. TranscriptTypes'
  BY <1>1 DEF TInv, TranscriptTypes
<1>3. TableInv'
  BY DEF TInv, TableInv
<1>4. UpToDate' = UpToDate /\ Clone' = Clone
  BY DEF UpToDate, Clone
<1>5. EngineInv'
  BY <1>1, <1>4 DEF TInv, EngineInv
<1>6. SaveInv'
  BY <1>1, <1>4 DEF TInv, SaveInv
<1>7. CheckInv'
  BY DEF CheckInv
<1> QED BY <1>2, <1>3, <1>5, <1>6, <1>7 DEF TInv

LEMMA TryFailsKeeps ==
    ASSUME TInv, NEW transport \in BOOLEAN, TryFails(transport)
    PROVE  TInv'
<1>1. /\ at = "save" /\ faults' = faults + 1 /\ try' = [try EXCEPT !.left = @ - 1]
      /\ rows' = rows /\ db' = db /\ eng' = eng /\ prop' = prop /\ ack' = ack /\ made' = made
      /\ said' = said /\ refused' = refused
  BY DEF TryFails
<1>2. /\ faults \in Nat /\ try \in Tries /\ owner \in BOOLEAN
  BY TypesOf
<1>3. faults' \in Nat
  BY <1>1, <1>2
<1>4. try' \in Tries /\ try'.event = try.event /\ try'.receipt = try.receipt
  BY <1>1, <1>2 DEF Tries
<1>5. CASE at' = at /\ owner' = owner
  BY <1>1, <1>2, <1>3, <1>4, <1>5, RetryKeeps
<1>6. CASE Leave
  <2>1. at' = "idle" /\ owner' \in BOOLEAN /\ at' \in Points /\ at' \notin {"save", "check"}
    BY <1>6 DEF Leave, Points
  <2> QED BY <1>1, <1>3, <1>4, <2>1, MoveKeeps
<1>7. CASE Clone /\ at' = "error" /\ owner' = owner
  <2>1. owner' \in BOOLEAN /\ at' \in Points /\ at' \notin {"save", "check"}
    BY <1>2, <1>7 DEF Points
  <2> QED BY <1>1, <1>3, <1>4, <1>7, <2>1, MoveKeeps
<1> QED BY <1>5, <1>6, <1>7 DEF TryFails, Fail

\* The proposal of the worker that owns the session at the stored revision is
\* acceptable, so nothing is refused.
LEMMA RefuseKeeps ==
    ASSUME TInv, RefuseSave
    PROVE  TInv'
<1>1. /\ at = "save" /\ Fail
      /\ eng.reload \/ (try.receipt = 0 /\ ~(Current /\ Acceptable(prop)))
      /\ refused' = (refused \/ (~eng.reload /\ Current))
      /\ rows' = rows /\ db' = db /\ eng' = eng /\ prop' = prop /\ try' = try /\ ack' = ack
      /\ made' = made /\ faults' = faults /\ said' = said
  BY DEF RefuseSave
<1>2. faults \in Nat /\ try \in Tries /\ owner \in BOOLEAN /\ refused = FALSE
  BY TypesOf
<1>3. ~(~eng.reload /\ Current)
  <2> SUFFICES ASSUME ~eng.reload, Current PROVE FALSE
    OBVIOUS
  <2>1. try.receipt = 0 /\ UpToDate
    BY <1>1 DEF Current, UpToDate
  <2>2. Acceptable(prop)
    BY <1>1, <2>1, AcceptFact
  <2> QED BY <1>1, <2>2
<1>4. refused' = refused
  BY <1>1, <1>2, <1>3
<1>5. CASE Leave
  <2>1. at' = "idle" /\ owner' \in BOOLEAN /\ at' \in Points /\ at' \notin {"save", "check"}
    BY <1>5 DEF Leave, Points
  <2> QED BY <1>1, <1>2, <1>4, <2>1, MoveKeeps
<1>6. CASE Clone /\ at' = "error" /\ owner' = owner
  <2>1. owner' \in BOOLEAN /\ at' \in Points /\ at' \notin {"save", "check"}
    BY <1>2, <1>6 DEF Points
  <2> QED BY <1>1, <1>2, <1>4, <1>6, <2>1, MoveKeeps
<1> QED BY <1>1, <1>5, <1>6 DEF Fail

LEMMA MovesKeep ==
    ASSUME TInv, EmitFails \/ EngineFails \/ Crash \/ \E streamed \in BOOLEAN : HandleError(streamed)
    PROVE  TInv'
<1>1. faults \in Nat /\ try \in Tries /\ owner \in BOOLEAN /\ refused = FALSE /\ faults + 1 \in Nat
  <2>1. faults \in Nat /\ try \in Tries /\ owner \in BOOLEAN /\ refused = FALSE
    BY TypesOf
  <2> QED BY <2>1
<1>2. {"idle", "error", "fail"} \subseteq Points
  BY DEF Points
<1>3. CASE EmitFails
  BY <1>1, <1>2, <1>3, MoveKeeps DEF EmitFails
<1>4. CASE EngineFails
  BY <1>1, <1>2, <1>4, MoveKeeps DEF EngineFails
<1>5. CASE Crash
  BY <1>1, <1>2, <1>5, MoveKeeps DEF Crash
<1>6. ASSUME NEW streamed \in BOOLEAN, HandleError(streamed) PROVE TInv'
  <2>1. CASE at' = "fail" /\ owner' = owner
    BY <1>1, <1>2, <1>6, <2>1, MoveKeeps DEF HandleError
  <2>2. CASE Leave
    <3>1. at' = "idle" /\ owner' \in BOOLEAN
      BY <2>2 DEF Leave
    <3> QED BY <1>1, <1>2, <1>6, <3>1, MoveKeeps DEF HandleError
  <2> QED BY <1>6, <2>1, <2>2 DEF HandleError
<1> QED BY <1>3, <1>4, <1>5, <1>6

\* The messages that stay when a summary of those up to the n-th is accepted.
Keeps(m, n, kept) ==
    /\ m \in Seq(Refs) /\ GoalFirst(m) /\ n \in 2..Len(m)
    /\ kept = <<m[1]>> \o SubSeq(m, n + 1, Len(m))

LEMMA KeptFact ==
    ASSUME NEW m, NEW n, NEW kept, Keeps(m, n, kept)
    PROVE  /\ kept \in Seq(Refs) /\ GoalFirst(kept)
           /\ \A i \in DOMAIN kept : \E j \in DOMAIN m : kept[i] = m[j]
           /\ Held(Tail(kept)) \subseteq Held(m)
<1> DEFINE a == <<m[1]>>
           b == SubSeq(m, n + 1, Len(m))
           k == Len(m)
<1>0. /\ m \in Seq(Refs) /\ GoalFirst(m) /\ n \in 2..Len(m)
      /\ kept = <<m[1]>> \o SubSeq(m, n + 1, Len(m))
  BY DEF Keeps
<1> USE <1>0
<1>1. /\ m # <<>> /\ m[1].id = 1 /\ \A i, j \in DOMAIN m : i < j => m[i].id < m[j].id
      /\ k \in Nat /\ DOMAIN m = 1..k /\ n \in Nat /\ n >= 2 /\ n <= k /\ 1 \in DOMAIN m
      /\ m[1] \in Refs
  BY DEF GoalFirst
<1>2. a \in Seq(Refs) /\ Len(a) = 1 /\ a[1] = m[1] /\ DOMAIN a = {1}
  BY <1>1, OneFact
<1>3. /\ b \in Seq(Refs) /\ Len(b) = k - n /\ DOMAIN b = 1..(k - n)
      /\ \A i \in 1..(k - n) : b[i] = m[n + i] /\ n + i \in DOMAIN m
  <2>1. n + 1 \in Int /\ k \in Int /\ \A i \in (n + 1)..k : m[i] \in Refs
    BY <1>1
  <2>2. /\ b \in Seq(Refs) /\ Len(b) = (IF n + 1 <= k THEN k - (n + 1) + 1 ELSE 0)
        /\ \A i \in 1..(k - (n + 1) + 1) : b[i] = m[(n + 1) + i - 1]
    BY <2>1, SubSeqProperties
  <2> HIDE DEF b, k
  <2>3. k - (n + 1) + 1 = k - n
    BY <1>1
  <2>4. Len(b) = k - n
    BY <1>1, <2>2
  <2>5. \A i \in 1..(k - n) : (n + 1) + i - 1 = n + i /\ n + i \in 1..k
    BY <1>1
  <2>6. \A i \in 1..(k - n) : b[i] = m[n + i] /\ n + i \in DOMAIN m
    <3> SUFFICES ASSUME NEW i \in 1..(k - n) PROVE b[i] = m[n + i] /\ n + i \in DOMAIN m
      OBVIOUS
    <3>1. b[i] = m[(n + 1) + i - 1]
      BY <2>2, <2>3
    <3> QED BY <1>1, <2>5, <3>1
  <2>7. DOMAIN b = 1..(k - n)
    BY <2>2, <2>4
  <2> QED BY <2>2, <2>4, <2>6, <2>7
<1> HIDE DEF a, b
<1>4. /\ kept \in Seq(Refs) /\ Len(kept) = 1 + Len(b)
      /\ kept[1] = m[1] /\ 1 \in DOMAIN kept
      /\ \A j \in DOMAIN b : 1 + j \in DOMAIN kept /\ kept[1 + j] = b[j]
      /\ \A i \in DOMAIN kept : i = 1 \/ \E j \in DOMAIN b : i = 1 + j
  <2>1. kept = a \o b
    BY DEF a, b
  <2>2. /\ a \o b \in Seq(Refs) /\ Len(a \o b) = Len(a) + Len(b)
        /\ \A i \in DOMAIN a : i \in DOMAIN (a \o b) /\ (a \o b)[i] = a[i]
        /\ \A j \in DOMAIN b : Len(a) + j \in DOMAIN (a \o b) /\ (a \o b)[Len(a) + j] = b[j]
        /\ \A i \in DOMAIN (a \o b) : i \in DOMAIN a \/ \E j \in DOMAIN b : i = Len(a) + j
    <3>1. a \in Seq(Refs) /\ b \in Seq(Refs)
      BY <1>2, <1>3
    <3> QED BY <3>1, ConcatFact
  <2> DEFINE c == a \o b
  <2> HIDE DEF c
  <2>3. /\ c \in Seq(Refs) /\ Len(c) = 1 + Len(b)
        /\ c[1] = m[1] /\ 1 \in DOMAIN c
        /\ \A j \in DOMAIN b : 1 + j \in DOMAIN c /\ c[1 + j] = b[j]
        /\ \A i \in DOMAIN c : i = 1 \/ \E j \in DOMAIN b : i = 1 + j
    BY <1>2, <2>2 DEF c
  <2>4. kept = c
    BY <2>1 DEF c
  <2> QED BY <2>3, <2>4
<1> DEFINE at_(i) == IF i = 1 THEN 1 ELSE n + (i - 1)
<1>5. ASSUME NEW i \in DOMAIN kept
      PROVE  i \in Int /\ at_(i) \in DOMAIN m /\ kept[i] = m[at_(i)]
  <2>1. CASE i = 1
    BY <1>1, <1>4, <2>1
  <2>2. ASSUME NEW j \in DOMAIN b, i = 1 + j PROVE i \in Int /\ at_(i) \in DOMAIN m /\ kept[i] = m[at_(i)]
    <3>1. j \in 1..(k - n) /\ kept[i] = b[j] /\ b[j] = m[n + j] /\ n + j \in DOMAIN m
      BY <1>3, <1>4, <2>2
    <3>2. i # 1 /\ n + (i - 1) = n + j /\ i \in Int
      BY <1>1, <2>2, <3>1
    <3> QED BY <3>1, <3>2
  <2> QED BY <1>4, <2>1, <2>2
<1>6. ASSUME NEW i \in DOMAIN kept, NEW j \in DOMAIN kept, i < j PROVE kept[i].id < kept[j].id
  <2>1. i \in Int /\ j \in Int /\ i >= 1
    BY <1>4, <1>5
  <2>2. at_(i) < at_(j)
    BY <1>1, <1>6, <2>1
  <2>3. at_(i) \in DOMAIN m /\ at_(j) \in DOMAIN m /\ kept[i] = m[at_(i)] /\ kept[j] = m[at_(j)]
    BY <1>5
  <2> HIDE DEF at_
  <2> QED BY <1>1, <2>2, <2>3
<1>7. GoalFirst(kept)
  <2>1. kept # <<>> /\ kept[1].id = 1
    BY <1>1, <1>4
  <2> QED BY <1>6, <2>1 DEF GoalFirst
<1>8. \A i \in DOMAIN kept : \E j \in DOMAIN m : kept[i] = m[j]
  BY <1>5
<1>9. Held(Tail(kept)) \subseteq Held(m)
  <2> SUFFICES ASSUME NEW id \in Held(Tail(kept)) PROVE id \in Held(m)
    OBVIOUS
  <2> DEFINE t == Tail(kept)
  <2>1. kept # <<>>
    BY <1>4
  <2>2. /\ t \in Seq(Refs) /\ Len(t) = Len(kept) - 1
        /\ \A i \in 1..Len(t) : t[i] = kept[i + 1]
    BY <1>4, <2>1, HeadTailProperties
  <2>3. id \in Held(t)
    OBVIOUS
  <2> HIDE DEF t
  <2>4. PICK i \in DOMAIN t : id = t[i].id
    BY <2>3 DEF Held
  <2>5. i \in 1..Len(t) /\ i + 1 \in DOMAIN kept
    BY <1>4, <2>2
  <2>6. id = kept[i + 1].id
    BY <2>2, <2>4, <2>5
  <2>7. PICK j \in DOMAIN m : kept[i + 1] = m[j]
    BY <1>8, <2>5
  <2> QED BY <2>6, <2>7 DEF Held
<1> QED BY <1>4, <1>7, <1>8, <1>9

\* t is s with the new summary x, whose sources and retained messages are
\* messages of s.
Summarised(s, t, x, r, n) ==
    /\ s \in Sessions /\ t \in Sessions /\ x \in SummaryRecords /\ r \in Seq(Rows) /\ n \in Nat
    /\ Ready(s, r, n) /\ Held(r) \subseteq 0..n
    /\ \A i \in DOMAIN s.outbox : s.outbox[i].kind # "message"
    /\ x.id = n + 1 /\ x.prior = s.ledger /\ x.sources # <<>>
    /\ \A i \in DOMAIN x.sources : \E j \in DOMAIN s.memory : x.sources[i] = s.memory[j].id
    /\ \A i, j \in DOMAIN x.sources : i < j => x.sources[i] < x.sources[j]
    /\ x.retained \subseteq Held(s.memory)
    /\ GoalFirst(t.memory)
    /\ \A i \in DOMAIN t.memory : \E j \in DOMAIN s.memory : t.memory[i] = s.memory[j]
    /\ t.ledger = n + 1 /\ t.outbox = s.outbox /\ t.next = s.next /\ t.committed = s.committed
    /\ Held(t.summaries) = Held(s.summaries) \cup {n + 1}
    /\ \A i \in DOMAIN t.summaries :
          \/ i \in DOMAIN s.summaries /\ t.summaries[i] = s.summaries[i]
          \/ i = Len(s.summaries) + 1 /\ t.summaries[i] = x

LEMMA SummarisedFact ==
    ASSUME NEW s, NEW t, NEW x, NEW r, NEW n, Summarised(s, t, x, r, n)
    PROVE  Ready(t, r, n + 1) /\ (Fresh(s, r) => Fresh(t, r))
<1>0. /\ s \in Sessions /\ t \in Sessions /\ x \in SummaryRecords /\ r \in Seq(Rows) /\ n \in Nat
      /\ Sound(s, r) /\ Below(s, n) /\ Unstaged(s) /\ Held(r) \subseteq 0..n
      /\ \A i \in DOMAIN s.outbox : s.outbox[i].kind # "message"
      /\ x.id = n + 1 /\ x.prior = s.ledger /\ x.sources # <<>>
      /\ \A i \in DOMAIN x.sources : \E j \in DOMAIN s.memory : x.sources[i] = s.memory[j].id
      /\ \A i, j \in DOMAIN x.sources : i < j => x.sources[i] < x.sources[j]
      /\ x.retained \subseteq Held(s.memory)
      /\ GoalFirst(t.memory)
      /\ \A i \in DOMAIN t.memory : \E j \in DOMAIN s.memory : t.memory[i] = s.memory[j]
      /\ t.ledger = n + 1 /\ t.outbox = s.outbox /\ t.next = s.next /\ t.committed = s.committed
      /\ Held(t.summaries) = Held(s.summaries) \cup {n + 1}
      /\ \A i \in DOMAIN t.summaries :
            \/ i \in DOMAIN s.summaries /\ t.summaries[i] = s.summaries[i]
            \/ i = Len(s.summaries) + 1 /\ t.summaries[i] = x
  BY DEF Summarised, Ready
<1>1. \A i \in DOMAIN s.memory : In(r, s.memory[i].id, "message")
  BY <1>0 DEF Sound, HasMessages
<1>2. \A id \in Held(s.memory) : In(r, id, "message")
  BY <1>1 DEF Held
<1>3. HasMessages(t, r)
  BY <1>0, <1>1 DEF HasMessages
<1>4. n + 1 \notin Held(r) /\ n + 1 \notin Held(s.outbox) /\ n + 1 \notin Held(s.summaries)
  <2>1. ~(n + 1 \in 0..n)
    BY <1>0
  <2> QED BY <1>0, <2>1 DEF Below
<1>5. SoundSummary(t, r, x)
  <2>1. \A i \in DOMAIN x.sources : In(r, x.sources[i], "message")
    BY <1>0, <1>1
  <2>2. \A id \in x.retained : In(r, id, "message")
    BY <1>0, <1>2
  <2>3. x.prior # 0 => In(r, x.prior, "summary") \/ x.prior \in Held(t.summaries)
    BY <1>0 DEF Sound, SummariesSound
  <2> QED BY <1>0, <2>1, <2>2, <2>3 DEF SoundSummary
<1>6. ASSUME NEW i \in DOMAIN t.summaries PROVE SoundSummary(t, r, t.summaries[i])
  <2>1. CASE i \in DOMAIN s.summaries /\ t.summaries[i] = s.summaries[i]
    <3>1. SoundSummary(s, r, s.summaries[i])
      BY <1>0, <2>1 DEF Sound, SummariesSound
    <3>2. SoundSummary(t, r, s.summaries[i])
      BY <1>0, <3>1 DEF SoundSummary
    <3> QED BY <2>1, <3>2
  <2>2. CASE t.summaries[i] = x
    BY <1>5, <2>2
  <2> QED BY <1>0, <2>1, <2>2
<1>7. DistinctIds(t.summaries)
  <2> SUFFICES ASSUME NEW i \in DOMAIN t.summaries, NEW k \in DOMAIN t.summaries,
                      t.summaries[i].id = t.summaries[k].id
               PROVE  i = k
    BY DEF DistinctIds
  <2>1. \A j \in DOMAIN s.summaries : s.summaries[j].id # n + 1
    BY <1>4 DEF Held
  <2>2. CASE i \in DOMAIN s.summaries /\ t.summaries[i] = s.summaries[i]
             /\ k \in DOMAIN s.summaries /\ t.summaries[k] = s.summaries[k]
    BY <1>0, <2>2 DEF Sound, SummariesSound, DistinctIds
  <2>3. CASE i \in DOMAIN s.summaries /\ t.summaries[i] = s.summaries[i] /\ t.summaries[k] = x
    BY <1>0, <2>1, <2>3
  <2>4. CASE k \in DOMAIN s.summaries /\ t.summaries[k] = s.summaries[k] /\ t.summaries[i] = x
    BY <1>0, <2>1, <2>4
  <2>5. CASE i = Len(s.summaries) + 1 /\ k = Len(s.summaries) + 1
    BY <2>5
  <2> QED BY <1>0, <2>2, <2>3, <2>4, <2>5
<1>8. SummariesSound(t, r)
  <2>1. \A id \in Held(t.summaries) : id \in Held(r) => In(r, id, "summary")
    BY <1>0, <1>4 DEF Sound, SummariesSound
  <2>2. t.ledger \in Held(t.summaries) /\ t.committed \subseteq Held(r)
    BY <1>0 DEF Sound, SummariesSound
  <2> QED BY <1>6, <1>7, <2>1, <2>2 DEF SummariesSound
<1>9. OutboxSound(t) /\ Unstaged(t)
  <2>1. \A i \in DOMAIN s.outbox : s.outbox[i].id \in Held(s.outbox)
    BY DEF Held
  <2>2. \A i \in DOMAIN s.outbox : s.outbox[i].id # n + 1
    BY <1>4, <2>1
  <2>3. \A i \in DOMAIN s.outbox :
           s.outbox[i].kind = "summary" <=> s.outbox[i].id \in Held(s.summaries)
    BY <1>0 DEF Sound, OutboxSound
  <2>4. \A i \in DOMAIN s.outbox :
           s.outbox[i].kind = "summary" <=> s.outbox[i].id \in Held(t.summaries)
    BY <1>0, <2>2, <2>3
  <2> QED BY <1>0, <2>4 DEF Sound, OutboxSound, Unstaged
<1>10. Below(t, n + 1)
  <2>1. \A y \in 0..n : y \in 0..(n + 1)
    BY <1>0
  <2>2. n + 1 \in 0..(n + 1)
    BY <1>0
  <2> QED BY <1>0, <2>1, <2>2 DEF Below
<1>11. ASSUME Fresh(s, r) PROVE Fresh(t, r)
  <2>1. \A id \in Held(t.summaries) : id \in Held(r) => id \in t.committed
    BY <1>0, <1>4, <1>11 DEF Fresh
  <2> QED BY <1>0, <1>11, <2>1 DEF Fresh
<1> QED BY <1>0, <1>3, <1>8, <1>9, <1>10, <1>11 DEF Ready, Sound

LEMMA AcceptKeeps ==
    ASSUME TInv, NEW n, AcceptSummary(n)
    PROVE  TInv'
<1> DEFINE m == eng.memory
           kept == <<m[1]>> \o SubSeq(m, n + 1, Len(m))
           source == [i \in 1..(n - 1) |-> m[i + 1].id]
           x == [id |-> made + 1, prior |-> eng.ledger, sources |-> source, retained |-> Held(Tail(kept))]
           q == Append(eng.summaries, x)
<1>1. /\ at = "work" /\ n \in 2..Len(m) /\ \A i \in DOMAIN eng.outbox : eng.outbox[i].kind # "message"
      /\ eng' = [eng EXCEPT !.memory = kept, !.ledger = made + 1, !.summaries = q]
      /\ made' = made + 1 /\ said' = said \cup {made + 1}
      /\ rows' = rows /\ db' = db /\ owner' = owner /\ prop' = prop /\ try' = try /\ ack' = ack
      /\ at' = at /\ faults' = faults /\ refused' = refused
  BY DEF AcceptSummary
<1>2. /\ Ready(eng, rows, made) /\ eng.revision <= db.revision
      /\ eng.revision = db.revision /\ ~eng.reload => Fresh(eng, rows)
      /\ said \subseteq Held(rows) \cup Held(eng.outbox) \cup Held(eng.summaries)
  BY <1>1, EngineOf
<1>3. /\ rows \in Seq(Rows) /\ made \in Nat /\ Held(rows) \subseteq 0..made /\ owner \in BOOLEAN
      /\ faults \in Nat /\ refused = FALSE /\ eng \in Sessions /\ prop \in Sessions /\ try \in Tries
      /\ ack \in Acks /\ said \subseteq 0..made /\ at \in Points
  BY TypesOf
<1>4. /\ m \in Seq(Refs) /\ DOMAIN m = 1..Len(m) /\ Len(m) \in Nat /\ GoalFirst(m)
      /\ \A i \in DOMAIN m : m[i].id \in Nat
      /\ eng.summaries \in Seq(SummaryRecords) /\ eng.ledger \in Nat
  BY <1>2, <1>3, SessionFields DEF Ready, Sound
<1>5. /\ kept \in Seq(Refs) /\ GoalFirst(kept)
      /\ \A i \in DOMAIN kept : \E j \in DOMAIN m : kept[i] = m[j]
      /\ Held(Tail(kept)) \subseteq Held(m)
  <2> HIDE DEF m
  <2>1. Keeps(m, n, kept)
    BY <1>1, <1>4 DEF Keeps
  <2> HIDE DEF kept
  <2> QED BY <2>1, KeptFact
<1> HIDE DEF kept, m
<1>6. /\ source \in Seq(Nat) /\ source # <<>> /\ DOMAIN source = 1..(n - 1)
      /\ \A i \in DOMAIN source : \E j \in DOMAIN m : source[i] = m[j].id
      /\ \A i, j \in DOMAIN source : i < j => source[i] < source[j]
  <2>1. \A i \in 1..(n - 1) : i + 1 \in DOMAIN m /\ m[i + 1].id \in Nat
    BY <1>1, <1>4 DEF m
  <2>2. n - 1 \in Nat /\ n - 1 >= 1
    BY <1>1, <1>4 DEF m
  <2>3. source \in Seq(Nat) /\ DOMAIN source = 1..(n - 1)
    BY <2>1, <2>2
  <2>4. source # <<>>
    <3>1. 1 \in DOMAIN source
      BY <2>2, <2>3
    <3> QED BY <3>1
  <2>5. \A i \in 1..(n - 1) : source[i] = m[i + 1].id
    OBVIOUS
  <2> HIDE DEF source
  <2>6. ASSUME NEW i \in DOMAIN source, NEW j \in DOMAIN source, i < j PROVE source[i] < source[j]
    <3>1. i + 1 \in DOMAIN m /\ j + 1 \in DOMAIN m /\ i + 1 < j + 1
      BY <2>1, <2>2, <2>3, <2>6
    <3>2. m[i + 1].id < m[j + 1].id
      BY <1>4, <3>1 DEF GoalFirst
    <3> QED BY <2>3, <2>5, <3>2
  <2> QED BY <2>1, <2>3, <2>4, <2>5, <2>6
<1> HIDE DEF source
<1>7. x \in SummaryRecords
  <2>1. Held(m) \subseteq Nat
    BY <1>4 DEF Held
  <2>2. Held(Tail(kept)) \in SUBSET Nat /\ made + 1 \in Nat
    BY <1>3, <1>5, <2>1
  <2> QED BY <1>4, <1>6, <2>2 DEF SummaryRecords
<1>8. x.id = made + 1 /\ x.prior = eng.ledger /\ x.sources = source /\ x.retained = Held(Tail(kept))
  OBVIOUS
<1> HIDE DEF x
<1>9. /\ q \in Seq(SummaryRecords)
      /\ Held(q) = Held(eng.summaries) \cup {made + 1}
      /\ \A i \in DOMAIN q :
            \/ i \in DOMAIN eng.summaries /\ q[i] = eng.summaries[i]
            \/ i = Len(eng.summaries) + 1 /\ q[i] = x
  <2> DEFINE a == eng.summaries
             b == <<x>>
  <2>1. a \in Seq(SummaryRecords)
    BY <1>4
  <2>2. b \in Seq(SummaryRecords) /\ Len(b) = 1 /\ b[1] = x /\ DOMAIN b = {1} /\ Held(b) = {made + 1}
    BY <1>7, <1>8, OneFact
  <2>3. q = a \o b
    BY <1>7, <2>1, AppendIsConcat
  <2> HIDE DEF a, b, q
  <2> DEFINE c == a \o b
  <2>4. /\ c \in Seq(SummaryRecords)
        /\ \A i \in DOMAIN a : i \in DOMAIN c /\ c[i] = a[i]
        /\ \A j \in DOMAIN b : Len(a) + j \in DOMAIN c /\ c[Len(a) + j] = b[j]
        /\ \A i \in DOMAIN c : i \in DOMAIN a \/ \E j \in DOMAIN b : i = Len(a) + j
        /\ Held(c) = Held(a) \cup Held(b)
    BY <2>1, <2>2, ConcatFact
  <2> HIDE DEF c
  <2>5. q = c
    BY <2>3 DEF c
  <2>6. \A i \in DOMAIN c : (i \in DOMAIN a /\ c[i] = a[i]) \/ (i = Len(a) + 1 /\ c[i] = x)
    BY <2>2, <2>4
  <2> QED BY <2>2, <2>4, <2>5, <2>6 DEF a
<1> HIDE DEF q
<1>10. /\ eng' \in Sessions /\ eng'.memory = kept /\ eng'.ledger = made + 1 /\ eng'.summaries = q
       /\ eng'.outbox = eng.outbox /\ eng'.next = eng.next /\ eng'.committed = eng.committed
       /\ eng'.revision = eng.revision /\ eng'.reload = eng.reload
  <2>1. made + 1 \in Nat
    BY <1>3
  <2> QED BY <1>1, <1>3, <1>5, <1>9, <2>1 DEF Sessions
<1>11. Summarised(eng, eng', x, rows, made)
  BY <1>1, <1>2, <1>3, <1>5, <1>6, <1>7, <1>8, <1>9, <1>10 DEF Summarised, m
<1>12. Ready(eng', rows, made + 1) /\ (Fresh(eng, rows) => Fresh(eng', rows))
  BY <1>11, SummarisedFact
<1>13. made' \in Nat /\ made <= made' /\ eng'.revision <= db.revision
  BY <1>1, <1>2, <1>3, <1>10
<1>14. said' \subseteq 0..made'
  <2>1. \A y \in 0..made : y \in 0..(made + 1)
    BY <1>3
  <2>2. made + 1 \in 0..(made + 1)
    BY <1>3
  <2> QED BY <1>1, <1>3, <2>1, <2>2
<1>15. said' \subseteq Held(rows) \cup Held(eng'.outbox) \cup Held(eng'.summaries)
  BY <1>1, <1>2, <1>9, <1>10
<1>16. at' \notin {"save", "check"}
  BY <1>1
<1> QED BY <1>1, <1>2, <1>3, <1>10, <1>12, <1>13, <1>14, <1>15, <1>16, Continue

\* acknowledge_checkpoint changes the numbers of the messages, not the messages.
LEMMA AcknowledgedMemory ==
    ASSUME NEW m \in Seq(Refs), NEW k \in Seq(Refs), NEW a,
           a = [i \in DOMAIN m |-> IF m[i].id \in Held(k) THEN k[SequenceOf(k, m[i].id)] ELSE m[i]]
    PROVE  a \in Seq(Refs) /\ DOMAIN a = DOMAIN m /\ \A i \in DOMAIN m : a[i].id = m[i].id
<1>1. ASSUME NEW i \in DOMAIN m PROVE a[i] \in Refs /\ a[i].id = m[i].id
  <2>1. CASE m[i].id \in Held(k)
    <3>1. PICK j \in DOMAIN k : k[j].id = m[i].id
      BY <2>1 DEF Held
    <3> DEFINE c == SequenceOf(k, m[i].id)
    <3>2. c \in DOMAIN k /\ k[c].id = m[i].id
      BY <3>1 DEF SequenceOf
    <3>3. a[i] = k[c]
      BY <2>1
    <3> HIDE DEF c
    <3> QED BY <3>2, <3>3
  <2>2. CASE m[i].id \notin Held(k)
    BY <2>2
  <2> QED BY <2>1, <2>2
<1>2. Len(m) \in Nat /\ DOMAIN m = 1..Len(m) /\ DOMAIN a = 1..Len(m)
  OBVIOUS
<1>3. a = [i \in 1..Len(m) |-> a[i]]
  BY <1>2
<1>4. a \in [1..Len(m) -> Refs]
  BY <1>1, <1>2, <1>3
<1>5. a \in Seq(Refs)
  BY <1>2, <1>4
<1> QED BY <1>1, <1>2, <1>5

LEMMA AcknowledgedFact ==
    ASSUME TInv, at = "check", NEW u, NEW keep,
           u = [Acknowledged(eng) EXCEPT !.outbox = IF keep THEN @ ELSE <<>>]
    PROVE  /\ u \in Sessions /\ Ready(u, rows, made)
           /\ u.summaries = eng.summaries /\ u.revision = eng.revision /\ u.reload = ack.reload
           /\ ~keep /\ eng.revision = db.revision => Fresh(u, rows)
<1>1. /\ rows \in Seq(Rows) /\ made \in Nat /\ eng \in Sessions /\ ack \in Acks /\ Ids = Held(rows)
  BY TypesOf
<1>2. /\ AllIn(eng, rows) /\ ~eng.reload
      /\ Held(eng.summaries) \subseteq ack.summaries /\ ack.summaries \subseteq Ids
      /\ UpToDate => ack.next = Len(rows) + 1
  BY DEF TInv, CheckInv
<1>3. Ready(eng, rows, made)
  BY EngineOf
<1>4. Sound(eng, rows) /\ Below(eng, made) /\ Unstaged(eng)
  BY <1>3 DEF Ready
<1>5. /\ ack.next \in Nat /\ ack.memory \in Seq(Refs) /\ ack.summaries \in SUBSET Nat
      /\ ack.reload \in BOOLEAN
  BY <1>1 DEF Acks
<1> DEFINE a == Acknowledged(eng).memory
<1>6. a \in Seq(Refs) /\ DOMAIN a = DOMAIN eng.memory /\ \A i \in DOMAIN eng.memory : a[i].id = eng.memory[i].id
  <2> DEFINE m == eng.memory
             k == ack.memory
  <2>1. a = [i \in DOMAIN m |-> IF m[i].id \in Held(k) THEN k[SequenceOf(k, m[i].id)] ELSE m[i]]
    BY <1>1 DEF Acknowledged, Sessions
  <2>2. m \in Seq(Refs) /\ k \in Seq(Refs)
    BY <1>1, <1>5, SessionFields
  <2> HIDE DEF m, k, a
  <2>3. a \in Seq(Refs) /\ DOMAIN a = DOMAIN m /\ \A i \in DOMAIN m : a[i].id = m[i].id
    BY <2>1, <2>2, AcknowledgedMemory
  <2> QED BY <2>3 DEF m
<1>7. /\ Acknowledged(eng) = [eng EXCEPT !.reload = ack.reload, !.next = ack.next,
                                         !.committed = ack.summaries, !.memory = a]
  BY <1>1 DEF Acknowledged, Sessions
<1> HIDE DEF a
<1>8. Acknowledged(eng) \in Sessions
  BY <1>1, <1>5, <1>6, <1>7 DEF Sessions
<1>9. /\ u \in Sessions /\ u.memory = a /\ u.summaries = eng.summaries /\ u.ledger = eng.ledger
      /\ u.revision = eng.revision /\ u.reload = ack.reload /\ u.next = ack.next
      /\ u.committed = ack.summaries /\ u.outbox = IF keep THEN eng.outbox ELSE <<>>
  <2>1. <<>> \in Seq(Entries) /\ eng.outbox \in Seq(Entries)
    BY <1>1, SessionFields
  <2> QED BY <1>1, <1>5, <1>6, <1>7, <2>1 DEF Sessions
<1>10. GoalFirst(u.memory)
  <2>1. eng.memory \in Seq(Refs) /\ GoalFirst(eng.memory)
    BY <1>1, <1>4, SessionFields DEF Sound
  <2>2. GoalFirst(a)
    BY <1>6, <2>1, SameGoal
  <2> QED BY <1>9, <2>2
<1>11. \A i \in DOMAIN u.memory : In(rows, u.memory[i].id, "message")
  <2>1. \A i \in DOMAIN eng.memory : In(rows, eng.memory[i].id, "message")
    BY <1>1, <1>2, <1>4, InTranscript
  <2> QED BY <1>6, <1>9, <2>1
<1>12. CASE keep
  <2>1. u.outbox = eng.outbox
    BY <1>9, <1>12
  <2>2. HasMessages(u, rows)
    BY <1>11 DEF HasMessages
  <2>3. \A i \in DOMAIN u.summaries : SoundSummary(u, rows, u.summaries[i])
    BY <1>4, <1>9 DEF Sound, SummariesSound, SoundSummary
  <2>4. SummariesSound(u, rows)
    BY <1>1, <1>2, <1>4, <1>9, <2>3 DEF Sound, SummariesSound
  <2>5. OutboxSound(u) /\ Unstaged(u) /\ Below(u, made)
    BY <1>4, <1>9, <2>1 DEF Sound, OutboxSound, Unstaged, Below
  <2> QED BY <1>9, <1>10, <1>12, <2>2, <2>4, <2>5 DEF Ready, Sound
<1>13. CASE ~keep
  <2>1. u.outbox = <<>>
    BY <1>9, <1>13
  <2>2. u.committed \subseteq Held(rows) /\ Held(eng.summaries) \subseteq u.committed
    BY <1>1, <1>2, <1>9
  <2>3. Ready(u, rows, made) /\ (u.next = Len(rows) + 1 => Fresh(u, rows))
    BY <1>1, <1>2, <1>4, <1>9, <1>10, <1>11, <2>1, <2>2, SavedFact
  <2>4. eng.revision = db.revision => u.next = Len(rows) + 1
    BY <1>2, <1>9 DEF UpToDate
  <2> QED BY <1>9, <2>3, <2>4
<1> QED BY <1>12, <1>13

LEMMA AcknowledgeKeeps ==
    ASSUME TInv, Acknowledge
    PROVE  TInv'
<1>1. /\ at = "check" /\ rows' = rows /\ db' = db /\ owner' = owner /\ prop' = prop /\ try' = try
      /\ ack' = ack /\ made' = made /\ faults' = faults /\ said' = said /\ refused' = refused
      /\ eng' = [Acknowledged(eng) EXCEPT !.outbox = IF ack.reload THEN @ ELSE <<>>]
      /\ at' = IF ack.reload THEN "error" ELSE "work"
  BY DEF Acknowledge
<1>2. /\ eng' \in Sessions /\ Ready(eng', rows, made)
      /\ eng'.revision = eng.revision /\ eng'.reload = ack.reload
      /\ ~ack.reload /\ eng.revision = db.revision => Fresh(eng', rows)
  BY <1>1, AcknowledgedFact
<1>3. /\ rows \in Seq(Rows) /\ made \in Nat /\ owner \in BOOLEAN /\ Ids = Held(rows)
      /\ faults \in Nat /\ refused = FALSE /\ prop \in Sessions /\ try \in Tries
      /\ ack \in Acks /\ said \subseteq 0..made
  BY TypesOf
<1>4. made <= made /\ eng.revision <= db.revision /\ said \subseteq Ids
  BY <1>1, <1>3, EngineOf DEF TInv, CheckInv
<1>5. at' \in Points /\ at' \notin {"save", "check"}
  BY <1>1 DEF Points
<1> QED BY <1>1, <1>2, <1>3, <1>4, <1>5, Continue

LEMMA CancelledKeeps ==
    ASSUME TInv, NEW streamed \in BOOLEAN, Cancelled(streamed)
    PROVE  TInv'
<1>1. /\ at = "check" /\ rows' = rows /\ db' = db /\ owner' = owner /\ prop' = prop /\ try' = try
      /\ ack' = ack /\ made' = made /\ faults' = faults /\ said' = said /\ refused' = refused
      /\ eng' = [Acknowledged(eng) EXCEPT !.outbox = IF FALSE THEN @ ELSE <<>>]
      /\ at' = IF streamed THEN "fail" ELSE "finish"
  BY DEF Cancelled
<1>2. /\ eng' \in Sessions /\ Ready(eng', rows, made)
      /\ eng'.revision = eng.revision
      /\ eng.revision = db.revision => Fresh(eng', rows)
  BY <1>1, AcknowledgedFact
<1>3. /\ rows \in Seq(Rows) /\ made \in Nat /\ owner \in BOOLEAN /\ Ids = Held(rows)
      /\ faults \in Nat /\ refused = FALSE /\ prop \in Sessions /\ try \in Tries
      /\ ack \in Acks /\ said \subseteq 0..made
  BY TypesOf
<1>4. made <= made /\ eng.revision <= db.revision /\ said \subseteq Ids
  BY <1>1, <1>3, EngineOf DEF TInv, CheckInv
<1>5. at' \in Points /\ at' \notin {"save", "check"}
  BY <1>1 DEF Points
<1> QED BY <1>1, <1>2, <1>3, <1>4, <1>5, Continue

\* What a session stages does not depend on its revision.
LEMMA SameStaged ==
    ASSUME NEW s \in Sessions, NEW t \in Sessions, t.summaries = s.summaries,
           t.committed = s.committed, t.outbox = s.outbox, t.next = s.next
    PROVE  /\ WithSummaries(t).outbox = WithSummaries(s).outbox
           /\ WithSummaries(t).next = WithSummaries(s).next
BY DEF WithSummaries, Sessions

\* Sound and Ready do not depend on the number and the revision.
LEMMA SameReady ==
    ASSUME NEW s \in Sessions, NEW t \in Sessions, t.summaries = s.summaries, t.memory = s.memory,
           t.committed = s.committed, t.outbox = s.outbox, t.ledger = s.ledger, NEW r, NEW n
    PROVE  /\ Ready(s, r, n) => Ready(t, r, n)
           /\ AllIn(s, r) => AllIn(t, r)
<1>1. ASSUME Sound(s, r) PROVE Sound(t, r)
  <2>1. \A x : SoundSummary(s, r, x) => SoundSummary(t, r, x)
    BY DEF SoundSummary
  <2>2. SummariesSound(t, r)
    BY <1>1, <2>1 DEF Sound, SummariesSound
  <2> QED BY <1>1, <2>2 DEF Sound, HasMessages, OutboxSound
<1> QED BY <1>1 DEF Ready, Below, Unstaged, AllIn

\* p is what a successful save of the proposal leaves, when the rows are r and
\* the revision is rev.
Succeeds(p, r, rev) ==
    /\ p \in Sessions /\ p.outbox = <<>> /\ p.summaries = prop.summaries /\ p.ledger = prop.ledger
    /\ p.committed = prop.committed \cup Held(prop.summaries)
    /\ p.revision <= rev
    /\ GoalFirst(p.memory) /\ \A i \in DOMAIN p.memory : In(r, p.memory[i].id, "message")
    /\ p.revision = rev => (p.next = Len(r) + 1 /\ Stored(prop, r))
    /\ Sound(prop, r) /\ AllIn(prop, r) /\ Sound(eng, r) /\ said \subseteq Held(r)

LEMMA SucceedKeeps ==
    ASSUME TInv, at = "save", ~eng.reload, NEW p, Succeeds(p, rows', db'.revision), Succeed(p),
           rows' \in Seq(Rows), Held(rows') \subseteq 0..made,
           db' \in [revision : Nat, context : Nat, next : Nat, running : BOOLEAN, ledger : Nat,
                    memory : Seq(Refs)],
           TableInv', made' = made, said' = said, try' = try, faults' = faults, refused' = refused
    PROVE  TInv'
<1>1. /\ rows \in Seq(Rows) /\ eng \in Sessions /\ prop \in Sessions /\ try \in Tries /\ ack \in Acks
      /\ owner \in BOOLEAN /\ made \in Nat /\ faults \in Nat /\ said \subseteq 0..made /\ refused = FALSE
  BY TypesOf
<1>2. /\ p \in Sessions /\ p.outbox = <<>> /\ p.summaries = prop.summaries /\ p.ledger = prop.ledger
      /\ p.committed = prop.committed \cup Held(prop.summaries)
      /\ p.revision <= db'.revision
      /\ GoalFirst(p.memory) /\ \A i \in DOMAIN p.memory : In(rows', p.memory[i].id, "message")
      /\ p.revision = db'.revision => (p.next = Len(rows') + 1 /\ Stored(prop, rows'))
      /\ Sound(prop, rows') /\ AllIn(prop, rows') /\ Sound(eng, rows') /\ said \subseteq Held(rows')
  BY DEF Succeeds
<1>3. Proposes(eng, prop, rows, made) /\ (Clone => prop = WithSummaries(eng))
  BY DEF TInv, SaveInv
<1>4. Below(prop, made) /\ prop.summaries = eng.summaries /\ prop.committed = eng.committed
  BY <1>3 DEF Proposes
<1>5. p.committed \subseteq Held(rows') /\ Held(prop.summaries) \subseteq p.committed
  BY <1>2 DEF Sound, SummariesSound, AllIn
<1>6. Ready(p, rows', made) /\ (p.next = Len(rows') + 1 => Fresh(p, rows'))
  BY <1>1, <1>2, <1>4, <1>5, SavedFact
<1>7. Ready(eng, rows', made)
  <2>1. Ready(eng, rows, made)
    BY EngineOf
  <2> QED BY <1>2, <2>1 DEF Ready
<1>8. Ids' = Held(rows') /\ Ids' \subseteq 0..made'
  BY Ids2
<1>9. CASE Clone
  <2>1. /\ eng' = [eng EXCEPT !.revision = p.revision] /\ prop' = p /\ at' = "check" /\ owner' = owner
        /\ ack' = [next |-> p.next, memory |-> p.memory, summaries |-> p.committed, reload |-> p.reload]
    BY <1>9 DEF Succeed
  <2>2. /\ p.next \in Nat /\ p.memory \in Seq(Refs) /\ p.committed \in SUBSET Nat
        /\ p.reload \in BOOLEAN /\ p.revision \in Nat
    BY <1>2, SessionFields
  <2>3. ack' \in Acks /\ ack'.summaries = p.committed /\ ack'.next = p.next
    BY <2>1, <2>2 DEF Acks
  <2>4. /\ eng' \in Sessions /\ eng'.revision = p.revision /\ eng'.summaries = eng.summaries
        /\ eng'.committed = eng.committed /\ eng'.outbox = eng.outbox /\ eng'.next = eng.next
        /\ eng'.memory = eng.memory /\ eng'.ledger = eng.ledger /\ eng'.reload = eng.reload
    BY <1>1, <2>1, <2>2 DEF Sessions
  <2>5. AllIn(eng, rows')
    BY <1>1, <1>2, <1>3, <1>7, <1>9, StageSave
  <2>6. Ready(eng', rows', made) /\ AllIn(eng', rows')
    BY <1>1, <1>7, <2>4, <2>5, SameReady
  <2>7. Stored(prop, rows') => Stored(WithSummaries(eng'), rows')
    <3>1. /\ WithSummaries(eng').outbox = prop.outbox /\ WithSummaries(eng').next = prop.next
      BY <1>1, <1>3, <1>9, <2>4, SameStaged
    <3> QED BY <3>1 DEF Stored
  <2>8. UpToDate' => p.revision = db'.revision
    BY <2>4 DEF UpToDate
  <2>9. TranscriptTypes'
    BY <1>1, <1>2, <1>8, <2>1, <2>3, <2>4 DEF TranscriptTypes, Points
  <2>10. EngineInv'
    BY <1>2, <1>8, <2>1, <2>4, <2>6 DEF EngineInv
  <2>11. CheckInv'
    BY <1>2, <1>4, <1>5, <1>8, <2>3, <2>4, <2>6, <2>7, <2>8 DEF CheckInv
  <2>12. SaveInv'
    BY <2>1 DEF SaveInv
  <2> QED BY <1>1, <2>9, <2>10, <2>11, <2>12 DEF TInv
<1>10. CASE ~Clone
  <2>1. eng' = p /\ prop' = p /\ ack' = ack /\ owner' \in BOOLEAN /\ at' \in {"ready", "finish", "idle"}
    BY <1>1, <1>10 DEF Succeed, Leave
  <2>2. UpToDate' => Fresh(p, rows')
    BY <1>2, <1>6, <2>1 DEF UpToDate
  <2>3. TranscriptTypes'
    BY <1>1, <1>2, <1>8, <2>1 DEF TranscriptTypes, Points
  <2>4. EngineInv'
    BY <1>2, <1>6, <1>8, <2>1, <2>2 DEF EngineInv
  <2>5. SaveInv' /\ CheckInv'
    BY <2>1 DEF SaveInv, CheckInv
  <2> QED BY <1>1, <2>3, <2>4, <2>5 DEF TInv
<1> QED BY <1>9, <1>10

LEMMA FindReceiptKeeps ==
    ASSUME TInv, FindReceipt
    PROVE  TInv'
<1> DEFINE p == Saved(prop, try.receipt, db.revision # try.receipt)
<1>1. /\ at = "save" /\ ~eng.reload /\ try.receipt # 0 /\ Succeed(p)
      /\ rows' = rows /\ db' = db /\ try' = try /\ made' = made /\ faults' = faults
      /\ said' = said /\ refused' = refused
  BY DEF FindReceipt
<1>2. /\ rows \in Seq(Rows) /\ eng \in Sessions /\ prop \in Sessions /\ made \in Nat
      /\ Ids = Held(rows) /\ Ids \subseteq 0..made /\ try.receipt \in Nat
  BY TypesOf
<1>3. /\ Proposes(eng, prop, rows, made) /\ try.receipt <= db.revision
      /\ AllIn(prop, rows) /\ said \subseteq Ids
      /\ db.revision = try.receipt => Stored(prop, rows)
  BY <1>1 DEF TInv, SaveInv
<1>4. Sound(prop, rows)
  BY <1>3 DEF Proposes
<1>5. Sound(eng, rows)
  BY <1>1, EngineOf DEF Ready
<1>6. /\ p \in Sessions /\ p.outbox = <<>> /\ p.summaries = prop.summaries /\ p.ledger = prop.ledger
      /\ p.committed = prop.committed \cup Held(prop.summaries)
      /\ p.revision = try.receipt /\ p.memory = prop.memory /\ p.next = prop.next
  <2>1. <<>> \in Seq(Entries) /\ (db.revision # try.receipt) \in BOOLEAN
    OBVIOUS
  <2>2. Held(prop.summaries) \in SUBSET Nat
    <3>1. \A i \in DOMAIN prop.summaries : prop.summaries[i].id \in Nat
      BY <1>2, SessionFields
    <3> QED BY <3>1 DEF Held
  <2>3. prop.committed \cup Held(prop.summaries) \in SUBSET Nat
    BY <1>2, <2>2, SessionFields
  <2> QED BY <1>2, <2>1, <2>3 DEF Saved, Sessions
<1>7. Succeeds(p, rows', db'.revision)
  <2>1. \A i \in DOMAIN prop.memory : In(rows, prop.memory[i].id, "message")
    BY <1>2, <1>3, <1>4, InTranscript
  <2>2. GoalFirst(prop.memory)
    BY <1>4 DEF Sound
  <2>3. p.revision = db.revision => (p.next = Len(rows) + 1 /\ Stored(prop, rows))
    BY <1>3, <1>6 DEF Stored
  <2> HIDE DEF p
  <2> QED BY <1>1, <1>2, <1>3, <1>4, <1>5, <1>6, <2>1, <2>2, <2>3 DEF Succeeds
<1> HIDE DEF p
<1>8. /\ db' \in [revision : Nat, context : Nat, next : Nat, running : BOOLEAN, ledger : Nat,
                  memory : Seq(Refs)]
  BY <1>1 DEF TInv, TranscriptTypes
<1>9. TableInv'
  BY <1>1 DEF TInv, TableInv
<1> QED BY <1>1, <1>2, <1>7, <1>8, <1>9, SucceedKeeps

\* COMMIT: the tables have everything the worker has said, in order, and a
\* context that loads.
LEMMA CommitTables ==
    ASSUME TInv, NEW answered \in BOOLEAN, Commit(answered)
    PROVE  /\ rows' \in Seq(Rows) /\ Held(rows') \subseteq 0..made
           /\ db' \in [revision : Nat, context : Nat, next : Nat, running : BOOLEAN, ledger : Nat,
                       memory : Seq(Refs)]
           /\ TableInv' /\ db'.revision = db.revision + 1 /\ eng.revision = db.revision
           /\ Stored(prop, rows') /\ AllIn(prop, rows') /\ Sound(prop, rows') /\ Sound(eng, rows')
           /\ said \subseteq Held(rows')
           /\ db'.memory \in Seq(Refs) /\ GoalFirst(db'.memory)
           /\ \A i \in DOMAIN db'.memory : In(rows', db'.memory[i].id, "message")
           /\ \A id, kind : In(rows, id, kind) => In(rows', id, kind)
<1>1. /\ at = "save" /\ ~eng.reload /\ try.receipt = 0 /\ eng.revision = db.revision
      /\ rows' = Written(prop)
  BY DEF Commit, Current
<1>2. UpToDate
  BY <1>1 DEF UpToDate
<1>3. /\ prop \in Sessions /\ rows \in Seq(Rows) /\ InOrder(rows) /\ Sound(prop, rows)
      /\ Held(prop.summaries) \subseteq prop.committed \cup Held(prop.outbox)
      /\ Fresh(prop, rows) \/ Stored(prop, rows)
      /\ Written(prop) = rows \o News(prop, rows)
  BY <1>1, <1>2, ProposalFact
<1> DEFINE q == rows'
<1>4. q = rows \o News(prop, rows)
  BY <1>1, <1>3
<1> HIDE DEF q
<1>5. /\ q \in Seq(Rows) /\ InOrder(q) /\ Stored(prop, q) /\ AllIn(prop, q)
      /\ Held(q) = Held(rows) \cup Held(prop.outbox)
      /\ \A id, kind : In(rows, id, kind) => In(q, id, kind)
      /\ \A s \in Sessions : s.summaries = prop.summaries /\ Sound(s, rows) => Sound(s, q)
      /\ Sound(prop, q)
  BY <1>3, <1>4, WriteFact
<1>6. /\ Proposes(eng, prop, rows, made)
      /\ said \subseteq Ids \cup Held(prop.outbox) \cup Held(prop.summaries)
  BY <1>1 DEF TInv, SaveInv
<1>7. /\ Ids = Held(rows) /\ Ids \subseteq 0..made /\ eng \in Sessions /\ db.revision \in Nat
  BY TypesOf
<1>8. Sound(eng, q) /\ Held(q) \subseteq 0..made /\ said \subseteq Held(q)
  <2>1. Sound(eng, rows)
    BY <1>1, EngineOf DEF Ready
  <2>2. eng.summaries = prop.summaries /\ Held(prop.outbox) \subseteq 0..made
    BY <1>6 DEF Proposes, Below
  <2>3. Held(prop.summaries) \subseteq Held(q)
    BY <1>5 DEF AllIn
  <2> QED BY <1>5, <1>6, <1>7, <2>1, <2>2, <2>3
<1> DEFINE z == Sealed(prop, q)
<1>9. /\ z \in Seq(Refs) /\ GoalFirst(z)
      /\ \A i \in DOMAIN z :
            /\ z[i].seq \in DOMAIN q
            /\ q[z[i].seq] = [id |-> z[i].id, kind |-> "message"]
            /\ In(q, z[i].id, "message")
  <2>1. \A i \in DOMAIN prop.memory : In(q, prop.memory[i].id, "message")
    BY <1>3, <1>5, InTranscript
  <2>2. GoalFirst(prop.memory)
    BY <1>3 DEF Sound
  <2> QED BY <1>3, <1>5, <2>1, <2>2, SealedFact
<1>10. PICK running \in RunningAfter(try.event) :
         db' = [WriteContext(prop, q) EXCEPT !.running = running]
  BY DEF Commit, q
<1> HIDE DEF z
<1>11. WriteContext(prop, q) = [db EXCEPT !.revision = @ + 1, !.context = db.revision + 1,
                                          !.next = Len(q) + 1, !.ledger = prop.ledger, !.memory = z]
  BY DEF WriteContext, z
<1>12. running \in BOOLEAN
  <2>1. db.running \in BOOLEAN
    BY DEF TInv, TranscriptTypes
  <2> QED BY <1>10, <2>1 DEF RunningAfter
<1>13. Len(q) + 1 \in Nat /\ prop.ledger \in Nat /\ db.revision + 1 \in Nat
  BY <1>3, <1>5, <1>7, SessionFields
<1>14. /\ db' \in [revision : Nat, context : Nat, next : Nat, running : BOOLEAN, ledger : Nat,
                   memory : Seq(Refs)]
       /\ db'.revision = db.revision + 1 /\ db'.context = db.revision + 1 /\ db'.next = Len(q) + 1
       /\ db'.ledger = prop.ledger /\ db'.memory = z
  <2>1. /\ db \in [revision : Nat, context : Nat, next : Nat, running : BOOLEAN, ledger : Nat,
                   memory : Seq(Refs)]
    BY DEF TInv, TranscriptTypes
  <2> QED BY <1>9, <1>10, <1>11, <1>12, <1>13, <2>1
<1>15. TableInv'
  <2>1. prop.ledger # 0 => In(q, prop.ledger, "summary")
    BY <1>3, <1>5, InTranscript
  <2> QED BY <1>5, <1>9, <1>14, <2>1 DEF TableInv, q
<1> QED BY <1>1, <1>5, <1>8, <1>9, <1>14, <1>15 DEF q

LEMMA CommitKeeps ==
    ASSUME TInv, NEW answered \in BOOLEAN, Commit(answered)
    PROVE  TInv'
<1>1. /\ at = "save" /\ ~eng.reload /\ try.receipt = 0
      /\ made' = made /\ said' = said /\ refused' = refused
  BY DEF Commit
<1>2. /\ rows' \in Seq(Rows) /\ Held(rows') \subseteq 0..made
      /\ db' \in [revision : Nat, context : Nat, next : Nat, running : BOOLEAN, ledger : Nat,
                  memory : Seq(Refs)]
      /\ TableInv' /\ db'.revision = db.revision + 1 /\ eng.revision = db.revision
      /\ Stored(prop, rows') /\ AllIn(prop, rows') /\ Sound(prop, rows') /\ Sound(eng, rows')
      /\ said \subseteq Held(rows')
      /\ db'.memory \in Seq(Refs) /\ GoalFirst(db'.memory)
      /\ \A i \in DOMAIN db'.memory : In(rows', db'.memory[i].id, "message")
  BY CommitTables
<1>3. /\ rows \in Seq(Rows) /\ eng \in Sessions /\ prop \in Sessions /\ made \in Nat
      /\ try \in Tries /\ ack \in Acks /\ owner \in BOOLEAN /\ faults \in Nat
      /\ said \subseteq 0..made /\ refused = FALSE /\ db.revision \in Nat
  BY TypesOf
<1>4. CASE answered
  <2> DEFINE d == db'.memory
             k == Len(rows') + 1
             p == [Saved(prop, db.revision + 1, FALSE) EXCEPT !.next = k, !.memory = d]
  <2>1. Succeed(p) /\ try' = try /\ faults' = faults
    BY <1>4 DEF Commit
  <2>2. /\ d \in Seq(Refs) /\ GoalFirst(d) /\ k \in Nat
        /\ \A i \in DOMAIN d : In(rows', d[i].id, "message")
    BY <1>2
  <2> HIDE DEF d
  <2>3. k = Len(rows') + 1
    OBVIOUS
  <2> HIDE DEF k
  <2>4. /\ p \in Sessions /\ p.outbox = <<>> /\ p.summaries = prop.summaries /\ p.ledger = prop.ledger
        /\ p.committed = prop.committed \cup Held(prop.summaries)
        /\ p.revision = db.revision + 1 /\ p.memory = d /\ p.next = k
    <3>1. <<>> \in Seq(Entries) /\ FALSE \in BOOLEAN /\ db.revision + 1 \in Nat
      BY <1>3
    <3>2. Held(prop.summaries) \in SUBSET Nat
      <4>1. \A i \in DOMAIN prop.summaries : prop.summaries[i].id \in Nat
        BY <1>3, SessionFields
      <4> QED BY <4>1 DEF Held
    <3>3. prop.committed \cup Held(prop.summaries) \in SUBSET Nat
      BY <1>3, <3>2, SessionFields
    <3> QED BY <1>3, <2>2, <3>1, <3>3 DEF Saved, Sessions
  <2> HIDE DEF p
  <2>5. p.revision <= db'.revision
    BY <1>2, <1>3, <2>4
  <2>6. Succeeds(p, rows', db'.revision)
    BY <1>2, <2>2, <2>3, <2>4, <2>5 DEF Succeeds
  <2> QED BY <1>1, <1>2, <2>1, <2>6, SucceedKeeps
<1>5. CASE ~answered
  <2>1. /\ faults' = faults + 1 /\ eng' = eng /\ prop' = prop /\ ack' = ack
        /\ try' = [try EXCEPT !.receipt = db.revision + 1, !.left = @ - 1]
        /\ owner' \in BOOLEAN /\ at' \in {"save", "idle"}
    BY <1>1, <1>3, <1>5 DEF Commit, Leave
  <2>2. try' \in Tries /\ try'.event = try.event /\ try'.receipt = db.revision + 1
    <3>1. db.revision + 1 \in Nat /\ try.left - 1 \in Int
      BY <1>3, TypesOf
    <3> QED BY <1>3, <2>1, <3>1 DEF Tries
  <2>3. Ids' = Held(rows') /\ Ids' \subseteq 0..made' /\ faults' \in Nat
    BY <1>1, <1>2, <1>3, <2>1, Ids2
  <2>4. Clone' = Clone
    BY <2>2 DEF Clone
  <2>5. TranscriptTypes'
    BY <1>1, <1>2, <1>3, <2>1, <2>2, <2>3 DEF TranscriptTypes, Points
  <2>6. /\ Proposes(eng, prop, rows, made) /\ (Clone => prop = WithSummaries(eng))
    BY <1>1 DEF TInv, SaveInv
  <2>7. Proposes(eng, prop, rows', made) /\ Ready(eng, rows', made)
    <3>1. Ready(eng, rows, made)
      BY <1>1, EngineOf
    <3> QED BY <1>2, <2>6, <3>1 DEF Proposes, Ready
  <2>8. /\ db.revision <= db'.revision /\ db.revision < db.revision + 1 /\ db.revision + 1 # 0
        /\ db.revision + 1 <= db'.revision
    BY <1>2, <1>3
  <2>9. EngineInv'
    <3> SUFFICES ASSUME at' = "save" PROVE EngineInv'
      BY <2>1 DEF EngineInv
    <3> QED BY <1>1, <1>2, <2>1, <2>7, <2>8 DEF EngineInv
  <2>10. SaveInv'
    BY <1>1, <1>2, <2>1, <2>2, <2>3, <2>4, <2>6, <2>7, <2>8 DEF SaveInv
  <2>11. CheckInv'
    BY <2>1 DEF CheckInv
  <2> QED BY <1>1, <1>2, <1>3, <2>5, <2>9, <2>10, <2>11 DEF TInv
<1> QED BY <1>4, <1>5

\* The rows after one more record, newer than every other.
Adds(r, n, y, c) ==
    /\ r \in Seq(Rows) /\ n \in Nat /\ Held(r) \subseteq 0..n /\ InOrder(r)
    /\ y \in Seq(Rows) /\ Len(y) = 1 /\ DOMAIN y = {1} /\ y[1].id = n + 1 /\ Held(y) = {n + 1}
    /\ c = r \o y

LEMMA AddsFact ==
    ASSUME NEW r, NEW n, NEW y, NEW c, Adds(r, n, y, c)
    PROVE  /\ c \in Seq(Rows) /\ Len(c) = Len(r) + 1 /\ Held(c) = Held(r) \cup {n + 1} /\ InOrder(c)
           /\ \A i \in DOMAIN r : i \in DOMAIN c /\ c[i] = r[i]
           /\ \A id, kind : In(r, id, kind) => In(c, id, kind)
           /\ \A s \in Sessions : Sound(s, r) /\ Below(s, n) => Sound(s, c)
<1>0. /\ r \in Seq(Rows) /\ n \in Nat /\ Held(r) \subseteq 0..n /\ InOrder(r)
      /\ y \in Seq(Rows) /\ Len(y) = 1 /\ DOMAIN y = {1} /\ y[1].id = n + 1 /\ Held(y) = {n + 1}
      /\ c = r \o y
  BY DEF Adds
<1> DEFINE w == r \o y
<1>1. /\ w \in Seq(Rows) /\ Len(w) = Len(r) + Len(y)
      /\ \A i \in DOMAIN r : i \in DOMAIN w /\ w[i] = r[i]
      /\ \A j \in DOMAIN y : Len(r) + j \in DOMAIN w /\ w[Len(r) + j] = y[j]
      /\ \A i \in DOMAIN w : i \in DOMAIN r \/ \E j \in DOMAIN y : i = Len(r) + j
      /\ Held(w) = Held(r) \cup Held(y)
  <2>1. r \in Seq(Rows) /\ y \in Seq(Rows)
    BY <1>0
  <2> QED BY <2>1, ConcatFact
<1>2. \A id, kind : In(r, id, kind) => In(w, id, kind)
  <2>1. r \in Seq(Rows) /\ y \in Seq(Rows)
    BY <1>0
  <2> QED BY <2>1, InGrows
<1>3. ASSUME NEW s \in Sessions, Sound(s, r), Below(s, n) PROVE Sound(s, w)
  <2>1. ~(n + 1 \in 0..n)
    BY <1>0
  <2>2. \A id \in Held(s.summaries) : id \in Held(y) => In(y, id, "summary")
    BY <1>0, <1>3, <2>1 DEF Below
  <2> QED BY <1>0, <1>3, <2>2, SoundGrows
<1> HIDE DEF w
<1>4. c = w
  BY <1>0 DEF w
<1> DEFINE k == Len(r) + 1
<1>5. /\ k \in Nat /\ w[k].id = n + 1 /\ DOMAIN r = 1..Len(r) /\ Len(r) \in Nat
      /\ \A i \in DOMAIN w : (i \in DOMAIN r /\ w[i] = r[i] /\ i < k) \/ i = k
  BY <1>0, <1>1
<1> HIDE DEF k
<1>6. \A i \in DOMAIN r : r[i].id < n + 1 /\ r[i].id # n + 1 /\ r[i].id \in Nat
  <2>1. \A i \in DOMAIN r : r[i].id \in Held(r)
    BY DEF Held
  <2>2. \A i \in DOMAIN r : r[i].id \in 0..n
    BY <1>0, <2>1
  <2> QED BY <1>0, <2>2
<1>7. ASSUME NEW i \in DOMAIN w, NEW j \in DOMAIN w, w[i].id = w[j].id PROVE i = j
  <2>1. CASE i \in DOMAIN r /\ j \in DOMAIN r
    BY <1>0, <1>1, <1>7, <2>1 DEF InOrder
  <2>2. CASE i = k \/ j = k
    BY <1>1, <1>5, <1>6, <1>7, <2>2
  <2> QED BY <1>5, <2>1, <2>2
<1>8. ASSUME NEW i \in DOMAIN w, NEW j \in DOMAIN w, i < j,
             "summary" \notin {w[i].kind, w[j].kind}
      PROVE  w[i].id < w[j].id
  <2>1. CASE i \in DOMAIN r /\ j \in DOMAIN r
    BY <1>0, <1>1, <1>8, <2>1 DEF InOrder
  <2>2. CASE j = k /\ i \in DOMAIN r
    BY <1>1, <1>5, <1>6, <2>2
  <2>3. ~(i = k)
    BY <1>5, <1>8
  <2> QED BY <1>5, <2>1, <2>2, <2>3
<1>9. InOrder(w)
  BY <1>7, <1>8 DEF InOrder
<1> QED BY <1>0, <1>1, <1>2, <1>3, <1>4, <1>9

LEMMA TakeOverKeeps ==
    ASSUME TInv, TakeOver
    PROVE  TInv'
<1> DEFINE e == [id |-> made + 1, kind |-> "run_interrupted"]
           y == <<e>>
<1>1. /\ at # "idle" /\ faults' = faults + 1 /\ rows' = Append(rows, e)
      /\ db' = [db EXCEPT !.revision = @ + 1, !.context = db.revision + 1, !.next = Len(rows) + 2,
                          !.running = FALSE]
      /\ made' = made + 1 /\ owner' = FALSE /\ eng' = eng /\ prop' = prop /\ try' = try
      /\ ack' = ack /\ at' = at /\ said' = said /\ refused' = refused
  BY DEF TakeOver
<1>2. /\ rows \in Seq(Rows) /\ eng \in Sessions /\ prop \in Sessions /\ made \in Nat
      /\ try \in Tries /\ ack \in Acks /\ faults \in Nat /\ Ids = Held(rows) /\ Ids \subseteq 0..made
      /\ said \subseteq 0..made /\ refused = FALSE /\ db.revision \in Nat /\ at \in Points
  BY TypesOf
<1>3. /\ InOrder(rows) /\ db.context = db.revision /\ db.next = Len(rows) + 1
      /\ GoalFirst(db.memory)
      /\ \A i \in DOMAIN db.memory :
            db.memory[i].seq \in DOMAIN rows
            /\ rows[db.memory[i].seq] = [id |-> db.memory[i].id, kind |-> "message"]
      /\ db.ledger # 0 => In(rows, db.ledger, "summary")
  BY DEF TInv, TableInv
<1>4. e \in Rows /\ e.id = made + 1
  <2>1. made + 1 \in Nat /\ "run_interrupted" \in Kinds
    BY <1>2 DEF Kinds
  <2> QED BY <2>1 DEF Rows
<1> HIDE DEF e
<1>5. y \in Seq(Rows) /\ Len(y) = 1 /\ DOMAIN y = {1} /\ y[1] = e /\ Held(y) = {made + 1}
  BY <1>4, OneFact
<1>6. rows' = rows \o y
  BY <1>1, <1>2, <1>4, AppendIsConcat
<1> HIDE DEF y
<1>7. Adds(rows, made, y, rows')
  BY <1>2, <1>3, <1>4, <1>5, <1>6 DEF Adds
<1>8. /\ rows' \in Seq(Rows) /\ Len(rows') = Len(rows) + 1 /\ Held(rows') = Held(rows) \cup {made + 1}
      /\ InOrder(rows')
      /\ \A i \in DOMAIN rows : i \in DOMAIN rows' /\ rows'[i] = rows[i]
      /\ \A id, kind : In(rows, id, kind) => In(rows', id, kind)
      /\ \A s \in Sessions : Sound(s, rows) /\ Below(s, made) => Sound(s, rows')
  BY <1>7, AddsFact
<1>9. /\ db' \in [revision : Nat, context : Nat, next : Nat, running : BOOLEAN, ledger : Nat,
                  memory : Seq(Refs)]
      /\ db'.revision = db.revision + 1 /\ db'.context = db.revision + 1 /\ db'.next = Len(rows) + 2
      /\ db'.ledger = db.ledger /\ db'.memory = db.memory
  <2>1. /\ db \in [revision : Nat, context : Nat, next : Nat, running : BOOLEAN, ledger : Nat,
                   memory : Seq(Refs)]
    BY DEF TInv, TranscriptTypes
  <2>2. db.revision + 1 \in Nat /\ Len(rows) + 2 \in Nat
    BY <1>2
  <2> QED BY <1>1, <2>1, <2>2
<1>10. /\ made' \in Nat /\ made <= made' /\ faults' \in Nat /\ db'.next = Len(rows') + 1
       /\ \A i \in 0..made : i \in 0..made'
       /\ made + 1 \in 0..made'
  BY <1>1, <1>2, <1>8, <1>9
<1>11. Ids' = Held(rows') /\ Ids \subseteq Ids' /\ Ids' \subseteq 0..made' /\ said' \subseteq 0..made'
  BY <1>1, <1>2, <1>8, <1>10, Ids2
<1>12. TranscriptTypes'
  BY <1>1, <1>2, <1>8, <1>9, <1>10, <1>11 DEF TranscriptTypes
<1>13. TableInv'
  <2>1. \A i \in DOMAIN db'.memory :
           db'.memory[i].seq \in DOMAIN rows'
           /\ rows'[db'.memory[i].seq] = [id |-> db'.memory[i].id, kind |-> "message"]
    <3> SUFFICES ASSUME NEW i \in DOMAIN db.memory
                 PROVE  db.memory[i].seq \in DOMAIN rows'
                        /\ rows'[db.memory[i].seq] = [id |-> db.memory[i].id, kind |-> "message"]
      BY <1>9
    <3>1. /\ db.memory[i].seq \in DOMAIN rows
          /\ rows[db.memory[i].seq] = [id |-> db.memory[i].id, kind |-> "message"]
      BY <1>3
    <3> QED BY <1>8, <3>1
  <2>2. GoalFirst(db'.memory) /\ (db'.ledger # 0 => In(rows', db'.ledger, "summary"))
    BY <1>3, <1>8, <1>9
  <2> QED BY <1>8, <1>9, <1>10, <2>1, <2>2 DEF TableInv
<1>14. /\ Ready(eng, rows, made) /\ eng.revision <= db.revision /\ eng.revision \in Nat
       /\ at # "save" => said \subseteq Held(rows) \cup Held(eng.outbox) \cup Held(eng.summaries)
  BY <1>1, <1>2, EngineOf, SessionFields
<1>15. Ready(eng, rows', made')
  <2>1. Ready(eng, rows', made)
    BY <1>2, <1>8, <1>14 DEF Ready
  <2> QED BY <1>2, <1>10, <2>1, ReadyGrows
<1>16. eng.revision < db'.revision /\ eng.revision <= db'.revision
  BY <1>2, <1>9, <1>14
<1>17. ~UpToDate'
  <2>1. eng.revision # db'.revision
    BY <1>2, <1>9, <1>14
  <2> QED BY <1>1, <2>1 DEF UpToDate
<1>18. EngineInv'
  BY <1>1, <1>2, <1>11, <1>14, <1>15, <1>16, <1>17 DEF EngineInv
<1>19. ASSUME NEW s \in Sessions, AllIn(s, rows) PROVE AllIn(s, rows')
  BY <1>8, <1>19 DEF AllIn
<1>20. SaveInv'
  <2> SUFFICES ASSUME at = "save" PROVE SaveInv'
    BY <1>1 DEF SaveInv
  <2>1. /\ Proposes(eng, prop, rows, made)
        /\ Clone => prop = WithSummaries(eng)
        /\ said \subseteq Ids \cup Held(prop.outbox) \cup Held(prop.summaries)
        /\ try.receipt # 0 =>
             /\ eng.revision < try.receipt /\ try.receipt <= db.revision
             /\ AllIn(prop, rows) /\ said \subseteq Ids
    BY DEF TInv, SaveInv
  <2>2. Proposes(eng, prop, rows', made')
    <3>1. Below(prop, made) => Below(prop, made')
      BY <1>10 DEF Below
    <3> QED BY <1>8, <2>1, <3>1 DEF Proposes
  <2>3. try.receipt # 0 => try.receipt <= db'.revision /\ db'.revision # try.receipt
    <3>1. try.receipt \in Nat
      BY TypesOf
    <3> QED BY <1>2, <1>9, <2>1, <3>1
  <2>4. Clone' = Clone
    BY <1>1 DEF Clone
  <2> QED BY <1>1, <1>2, <1>11, <1>17, <1>19, <2>1, <2>2, <2>3, <2>4 DEF SaveInv
<1>21. CheckInv'
  <2> SUFFICES ASSUME at = "check" PROVE CheckInv'
    BY <1>1 DEF CheckInv
  <2>1. /\ AllIn(eng, rows) /\ said \subseteq Ids /\ ~eng.reload
        /\ Held(eng.summaries) \subseteq ack.summaries /\ ack.summaries \subseteq Ids
    BY DEF TInv, CheckInv
  <2> QED BY <1>1, <1>2, <1>11, <1>17, <1>19, <2>1 DEF CheckInv
<1> QED BY <1>1, <1>2, <1>12, <1>13, <1>18, <1>20, <1>21 DEF TInv

LEMMA InitTInv == TranscriptInit => TInv
<1> SUFFICES ASSUME TranscriptInit PROVE TInv
  OBVIOUS
<1> DEFINE e == [id |-> 1, kind |-> "message"]
           f == [id |-> 1, seq |-> 1]
           m == <<f>>
<1>1. /\ rows = <<e>>
      /\ db = [revision |-> 1, context |-> 1, next |-> 2, running |-> FALSE, ledger |-> 0, memory |-> m]
      /\ eng = [next |-> 2, memory |-> db.memory, outbox |-> <<>>, summaries |-> <<>>,
                committed |-> {}, ledger |-> 0, revision |-> 1, reload |-> FALSE]
      /\ prop = eng /\ try = NoTry
      /\ ack = [next |-> 1, memory |-> <<>>, summaries |-> {}, reload |-> FALSE]
      /\ owner = FALSE /\ at = "idle" /\ made = 1 /\ faults = 0 /\ said = {} /\ refused = FALSE
  BY DEF TranscriptInit
<1>2. e \in Rows /\ f \in Refs /\ e.id = 1 /\ f.id = 1 /\ f.seq = 1
  BY DEF Rows, Refs, Kinds
<1>3. /\ e = [id |-> f.id, kind |-> "message"]
  OBVIOUS
<1> HIDE DEF e, f
<1>4. m \in Seq(Refs) /\ Len(m) = 1 /\ m[1] = f /\ DOMAIN m = {1}
  BY <1>2, OneFact
<1>5. rows \in Seq(Rows) /\ Len(rows) = 1 /\ rows[1] = e /\ DOMAIN rows = {1} /\ Held(rows) = {1}
  BY <1>1, <1>2, OneFact
<1>6. Ids = {1} /\ 1 \in 0..1
  BY <1>5 DEF Ids, Held
<1> HIDE DEF m
<1>7. db \in [revision : Nat, context : Nat, next : Nat, running : BOOLEAN, ledger : Nat,
              memory : Seq(Refs)]
  BY <1>1, <1>4
<1>8. db.memory = m /\ db.revision = 1 /\ db.context = 1 /\ db.next = 2 /\ db.ledger = 0
  BY <1>1
<1>9. eng \in Sessions
  BY <1>1, <1>4, <1>8 DEF Sessions
<1>10. ack \in Acks
  BY <1>1 DEF Acks
<1>11. try \in Tries
  BY <1>1 DEF Tries, NoTry, Events
<1>12. TranscriptTypes
  BY <1>1, <1>5, <1>6, <1>7, <1>9, <1>10, <1>11 DEF TranscriptTypes, Points
<1>13. GoalFirst(m)
  <2>1. m # <<>>
    BY <1>4
  <2> QED BY <1>2, <1>4, <2>1 DEF GoalFirst
<1>14. InOrder(rows)
  BY <1>5 DEF InOrder
<1>15. TableInv
  BY <1>2, <1>3, <1>4, <1>5, <1>8, <1>13, <1>14 DEF TableInv
<1> QED BY <1>1, <1>12, <1>15 DEF TInv, EngineInv, SaveInv, CheckInv

LEMMA NextTInv == TInv /\ [TranscriptNext]_transcriptVars => TInv'
<1> SUFFICES ASSUME TInv, [TranscriptNext]_transcriptVars PROVE TInv'
  OBVIOUS
<1>1. CASE SendMessage
  BY <1>1, SendMessageKeeps
<1>2. CASE StartRun
  BY <1>2, StartRunKeeps
<1>3. CASE \E content \in BOOLEAN : Resume(content)
  BY <1>3, ResumeKeeps
<1>4. CASE Begin
  BY <1>4, BeginKeeps
<1>5. CASE \E kind \in {"message", "audit"} : Say(kind)
  BY <1>5, SayKeeps
<1>6. CASE \E n \in DOMAIN eng.memory : AcceptSummary(n)
  BY <1>6, AcceptKeeps
<1>7. CASE Checkpoint
  BY <1>7, SaveKeeps DEF Checkpoint
<1>8. CASE FindReceipt
  BY <1>8, FindReceiptKeeps
<1>9. CASE RefuseSave
  BY <1>9, RefuseKeeps
<1>10. CASE \E answered \in BOOLEAN : Commit(answered)
  BY <1>10, CommitKeeps
<1>11. CASE \E transport \in BOOLEAN : TryFails(transport)
  BY <1>11, TryFailsKeeps
<1>12. CASE Acknowledge
  BY <1>12, AcknowledgeKeeps
<1>13. CASE \E streamed \in BOOLEAN : Cancelled(streamed)
  BY <1>13, CancelledKeeps
<1>14. CASE EmitFails \/ EngineFails \/ Crash \/ \E streamed \in BOOLEAN : HandleError(streamed)
  BY <1>14, MovesKeep
<1>15. CASE SaveFailure
  BY <1>15, SaveKeeps DEF SaveFailure
<1>16. CASE SaveFinished
  BY <1>16, SaveFinishedKeeps
<1>17. CASE TakeOver
  BY <1>17, TakeOverKeeps
<1>18. CASE UNCHANGED transcriptVars
  BY <1>18 DEF transcriptVars, TInv, TranscriptTypes, TableInv, EngineInv, SaveInv, CheckInv, UpToDate,
               Clone, Ids
<1> QED BY <1>1, <1>2, <1>3, <1>4, <1>5, <1>6, <1>7, <1>8, <1>9, <1>10, <1>11, <1>12, <1>13, <1>14,
           <1>15, <1>16, <1>17, <1>18 DEF TranscriptNext

\* The inductive invariant of the transcript: the tables are in order and
\* load, and while the worker is at the stored revision its outbox is entirely
\* behind the table or entirely in it, under the numbers it gave its records.
THEOREM TranscriptInductive == TranscriptSpec => []TInv
BY InitTInv, NextTInv, PTL DEF TranscriptSpec

\* save_inner never refuses the transcript of the worker that owns the session
\* at the stored revision, whatever was lost between a commit and its
\* acknowledgement.
THEOREM NothingRefused == TranscriptSpec => []NeverRefused
<1>1. TInv => NeverRefused
  BY DEF TInv, NeverRefused
<1> QED BY <1>1, TranscriptInductive, PTL

\* agent_session_transcript has every identity once and, summaries apart, in
\* the order of creation.
THEOREM RowsInOrder == TranscriptSpec => []TranscriptInOrder
<1>1. TInv => TranscriptInOrder
  BY DEF TInv, TableInv, InOrder, TranscriptInOrder
<1> QED BY <1>1, TranscriptInductive, PTL

\* The context that write_context has committed passes the checks of load
\* after every step.
THEOREM ContextsLoad == TranscriptSpec => []CommittedLoads
<1>1. TInv => CommittedLoads
  BY DEF TInv, TableInv, CommittedLoads, Loads, In, GoalFirst
<1> QED BY <1>1, TranscriptInductive, PTL

LEMMA SaveCompletes ==
    ASSUME TInv, [TranscriptNext]_transcriptVars, at = "save", prop' # prop
    PROVE  said \subseteq Ids'
<1>1. CASE FindReceipt
  <2>1. said \subseteq Ids /\ rows' = rows
    BY <1>1 DEF FindReceipt, TInv, SaveInv
  <2> QED BY <2>1, Ids2, TypesOf
<1>2. CASE \E answered \in BOOLEAN : Commit(answered)
  BY <1>2, CommitTables, Ids2
<1>3. ~(\E n \in DOMAIN eng.memory : AcceptSummary(n)) /\ ~(\E kind \in {"message", "audit"} : Say(kind))
  BY DEF AcceptSummary, Say
<1>4. ~SendMessage /\ ~StartRun /\ ~Begin /\ ~(\E content \in BOOLEAN : Resume(content)) /\ ~Checkpoint
  BY DEF SendMessage, StartRun, Begin, Resume, Checkpoint
<1>5. ~RefuseSave /\ ~(\E transport \in BOOLEAN : TryFails(transport))
  BY DEF RefuseSave, TryFails
<1>6. /\ ~Acknowledge /\ ~EmitFails /\ ~EngineFails /\ ~SaveFailure /\ ~SaveFinished /\ ~Crash /\ ~TakeOver
      /\ ~(\E streamed \in BOOLEAN : Cancelled(streamed) \/ HandleError(streamed))
  BY DEF Acknowledge, EmitFails, EngineFails, SaveFailure, SaveFinished, Crash, TakeOver, Cancelled,
         HandleError
<1>7. ~UNCHANGED transcriptVars
  BY DEF transcriptVars
<1> QED BY <1>1, <1>2, <1>3, <1>4, <1>5, <1>6, <1>7 DEF TranscriptNext

\* A save that reports success has put everything the worker recorded since it
\* loaded the session into the transcript.
THEOREM SavesAreComplete == TranscriptSpec => SavedIsComplete
<1>1. TInv /\ [TranscriptNext]_transcriptVars =>
        [at = "save" /\ prop' # prop => said \subseteq Ids']_transcriptVars
  BY SaveCompletes
<1> QED BY <1>1, TranscriptInductive, PTL DEF TranscriptSpec, SavedIsComplete
========================================================================
