------------------------- MODULE SessionStoreProofs -------------------------
(***************************************************************************)
(* Proofs about SessionStore, for any number of writers, processes,        *)
(* proposals and tries and any lease length.  The invariants the runs      *)
(* check are not inductive; IInv below adds what each writer's copy, its   *)
(* pending commit id and its open transaction have to do with the log.     *)
(* The last part is about the row locks those transactions take.           *)
(***************************************************************************)
EXTENDS SessionStore, RowLocks, TLAPS, SequenceTheorems

\* Revision, receipts and stored content move together.
HistoryInv == revision = Len(log) /\ state = Committed

\* A receipt belongs to a proposal its writer has made, under the fence the
\* writer still has, and no proposal has two.
ReceiptInv ==
    /\ \A i \in DOMAIN log :
        /\ log[i].commit[1] = log[i].writer
        /\ log[i].commit[2] <= made[log[i].writer]
        /\ log[i].fence = myFence[log[i].writer]
    /\ \A i, j \in DOMAIN log : log[i].commit = log[j].commit => i = j

\* Fences are handed out once, to runs only, and never taken back.
FenceInv ==
    /\ \A w \in Writers : /\ myFence[w] <= fence
                          /\ myFence[w] > 0 => Kind[w] = "run"
    /\ \A v, w \in Writers : myFence[v] = myFence[w] /\ myFence[v] > 0 => v = w

\* A handler that has not got its lease yet has proposed nothing.
PcInv ==
    \A w \in Writers :
        /\ pc[w] \in {"idle", "loaded"} => made[w] = 0 /\ myFence[w] = 0
        /\ pc[w] = "loaded" => Kind[w] = "run"
        /\ pc[w] \in {"saving", "committing", "retry"} => made[w] > 0

\* A writer's copy is the prefix of the history that it has seen, and a
\* receipt it does not know of is that of the revision right after it.
CopyInv ==
    \A w \in Writers :
        /\ seen[w] <= Len(log)
        /\ view[w] = {log[i].commit : i \in 1..seen[w]}
        /\ \A i \in DOMAIN log :
            log[i].commit = Commit(w) /\ outcome[Commit(w)] # "acked" => i = seen[w] + 1

\* Reports are about proposals made; the pending one has none yet; an
\* acknowledged proposal has its receipt and a rejected one does not.
ReportInv ==
    /\ \A w \in Writers :
        /\ \A n \in 1..MaxSaves[w] : n > made[w] => outcome[<<w, n>>] = "none"
        /\ pc[w] \in {"saving", "committing", "retry"} => outcome[Commit(w)] = "none"
    /\ \A i \in DOMAIN log : outcome[log[i].commit] # "rejected"
    /\ \A c \in CommitIds :
        outcome[c] = "acked" => \E i \in DOMAIN log : log[i].commit = c

\* An open transaction holds the row: it is the only one, nothing it checked
\* has changed, and its receipt is not written yet.
OpenTx(w) ==
    /\ pc[w] \in {"saving", "committing", "retry", "unresolved", "crashed"}
    /\ \A v \in Writers : tx[v] => v = w
    /\ made[w] > 0
    /\ seen[w] = Len(log)
    /\ \A i \in DOMAIN log : log[i].commit # Commit(w)
    /\ outcome[Commit(w)] \in {"none", "unresolved"}
    /\ IF Kind[w] = "run" THEN owner = w /\ fence = myFence[w] ELSE owner = None

OpenInv ==
    \A w \in Writers :
        /\ pc[w] = "committing" => tx[w]
        /\ tx[w] => OpenTx(w)

\* Of the commits made under a lease, the fences are in order.
OrderInv ==
    \A i, j \in DOMAIN log :
        i < j /\ log[i].fence > 0 /\ log[j].fence > 0 => log[i].fence <= log[j].fence

IInv ==
    /\ TypeOK /\ HistoryInv /\ ReceiptInv /\ FenceInv /\ PcInv
    /\ CopyInv /\ ReportInv /\ OpenInv /\ OrderInv

----------------------------------------------------------------------------
(* Commit ids, and which actions touch which variables. *)

\* A commit id is a writer and the number of one of its proposals.
LEMMA CommitIdPairs ==
    \A w \in Writers, n \in Nat : <<w, n>> \in CommitIds <=> n \in 1..MaxSaves[w]
BY DEF CommitIds

\* Taken apart, a commit id names its writer (session id, commit_id in save).
LEMMA CommitIdParts ==
    \A c \in CommitIds :
        /\ c = <<c[1], c[2]>> /\ c[1] \in Writers
        /\ c[2] \in 1..MaxSaves[c[1]]
BY DEF CommitIds

\* Updating a function at one point keeps its type.
LEMMA ExceptType ==
    ASSUME NEW S, NEW T, NEW f \in [S -> T], NEW s \in S, NEW t \in T
    PROVE  [f EXCEPT ![s] = t] \in [S -> T]
OBVIOUS

\* What the type of the log says of its entries.
LEMMA LogEntries ==
    ASSUME TypeOK
    PROVE  /\ Len(log) \in Nat /\ DOMAIN log = 1..Len(log)
           /\ \A i \in 1..Len(log) :
                /\ log[i].commit \in CommitIds
                /\ log[i].writer \in Writers
                /\ log[i].fence \in Nat
<1> DEFINE E == [commit : CommitIds, writer : Writers, fence : Nat]
<1>1. log \in Seq(E)
  BY DEF TypeOK
<1> HIDE DEF E
<1>2. Len(log) \in Nat /\ DOMAIN log = 1..Len(log) /\ \A i \in 1..Len(log) : log[i] \in E
  BY <1>1
<1> QED BY <1>2 DEF E

\* Type correctness of every action of SessionStore.
LEMMA TypeStep == TypeOK /\ OpenInv /\ [Next]_vars => TypeOK'
<1> SUFFICES ASSUME TypeOK, OpenInv, [Next]_vars PROVE TypeOK'
  OBVIOUS
<1> USE ConstantsAssumption
<1>1. ASSUME NEW w \in Writers, Create(w) \/ Refuse(w) \/ OwnershipConflict(w)
      PROVE  TypeOK'
  BY <1>1 DEF TypeOK, Create, Refuse, OwnershipConflict, Running,
              rowVars, leaseVars, copyVars, saveVars
<1>2. ASSUME NEW w \in Writers, Load(w) PROVE TypeOK'
  BY <1>2 DEF TypeOK, Load, Running, rowVars, leaseVars, saveVars
<1>3. ASSUME NEW w \in Writers, AcquireExecutionLease(w) PROVE TypeOK'
  BY <1>3 DEF TypeOK, AcquireExecutionLease, Running, rowVars, saveVars
<1>4. ASSUME NEW w \in Writers, NEW last \in BOOLEAN, Propose(w, last) PROVE TypeOK'
  BY <1>4 DEF TypeOK, Propose, Running, rowVars, leaseVars, copyVars
<1>5. ASSUME NEW w \in Writers, SaveReceipt(w) PROVE TypeOK'
  <2>1. PICK i \in DOMAIN log :
            /\ log[i].commit = Commit(w)
            /\ seen' = [seen EXCEPT ![w] = i]
            /\ pc' = [pc EXCEPT ![w] = IF i # revision THEN "stale"
                                       ELSE IF final[w] THEN "finished" ELSE "ready"]
    BY <1>5 DEF SaveReceipt
  <2>2. i \in Nat /\ Commit(w) \in CommitIds
    BY <2>1, LogEntries
  <2>3. view' \in [Writers -> SUBSET CommitIds] /\ seen' \in [Writers -> Nat]
    BY <1>5, <2>1, <2>2 DEF TypeOK, SaveReceipt
  <2>4. pc' \in [Writers -> Running \cup {"idle", "done", "crashed"}]
    <3>1. \E l \in {"stale", "finished", "ready"} : pc' = [pc EXCEPT ![w] = l]
      BY <2>1, Zenon
    <3> QED BY <3>1 DEF TypeOK, Running
  <2> QED
    BY <1>5, <2>2, <2>3, <2>4 DEF TypeOK, SaveReceipt, rowVars, leaseVars, saveVars
<1>6. ASSUME NEW w \in Writers, SaveReject(w) \/ GiveUp(w) PROVE TypeOK'
  BY <1>6 DEF TypeOK, SaveReject, GiveUp, Running, rowVars, leaseVars, copyVars, saveVars
<1>7. ASSUME NEW w \in Writers, SaveWrite(w) \/ TxAbort(w) PROVE TypeOK'
  BY <1>7 DEF TypeOK, SaveWrite, TxAbort, Running, rowVars, leaseVars, copyVars, saveVars
<1>8. ASSUME NEW w \in Writers, TxCommit(w) PROVE TypeOK'
  <2>1. made[w] \in 1..MaxSaves[w]
    BY <1>8 DEF TypeOK, TxCommit, OpenInv, OpenTx
  <2>2. Commit(w) \in CommitIds
    BY <2>1, CommitIdPairs DEF Commit
  <2>3. log' \in Seq([commit : CommitIds, writer : Writers, fence : Nat])
    BY <1>8, <2>2 DEF TypeOK, TxCommit
  <2>4. tx' \in [Writers -> BOOLEAN] /\ auth' \in [Writers -> BOOLEAN]
    BY <1>8, Zenon DEF TypeOK, TxCommit
  <2>5. revision' \in Nat /\ state' \subseteq CommitIds
    BY <1>8, <2>2 DEF TypeOK, TxCommit
  <2>6. seen' \in [Writers -> Nat] /\ view' \in [Writers -> SUBSET CommitIds]
    <3>1. seen' = seen \/ seen' = [seen EXCEPT ![w] = revision + 1]
      BY <1>8, Zenon DEF TxCommit
    <3>2. view' = view \/ view' = [view EXCEPT ![w] = view[w] \cup {Commit(w)}]
      BY <1>8, Zenon DEF TxCommit
    <3>3. view[w] \cup {Commit(w)} \in SUBSET CommitIds
      BY <2>2 DEF TypeOK
    <3>4. view \in [Writers -> SUBSET CommitIds] /\ seen \in [Writers -> Nat]
      BY DEF TypeOK
    <3>5. revision + 1 \in Nat
      BY DEF TypeOK
    <3>6. view' \in [Writers -> SUBSET CommitIds]
      BY <3>2, <3>3, <3>4, ExceptType
    <3>7. seen' \in [Writers -> Nat]
      BY <3>1, <3>4, <3>5, ExceptType
    <3> QED BY <3>6, <3>7
  <2>7. pc' \in [Writers -> Running \cup {"idle", "done", "crashed"}]
    <3>1. pc' = pc \/ \E l \in {"finished", "ready"} : pc' = [pc EXCEPT ![w] = l]
      BY <1>8, Zenon DEF TxCommit
    <3> QED BY <3>1 DEF TypeOK, Running
  <2>8. outcome' \in [CommitIds -> {"none", "acked", "rejected", "unresolved"}]
    BY <1>8, <2>2 DEF TypeOK, TxCommit
  <2> QED
    BY <1>8, <2>3, <2>4, <2>5, <2>6, <2>7, <2>8 DEF TypeOK, TxCommit, leaseVars, saveVars
<1>9. ASSUME NEW w \in Writers, IoError(w) \/ Retry(w) \/ LoseCommand(w) PROVE TypeOK'
  <2>1. tries' \in [Writers -> 0..(MaxTries - 1)]
    <3>1. CASE Retry(w)
      <4>1. tries[w] \in Nat /\ tries[w] + 1 <= MaxTries - 1
        BY <3>1 DEF TypeOK, Retry
      <4> QED BY <3>1, <4>1 DEF TypeOK, Retry
    <3>2. CASE IoError(w) \/ LoseCommand(w)
      BY <3>2 DEF TypeOK, IoError, LoseCommand, saveVars
    <3> QED BY <1>9, <3>1, <3>2
  <2> QED BY <1>9, <2>1 DEF TypeOK, IoError, Retry, LoseCommand, Running, rowVars, leaseVars, copyVars, saveVars
<1>10. ASSUME NEW w \in Writers, RenewExecutionLease(w) \/ Release(w) PROVE TypeOK'
  <2>1. ttl' \in 0..LeaseTicks /\ owner' \in Writers \cup {None}
    BY <1>10 DEF TypeOK, RenewExecutionLease, Release
  <2> QED BY <1>10, <2>1 DEF TypeOK, RenewExecutionLease, Release, Running, rowVars, leaseVars, copyVars, saveVars
<1>11. CASE Tick
  BY <1>11 DEF TypeOK, Tick, rowVars, copyVars, saveVars
<1>12. ASSUME NEW p \in Processes, Crash(p) PROVE TypeOK'
  BY <1>12 DEF TypeOK, Crash, Running, rowVars, leaseVars, copyVars, saveVars
<1>13. CASE UNCHANGED vars
  BY <1>13 DEF TypeOK, vars, rowVars, leaseVars, copyVars, saveVars
<1> QED
  BY <1>1, <1>2, <1>3, <1>4, <1>5, <1>6, <1>7, <1>8, <1>9, <1>10, <1>11, <1>12, <1>13
     DEF Next, Client, Server

\* Only a commit changes the row and its receipts.
LEMMA RowFrame ==
    ASSUME [Next]_vars
    PROVE  (\E w \in Writers : TxCommit(w)) \/ UNCHANGED <<revision, state, log>>
BY DEF Next, Client, Server, vars, rowVars, Create, Load, Refuse, AcquireExecutionLease,
       OwnershipConflict, Propose, SaveReceipt, SaveReject, SaveWrite, TxAbort, IoError,
       Retry, GiveUp, RenewExecutionLease, Release, LoseCommand, Tick, Crash

\* Only an acquisition changes the fence and hands it out.
LEMMA FenceFrame ==
    ASSUME [Next]_vars
    PROVE  \/ \E w \in Writers : AcquireExecutionLease(w)
           \/ UNCHANGED <<fence, myFence>>
BY DEF Next, Client, Server, vars, leaseVars, copyVars, Create, Load, Refuse, TxCommit,
       OwnershipConflict, Propose, SaveReceipt, SaveReject, SaveWrite, TxAbort, IoError,
       Retry, GiveUp, RenewExecutionLease, Release, LoseCommand, Tick, Crash

\* Only a proposal moves the writer's commit id.
LEMMA MadeFrame ==
    ASSUME [Next]_vars
    PROVE  \/ \E w \in Writers, last \in BOOLEAN : Propose(w, last)
           \/ UNCHANGED made
BY DEF Next, Client, Server, vars, saveVars, Create, Load, Refuse, TxCommit,
       OwnershipConflict, AcquireExecutionLease, SaveReceipt, SaveReject, SaveWrite, TxAbort,
       IoError, Retry, GiveUp, RenewExecutionLease, Release, LoseCommand, Tick, Crash

\* The commits of a log and those of the log with one more entry.
LEMMA CommitsSnoc ==
    ASSUME NEW n \in Nat, NEW F, NEW G, \A i \in 1..n : G[i] = F[i]
    PROVE  {G[i].commit : i \in 1..(n + 1)} = {F[i].commit : i \in 1..n} \cup {G[n + 1].commit}
<1>1. 1..(n + 1) = 1..n \cup {n + 1}
  OBVIOUS
<1>2. {G[i].commit : i \in 1..(n + 1)} = {G[i].commit : i \in 1..n} \cup {G[n + 1].commit}
  BY <1>1, Zenon
<1>3. {G[i].commit : i \in 1..n} = {F[i].commit : i \in 1..n}
  OBVIOUS
<1> QED BY <1>2, <1>3

\* A commit adds one entry to the log.
LEMMA Appended ==
    ASSUME TypeOK, NEW w \in Writers, TxCommit(w)
    PROVE  /\ Len(log') = Len(log) + 1 /\ DOMAIN log' = 1..(Len(log) + 1)
           /\ \A i \in 1..Len(log) : log'[i] = log[i]
           /\ log'[Len(log) + 1].commit = Commit(w)
           /\ log'[Len(log) + 1].writer = w
           /\ log'[Len(log) + 1].fence = myFence[w]
<1> DEFINE E == [commit : CommitIds, writer : Writers, fence : Nat]
           e == [commit |-> Commit(w), writer |-> w, fence |-> myFence[w]]
<1>1. log \in Seq(E) /\ log' = Append(log, e)
  BY DEF TypeOK, TxCommit
<1> HIDE DEF E, e
<1>2. log \in Seq(E \cup {e}) /\ e \in E \cup {e}
  BY <1>1
<1>3. /\ Len(log') = Len(log) + 1 /\ DOMAIN log' = 1..(Len(log) + 1)
      /\ \A i \in 1..Len(log) : log'[i] = log[i]
      /\ log'[Len(log) + 1] = e
  BY <1>1, <1>2
<1>4. e.commit = Commit(w) /\ e.writer = w /\ e.fence = myFence[w]
  BY DEF e
<1> QED BY <1>3, <1>4

----------------------------------------------------------------------------
(* Each part of IInv is preserved. *)

\* Only AcquireExecutionLease hands out a fence, and it hands out a new one.
LEMMA FenceStep == ASSUME IInv, [Next]_vars PROVE FenceInv'
<1>1. ASSUME NEW w \in Writers, AcquireExecutionLease(w) PROVE FenceInv'
  BY <1>1 DEF IInv, TypeOK, FenceInv, PcInv, AcquireExecutionLease
<1>2. CASE UNCHANGED <<fence, myFence>>
  BY <1>2 DEF IInv, FenceInv
<1> QED BY <1>1, <1>2, FenceFrame

\* A commit moves revision, receipts and content together, because save_inner
\* compared the revision under the row lock.
LEMMA HistoryStep == ASSUME IInv, [Next]_vars PROVE HistoryInv'
<1>1. ASSUME NEW w \in Writers, TxCommit(w) PROVE HistoryInv'
  <2>1. seen[w] = Len(log) /\ Len(log) \in Nat /\ DOMAIN log = 1..Len(log)
    BY <1>1, LogEntries DEF IInv, OpenInv, OpenTx, TxCommit
  <2>2. view[w] = {log[i].commit : i \in 1..Len(log)}
    BY <2>1 DEF IInv, CopyInv
  <2>3. state' = {log[i].commit : i \in 1..Len(log)} \cup {Commit(w)}
    BY <1>1, <2>2 DEF TxCommit
  <2>4. Committed' = {log'[i].commit : i \in 1..(Len(log) + 1)}
    BY <1>1, Appended DEF IInv, Committed
  <2>5. state' = Committed'
    <3>1. /\ \A i \in 1..Len(log) : log'[i] = log[i]
          /\ log'[Len(log) + 1].commit = Commit(w)
      BY <1>1, Appended DEF IInv
    <3>2. {log'[i].commit : i \in 1..(Len(log) + 1)}
            = {log[i].commit : i \in 1..Len(log)} \cup {log'[Len(log) + 1].commit}
      BY <2>1, <3>1, CommitsSnoc
    <3> QED BY <2>3, <2>4, <3>1, <3>2, Zenon
  <2>6. revision' = Len(log')
    BY <1>1, Appended DEF IInv, HistoryInv, TxCommit
  <2> QED BY <2>5, <2>6 DEF HistoryInv
<1>2. CASE UNCHANGED <<revision, state, log>>
  BY <1>2 DEF IInv, HistoryInv, Committed
<1> QED BY <1>1, <1>2, RowFrame

\* A commit writes the receipt of the pending proposal, which had none; a new
\* proposal takes a commit id that has none.
LEMMA ReceiptStep == ASSUME IInv, [Next]_vars PROVE ReceiptInv'
<1> USE ConstantsAssumption
<1>1. ASSUME NEW w \in Writers, TxCommit(w) PROVE ReceiptInv'
  <2>1. made[w] \in Nat /\ myFence' = myFence /\ made' = made
    BY <1>1 DEF IInv, TypeOK, TxCommit, saveVars
  <2>2. \A i \in 1..Len(log) : log[i].commit # Commit(w)
    BY <1>1, LogEntries DEF IInv, OpenInv, OpenTx, TxCommit
  <2> DEFINE n == Len(log)
  <2>3. /\ n \in Nat /\ DOMAIN log = 1..n /\ DOMAIN log' = 1..(n + 1)
        /\ \A i \in 1..n : log'[i] = log[i]
        /\ log'[n + 1].commit = Commit(w) /\ log'[n + 1].writer = w
        /\ log'[n + 1].fence = myFence[w]
    BY <1>1, LogEntries, Appended DEF IInv
  <2>4. \A i \in 1..(n + 1) : i \in 1..n \/ i = n + 1
    BY <2>3
  <2> HIDE DEF n
  <2>5. ASSUME NEW i \in 1..(n + 1)
        PROVE  /\ log'[i].commit[1] = log'[i].writer
               /\ log'[i].commit[2] <= made[log'[i].writer]
               /\ log'[i].fence = myFence[log'[i].writer]
    <3>1. CASE i \in 1..n
      BY <2>3, <3>1 DEF IInv, ReceiptInv
    <3>2. CASE i = n + 1
      BY <2>1, <2>3, <3>2 DEF Commit
    <3> QED BY <2>4, <3>1, <3>2
  <2>6. ASSUME NEW i \in 1..(n + 1), NEW j \in 1..(n + 1), log'[i].commit = log'[j].commit
        PROVE  i = j
    <3>1. \A k \in 1..n : log[k].commit # Commit(w)
      BY <2>2 DEF n
    <3>2. CASE i \in 1..n /\ j \in 1..n
      BY <2>3, <2>6, <3>2 DEF IInv, ReceiptInv
    <3>3. CASE i \in 1..n /\ j = n + 1
      BY <2>3, <2>6, <3>1, <3>3
    <3>4. CASE i = n + 1 /\ j \in 1..n
      BY <2>3, <2>6, <3>1, <3>4
    <3> QED BY <2>4, <3>2, <3>3, <3>4
  <2> QED BY <2>1, <2>3, <2>5, <2>6 DEF ReceiptInv
<1>2. ASSUME NEW w \in Writers, AcquireExecutionLease(w) PROVE ReceiptInv'
  <2>1. log' = log /\ made' = made /\ made[w] = 0 /\ \A v \in Writers \ {w} : myFence'[v] = myFence[v]
    BY <1>2 DEF IInv, TypeOK, PcInv, AcquireExecutionLease, rowVars, saveVars
  <2>2. \A i \in 1..Len(log) : log[i].writer # w
    BY <2>1, LogEntries, CommitIdParts DEF IInv, ReceiptInv
  <2> QED BY <2>1, <2>2, LogEntries DEF IInv, ReceiptInv
<1>3. ASSUME NEW w \in Writers, NEW last \in BOOLEAN, Propose(w, last) PROVE ReceiptInv'
  <2>1. log' = log /\ myFence' = myFence /\ \A v \in Writers : made[v] \in Nat /\ made'[v] >= made[v]
    BY <1>3 DEF IInv, TypeOK, Propose, rowVars, copyVars
  <2>2. \A v \in Writers : made'[v] \in Nat
    BY <1>3 DEF IInv, TypeOK, Propose
  <2>3. \A i \in 1..Len(log) : log[i].commit[2] \in Nat
    BY LogEntries, CommitIdParts DEF IInv
  <2> QED BY <2>1, <2>2, <2>3, LogEntries DEF IInv, ReceiptInv
<1>4. CASE UNCHANGED <<log, made, myFence>>
  BY <1>4 DEF IInv, ReceiptInv
<1> QED BY <1>1, <1>2, <1>3, <1>4, RowFrame, FenceFrame, MadeFrame

\* A commit under a lease carries the current fence, which no earlier commit
\* exceeds.
LEMMA OrderStep == ASSUME IInv, [Next]_vars PROVE OrderInv'
<1>1. ASSUME NEW w \in Writers, TxCommit(w) PROVE OrderInv'
  <2>1. myFence[w] > 0 => fence = myFence[w]
    BY <1>1 DEF IInv, OpenInv, OpenTx, FenceInv, TxCommit
  <2>2. \A i \in 1..Len(log) : log[i].fence <= fence
    BY LogEntries DEF IInv, ReceiptInv, FenceInv
  <2> DEFINE n == Len(log)
  <2>3. /\ n \in Nat /\ DOMAIN log = 1..n /\ DOMAIN log' = 1..(n + 1)
        /\ \A i \in 1..n : log'[i] = log[i]
        /\ log'[n + 1].fence = myFence[w]
    BY <1>1, LogEntries, Appended DEF IInv
  <2>4. \A i \in 1..n : log[i].fence <= fence
    BY <2>2
  <2> HIDE DEF n
  <2>5. ASSUME NEW i \in 1..(n + 1), NEW j \in 1..(n + 1), i < j,
               log'[i].fence > 0, log'[j].fence > 0
        PROVE  log'[i].fence <= log'[j].fence
    <3>1. i \in 1..n
      BY <2>3, <2>5
    <3>2. CASE j \in 1..n
      BY <2>3, <2>5, <3>1, <3>2 DEF IInv, OrderInv
    <3>3. CASE j = n + 1
      BY <2>1, <2>3, <2>4, <2>5, <3>1, <3>3
    <3> QED BY <2>3, <3>2, <3>3
  <2> QED BY <2>3, <2>5 DEF OrderInv
<1>2. CASE UNCHANGED <<revision, state, log>>
  BY <1>2 DEF IInv, OrderInv
<1> QED BY <1>1, <1>2, RowFrame

\* Where a writer goes when the receipt is found, and when the server commits.
LEMMA ReceiptGoto ==
    ASSUME NEW w \in Writers, SaveReceipt(w)
    PROVE  \E l \in {"stale", "finished", "ready"} : pc' = [pc EXCEPT ![w] = l]
BY Zenon DEF SaveReceipt

\* After COMMIT a waiting client goes on or is finished.
LEMMA CommitGoto ==
    ASSUME NEW w \in Writers, TxCommit(w)
    PROVE  \/ pc[w] # "committing" /\ pc' = pc
           \/ /\ pc[w] = "committing"
              /\ \E l \in {"finished", "ready"} : pc' = [pc EXCEPT ![w] = l]
BY Zenon DEF TxCommit

\* No handler proposes before it has its lease.
LEMMA PcStep == ASSUME IInv, [Next]_vars PROVE PcInv'
<1> USE ConstantsAssumption DEF IInv
<1>1. ASSUME NEW w \in Writers, Create(w) \/ Refuse(w) \/ OwnershipConflict(w) \/ Load(w)
      PROVE  PcInv'
  <2>1. made' = made /\ myFence' = myFence
    BY <1>1, Zenon DEF Create, Refuse, OwnershipConflict, Load, copyVars, saveVars
  <2>2. PICK l \in {"ready", "done", "loaded"} : pc' = [pc EXCEPT ![w] = l]
    BY <1>1, Zenon DEF Create, Refuse, OwnershipConflict, Load
  <2>3. l = "loaded" => made[w] = 0 /\ myFence[w] = 0 /\ Kind[w] = "run"
    <3>1. pc'[w] = l
      BY <2>2 DEF TypeOK
    <3> QED BY <1>1, <3>1 DEF TypeOK, PcInv, Create, Refuse, OwnershipConflict, Load
  <2> QED BY <2>1, <2>2, <2>3 DEF TypeOK, PcInv
<1>2. ASSUME NEW w \in Writers, AcquireExecutionLease(w) PROVE PcInv'
  BY <1>2 DEF TypeOK, PcInv, AcquireExecutionLease, saveVars
<1>3. ASSUME NEW w \in Writers, NEW last \in BOOLEAN, Propose(w, last) PROVE PcInv'
  BY <1>3 DEF TypeOK, PcInv, Propose, copyVars
<1>4. ASSUME NEW w \in Writers, SaveReceipt(w) PROVE PcInv'
  <2>1. made' = made /\ myFence' = myFence
    BY <1>4 DEF SaveReceipt, saveVars
  <2> QED BY <1>4, <2>1, ReceiptGoto DEF TypeOK, PcInv
<1>5. ASSUME NEW w \in Writers, SaveReject(w) \/ GiveUp(w) \/ SaveWrite(w) PROVE PcInv'
  BY <1>5 DEF TypeOK, PcInv, SaveReject, GiveUp, SaveWrite, Trying, copyVars, saveVars
<1>6. ASSUME NEW w \in Writers, TxCommit(w) PROVE PcInv'
  <2>1. made' = made /\ myFence' = myFence
    BY <1>6 DEF TxCommit, saveVars
  <2> QED BY <1>6, <2>1, CommitGoto DEF TypeOK, PcInv
<1>7. ASSUME NEW w \in Writers, TxAbort(w) \/ IoError(w) \/ Retry(w) PROVE PcInv'
  BY <1>7 DEF TypeOK, PcInv, TxAbort, IoError, Retry, Trying, copyVars, saveVars
<1>8. ASSUME NEW w \in Writers, RenewExecutionLease(w) \/ Release(w) \/ LoseCommand(w)
      PROVE  PcInv'
  BY <1>8 DEF TypeOK, PcInv, RenewExecutionLease, Release, LoseCommand, copyVars, saveVars
<1>9. CASE Tick
  BY <1>9 DEF PcInv, Tick, copyVars, saveVars
<1>10. ASSUME NEW p \in Processes, Crash(p) PROVE PcInv'
  BY <1>10 DEF TypeOK, PcInv, Crash, copyVars, saveVars
<1>11. CASE UNCHANGED vars
  BY <1>11 DEF PcInv, vars, copyVars, saveVars
<1> QED
  BY <1>1, <1>2, <1>3, <1>4, <1>5, <1>6, <1>7, <1>8, <1>9, <1>10, <1>11
     DEF Next, Client, Server

\* Commit ids of different writers differ, and those of proposals are typed.
LEMMA CommitIdFacts ==
    ASSUME TypeOK
    PROVE  /\ \A v, w \in Writers : Commit(v) = Commit(w) => v = w
           /\ \A w \in Writers : made[w] > 0 => Commit(w) \in CommitIds
<1>1. \A w \in Writers : made[w] \in Nat /\ made[w] <= MaxSaves[w] /\ MaxSaves[w] \in Nat
  BY ConstantsAssumption DEF TypeOK
<1> QED BY <1>1, CommitIdPairs DEF Commit

\* The transaction of a writer the step does not concern stays as it is.
LEMMA OpenKept ==
    ASSUME IInv, NEW v \in Writers, log' = log,
           \A u \in Writers : tx'[u] => tx[u],
           pc'[v] = pc[v], tx'[v] = tx[v], seen'[v] = seen[v], made'[v] = made[v],
           outcome'[Commit(v)] = outcome[Commit(v)],
           tx[v] => UNCHANGED <<owner, fence, myFence>>
    PROVE  /\ pc'[v] = "committing" => tx'[v]
           /\ tx'[v] => OpenTx(v)'
BY DEF IInv, OpenInv, OpenTx, Commit

\* While a transaction waits for COMMIT its row lock keeps everything that
\* save_inner checked as it was.
LEMMA OpenStep == ASSUME IInv, [Next]_vars PROVE OpenInv'
<1> USE DEF IInv
<1>1. ASSUME NEW w \in Writers, Create(w) \/ Refuse(w) \/ OwnershipConflict(w) \/ Load(w)
      PROVE  OpenInv'
  <2> SUFFICES ASSUME NEW v \in Writers
               PROVE  (pc'[v] = "committing" => tx'[v]) /\ (tx'[v] => OpenTx(v)')
    BY DEF OpenInv
  <2>1. UNCHANGED <<log, tx, made, outcome, owner, fence, myFence>>
    BY <1>1 DEF Create, Refuse, OwnershipConflict, Load, rowVars, leaseVars, copyVars, saveVars
  <2>2. CASE v = w
    BY <1>1, <2>1, <2>2 DEF TypeOK, OpenInv, OpenTx, Create, Refuse, OwnershipConflict, Load
  <2>3. CASE v # w
    <3>1. pc'[v] = pc[v] /\ seen'[v] = seen[v]
      BY <1>1, <2>3 DEF TypeOK, Create, Refuse, OwnershipConflict, Load, copyVars
    <3> QED BY <2>1, <3>1, OpenKept
  <2> QED BY <2>2, <2>3
<1>2. ASSUME NEW w \in Writers, AcquireExecutionLease(w) PROVE OpenInv'
  BY <1>2 DEF TypeOK, OpenInv, AcquireExecutionLease, Unlocked, rowVars, saveVars
<1>3. ASSUME NEW w \in Writers, NEW last \in BOOLEAN, Propose(w, last) PROVE OpenInv'
  <2> SUFFICES ASSUME NEW v \in Writers
               PROVE  (pc'[v] = "committing" => tx'[v]) /\ (tx'[v] => OpenTx(v)')
    BY DEF OpenInv
  <2>1. UNCHANGED <<log, tx, seen, outcome, owner, fence, myFence>>
    BY <1>3 DEF Propose, rowVars, leaseVars, copyVars
  <2>2. CASE v = w
    BY <1>3, <2>1, <2>2 DEF TypeOK, OpenInv, OpenTx, Propose
  <2>3. CASE v # w
    <3>1. pc'[v] = pc[v] /\ made'[v] = made[v]
      BY <1>3, <2>3 DEF TypeOK, Propose
    <3> QED BY <2>1, <3>1, OpenKept
  <2> QED BY <2>2, <2>3
<1>4. ASSUME NEW w \in Writers, SaveReceipt(w) \/ SaveReject(w) \/ GiveUp(w) PROVE OpenInv'
  <2> SUFFICES ASSUME NEW v \in Writers
               PROVE  (pc'[v] = "committing" => tx'[v]) /\ (tx'[v] => OpenTx(v)')
    BY DEF OpenInv
  <2>1. UNCHANGED <<log, tx, made, owner, fence, myFence>>
    BY <1>4 DEF SaveReceipt, SaveReject, GiveUp, rowVars, leaseVars, copyVars, saveVars
  <2>2. \E l \in {"stale", "finished", "ready", "rejected", "unresolved"} :
            pc' = [pc EXCEPT ![w] = l]
    BY <1>4, ReceiptGoto DEF SaveReject, GiveUp
  <2>3. \E o \in {"acked", "rejected", "unresolved"} :
            outcome' = [outcome EXCEPT ![Commit(w)] = o]
    BY <1>4 DEF SaveReceipt, SaveReject, GiveUp
  <2>4. CASE v = w
    <3>1. CASE GiveUp(w)
      <4>1. Commit(w) \in CommitIds
        BY <3>1, CommitIdFacts DEF PcInv, GiveUp
      <4>2. pc'[w] = "unresolved" /\ seen' = seen /\ outcome'[Commit(w)] = "unresolved"
        BY <3>1, <4>1 DEF TypeOK, GiveUp, copyVars
      <4> QED BY <2>1, <2>4, <4>2 DEF OpenInv, OpenTx, Commit
    <3>2. CASE SaveReceipt(w) \/ SaveReject(w)
      BY <2>1, <2>2, <2>4, <3>2 DEF TypeOK, SaveReceipt, SaveReject, Trying
    <3> QED BY <1>4, <3>1, <3>2
  <2>5. CASE v # w
    <3>1. pc'[v] = pc[v]
      BY <2>2, <2>5 DEF TypeOK
    <3>2. seen'[v] = seen[v]
      BY <1>4, <2>5 DEF TypeOK, SaveReceipt, SaveReject, GiveUp, copyVars
    <3>3. Commit(v) # Commit(w)
      BY <2>5, CommitIdFacts
    <3>4. outcome'[Commit(v)] = outcome[Commit(v)] \/ made[v] = 0
      BY <2>3, <3>3, CommitIdFacts DEF TypeOK
    <3>5. tx[v] => made[v] > 0
      BY DEF OpenInv, OpenTx
    <3> QED BY <2>1, <3>1, <3>2, <3>4, <3>5, OpenKept DEF OpenInv
  <2> QED BY <2>4, <2>5
<1>6. ASSUME NEW w \in Writers, SaveWrite(w) PROVE OpenInv'
  <2>1. UNCHANGED <<log, made, seen, outcome, owner, fence, myFence>>
    BY <1>6 DEF SaveWrite, rowVars, leaseVars, copyVars, saveVars
  <2>2. /\ pc[w] = "saving" /\ pc' = [pc EXCEPT ![w] = "committing"]
        /\ tx' = [tx EXCEPT ![w] = TRUE] /\ \A v \in Writers : ~tx[v]
    BY <1>6 DEF SaveWrite, Trying, Unlocked
  <2>3. \A v \in Writers : tx'[v] <=> v = w
    BY <2>2 DEF TypeOK
  <2>4. pc'[w] = "committing" /\ \A v \in Writers \ {w} : pc'[v] # "committing"
    BY <2>2 DEF TypeOK, OpenInv
  <2>5. made[w] > 0 /\ seen[w] = Len(log) /\ outcome[Commit(w)] = "none"
    BY <1>6, <2>2 DEF PcInv, HistoryInv, ReportInv, SaveWrite
  <2>6. \A i \in DOMAIN log : log[i].commit # Commit(w)
    BY <1>6 DEF SaveWrite, Committed
  <2>7. IF Kind[w] = "run" THEN owner = w /\ fence = myFence[w] ELSE owner = None
    BY <1>6 DEF SaveWrite, LeaseOk
  <2>8. OpenTx(w)'
    BY <2>1, <2>3, <2>4, <2>5, <2>6, <2>7 DEF OpenTx, Commit
  <2> QED BY <2>3, <2>4, <2>8 DEF OpenInv
<1>7. ASSUME NEW w \in Writers, TxCommit(w) \/ TxAbort(w) PROVE OpenInv'
  <2>1. \A v \in Writers : tx[v] => v = w
    BY <1>7 DEF OpenInv, OpenTx, TxCommit, TxAbort
  <2>2. tx' = [tx EXCEPT ![w] = FALSE]
    BY <1>7 DEF TxCommit, TxAbort
  <2>3. \A v \in Writers : ~tx'[v]
    BY <2>1, <2>2 DEF TypeOK
  <2>4. \/ pc' = pc /\ pc[w] # "committing"
        \/ \E l \in {"finished", "ready", "retry"} : pc' = [pc EXCEPT ![w] = l]
    <3>1. CASE TxCommit(w)
      BY <3>1, CommitGoto
    <3>2. CASE TxAbort(w)
      BY <3>2 DEF TxAbort, TypeOK
    <3> QED BY <1>7, <3>1, <3>2
  <2>5. \A v \in Writers : pc'[v] # "committing"
    BY <2>1, <2>4 DEF TypeOK, OpenInv
  <2> QED BY <2>3, <2>5 DEF OpenInv
<1>9. ASSUME NEW w \in Writers, IoError(w) \/ Retry(w) \/ LoseCommand(w) PROVE OpenInv'
  <2> SUFFICES ASSUME NEW v \in Writers
               PROVE  (pc'[v] = "committing" => tx'[v]) /\ (tx'[v] => OpenTx(v)')
    BY DEF OpenInv
  <2>1. UNCHANGED <<log, tx, made, seen, outcome, owner, fence, myFence>>
    BY <1>9 DEF IoError, Retry, LoseCommand, rowVars, leaseVars, copyVars, saveVars
  <2>2. pc' = pc \/ \E l \in {"retry", "saving"} : pc' = [pc EXCEPT ![w] = l]
    BY <1>9 DEF IoError, Retry, LoseCommand
  <2>3. pc'[v] = pc[v] \/ pc'[v] \in {"retry", "saving"}
    BY <2>2 DEF TypeOK
  <2> QED BY <2>1, <2>3 DEF OpenInv, OpenTx, Commit
<1>10. ASSUME NEW w \in Writers, Release(w) PROVE OpenInv'
  BY <1>10 DEF TypeOK, OpenInv, Release, Unlocked, rowVars, copyVars, saveVars
<1>11. ASSUME NEW w \in Writers, RenewExecutionLease(w) PROVE OpenInv'
  BY <1>11 DEF OpenInv, OpenTx, RenewExecutionLease, Commit, rowVars, copyVars, saveVars
<1>12. CASE Tick
  BY <1>12 DEF OpenInv, OpenTx, Tick, Commit, rowVars, copyVars, saveVars
<1>13. ASSUME NEW p \in Processes, Crash(p) PROVE OpenInv'
  <2>1. \A v \in Writers : pc'[v] = pc[v] \/ pc'[v] = "crashed"
    BY <1>13 DEF Crash
  <2> QED
    BY <1>13, <2>1 DEF OpenInv, OpenTx, Crash, Commit, rowVars, leaseVars, copyVars, saveVars
<1>14. CASE UNCHANGED vars
  BY <1>14 DEF OpenInv, OpenTx, vars, Commit, rowVars, leaseVars, copyVars, saveVars
<1> QED
  BY <1>1, <1>2, <1>3, <1>4, <1>6, <1>7, <1>9, <1>10, <1>11, <1>12, <1>13, <1>14
     DEF Next, Client, Server

\* Reports are made by four actions; the others leave them, the receipts and
\* the proposals alone and start no save.
LEMMA ReportFrame ==
    ASSUME TypeOK, [Next]_vars
    PROVE  \/ \E w \in Writers : \/ TxCommit(w) \/ SaveReceipt(w) \/ SaveReject(w)
                                 \/ GiveUp(w)
           \/ \E w \in Writers, last \in BOOLEAN : Propose(w, last)
           \/ /\ UNCHANGED <<outcome, log, made>>
              /\ \A v \in Writers : pc'[v] \in {"saving", "committing", "retry"}
                                    => pc[v] \in {"saving", "committing", "retry"}
<1> DEFINE Quiet == /\ UNCHANGED <<outcome, log, made>>
                    /\ \A v \in Writers : pc'[v] \in {"saving", "committing", "retry"}
                                          => pc[v] \in {"saving", "committing", "retry"}
<1>1. ASSUME NEW w \in Writers, Create(w) \/ Load(w) \/ Refuse(w) PROVE Quiet
  BY <1>1 DEF TypeOK, Create, Load, Refuse, rowVars, saveVars
<1>2. ASSUME NEW w \in Writers, AcquireExecutionLease(w) \/ OwnershipConflict(w) PROVE Quiet
  BY <1>2 DEF TypeOK, AcquireExecutionLease, OwnershipConflict, rowVars, saveVars
<1>3. ASSUME NEW w \in Writers, SaveWrite(w) \/ TxAbort(w) PROVE Quiet
  BY <1>3 DEF TypeOK, SaveWrite, TxAbort, Trying, rowVars, saveVars
<1>4. ASSUME NEW w \in Writers, IoError(w) \/ Retry(w) PROVE Quiet
  BY <1>4 DEF TypeOK, IoError, Retry, Trying, rowVars, saveVars
<1>5. ASSUME NEW w \in Writers, RenewExecutionLease(w) \/ Release(w) \/ LoseCommand(w)
      PROVE  Quiet
  BY <1>5 DEF TypeOK, RenewExecutionLease, Release, LoseCommand, rowVars, saveVars
<1>6. ASSUME Tick PROVE Quiet
  BY <1>6 DEF Tick, rowVars, saveVars
<1>7. ASSUME NEW p \in Processes, Crash(p) PROVE Quiet
  BY <1>7 DEF Crash, rowVars, saveVars
<1>8. ASSUME UNCHANGED vars PROVE Quiet
  BY <1>8 DEF vars, rowVars, saveVars
<1> HIDE DEF Quiet
<1>9. \/ \E w \in Writers : TxCommit(w) \/ SaveReceipt(w) \/ SaveReject(w) \/ GiveUp(w)
      \/ \E w \in Writers, last \in BOOLEAN : Propose(w, last)
      \/ Quiet
  BY <1>1, <1>2, <1>3, <1>4, <1>5, <1>6, <1>7, <1>8 DEF Next, Client, Server
<1> QED BY <1>9 DEF Quiet

\* What the three reporting actions of a client do.
LEMMA Reported ==
    ASSUME IInv, NEW w \in Writers, SaveReceipt(w) \/ SaveReject(w) \/ GiveUp(w)
    PROVE  /\ UNCHANGED <<log, made>> /\ Commit(w) \in CommitIds
           /\ outcome[Commit(w)] = "none"
           /\ pc'[w] \notin {"saving", "committing", "retry"}
           /\ \A v \in Writers \ {w} : pc'[v] = pc[v]
           /\ \E o \in {"acked", "rejected", "unresolved"} :
                /\ outcome' = [outcome EXCEPT ![Commit(w)] = o]
                /\ o = "acked" => \E i \in DOMAIN log : log[i].commit = Commit(w)
                /\ o = "rejected" => \A i \in DOMAIN log : log[i].commit # Commit(w)
<1>1. UNCHANGED <<log, made>>
  BY DEF SaveReceipt, SaveReject, GiveUp, rowVars, saveVars
<1>2. pc[w] \in {"saving", "retry"}
  BY DEF SaveReceipt, SaveReject, GiveUp, Trying
<1>3. Commit(w) \in CommitIds /\ outcome[Commit(w)] = "none"
  BY <1>2, CommitIdFacts DEF IInv, PcInv, ReportInv
<1>4. \E l \in {"stale", "finished", "ready", "rejected", "unresolved"} :
          pc' = [pc EXCEPT ![w] = l]
  BY ReceiptGoto DEF SaveReject, GiveUp
<1>5. /\ pc'[w] \notin {"saving", "committing", "retry"}
      /\ \A v \in Writers \ {w} : pc'[v] = pc[v]
  BY <1>4 DEF IInv, TypeOK
<1>6. \E o \in {"acked", "rejected", "unresolved"} :
          /\ outcome' = [outcome EXCEPT ![Commit(w)] = o]
          /\ o = "acked" => \E i \in DOMAIN log : log[i].commit = Commit(w)
          /\ o = "rejected" => \A i \in DOMAIN log : log[i].commit # Commit(w)
  <2>1. CASE SaveReceipt(w)
    BY <2>1 DEF SaveReceipt
  <2>2. CASE SaveReject(w)
    BY <2>2 DEF SaveReject, Committed
  <2>3. CASE GiveUp(w)
    BY <2>3 DEF GiveUp
  <2> QED BY <2>1, <2>2, <2>3
<1> QED BY <1>1, <1>3, <1>5, <1>6

\* save reports on its pending proposal once, after looking the receipt up,
\* and a rejected proposal has no open transaction that could still commit.
LEMMA ReportStep == ASSUME IInv, [Next]_vars PROVE ReportInv'
<1> USE ConstantsAssumption
<1>1. ASSUME NEW w \in Writers, NEW last \in BOOLEAN, Propose(w, last) PROVE ReportInv'
  <2>1. /\ UNCHANGED <<log, outcome>>
        /\ made'[w] = made[w] + 1 /\ made'[w] \in 1..MaxSaves[w]
        /\ \A v \in Writers \ {w} : made'[v] = made[v] /\ pc'[v] = pc[v]
    BY <1>1 DEF IInv, TypeOK, Propose, rowVars
  <2>2. ASSUME NEW v \in Writers
        PROVE  /\ \A n \in 1..MaxSaves[v] : n > made'[v] => outcome[<<v, n>>] = "none"
               /\ pc'[v] \in {"saving", "committing", "retry"}
                    => outcome[<<v, made'[v]>>] = "none"
    <3>1. made[v] \in Nat /\ MaxSaves[v] \in Nat
      BY DEF IInv, TypeOK
    <3>2. \A n \in 1..MaxSaves[v] : n > made[v] => outcome[<<v, n>>] = "none"
      BY DEF IInv, ReportInv
    <3>3. CASE v = w
      BY <2>1, <3>1, <3>2, <3>3
    <3>4. CASE v # w
      BY <2>1, <3>1, <3>2, <3>4 DEF IInv, ReportInv, Commit
    <3> QED BY <3>3, <3>4
  <2> QED BY <2>1, <2>2 DEF IInv, ReportInv, Commit
<1>2. ASSUME NEW w \in Writers, SaveReceipt(w) \/ SaveReject(w) \/ GiveUp(w) PROVE ReportInv'
  <2>1. /\ UNCHANGED <<log, made>> /\ Commit(w) \in CommitIds
        /\ pc'[w] \notin {"saving", "committing", "retry"}
        /\ \A v \in Writers \ {w} : pc'[v] = pc[v]
    BY <1>2, Reported
  <2>2. PICK o \in {"acked", "rejected", "unresolved"} :
            /\ outcome' = [outcome EXCEPT ![Commit(w)] = o]
            /\ o = "acked" => \E i \in DOMAIN log : log[i].commit = Commit(w)
            /\ o = "rejected" => \A i \in DOMAIN log : log[i].commit # Commit(w)
    BY <1>2, Reported
  <2>3. outcome'[Commit(w)] = o /\ \A c \in CommitIds \ {Commit(w)} : outcome'[c] = outcome[c]
    BY <2>1, <2>2 DEF IInv, TypeOK
  <2>4. ASSUME NEW v \in Writers
        PROVE  /\ \A n \in 1..MaxSaves[v] : n > made[v] => outcome'[<<v, n>>] = "none"
               /\ pc'[v] \in {"saving", "committing", "retry"} => outcome'[Commit(v)] = "none"
    <3>1. made[v] \in Nat /\ made[w] \in Nat
      BY DEF IInv, TypeOK
    <3>2. \A n \in 1..MaxSaves[v] : n > made[v] => <<v, n>> \in CommitIds \ {Commit(w)}
      BY <3>1, CommitIdPairs DEF Commit
    <3>3. v # w /\ pc[v] \in {"saving", "committing", "retry"}
            => Commit(v) \in CommitIds \ {Commit(w)}
      BY CommitIdFacts DEF IInv, PcInv
    <3>4. \A n \in 1..MaxSaves[v] : n > made[v] => outcome[<<v, n>>] = "none"
      BY DEF IInv, ReportInv
    <3>5. pc[v] \in {"saving", "committing", "retry"} => outcome[Commit(v)] = "none"
      BY DEF IInv, ReportInv
    <3>6. pc'[v] \in {"saving", "committing", "retry"} => v # w /\ pc'[v] = pc[v]
      BY <2>1
    <3> QED BY <2>3, <3>2, <3>3, <3>4, <3>5, <3>6
  <2>5. \A i \in DOMAIN log : outcome'[log[i].commit] # "rejected"
    BY <2>2, <2>3, LogEntries DEF IInv, ReportInv
  <2>6. \A c \in CommitIds : outcome'[c] = "acked" => \E i \in DOMAIN log : log[i].commit = c
    BY <2>2, <2>3 DEF IInv, ReportInv
  <2>7. \A v \in Writers : Commit(v)' = Commit(v)
    BY <2>1 DEF Commit
  <2> QED BY <2>1, <2>4, <2>5, <2>6, <2>7 DEF ReportInv
<1>3. ASSUME NEW w \in Writers, TxCommit(w) PROVE ReportInv'
  <2> DEFINE n == Len(log)
  <2>1. /\ n \in Nat /\ DOMAIN log = 1..n /\ DOMAIN log' = 1..(n + 1)
        /\ \A i \in 1..n : log'[i] = log[i]
        /\ log'[n + 1].commit = Commit(w)
    BY <1>3, LogEntries, Appended DEF IInv
  <2>2. \A i \in 1..n : log[i].commit \in CommitIds /\ log[i].commit # Commit(w)
    BY <1>3, LogEntries DEF IInv, OpenInv, OpenTx, TxCommit
  <2> HIDE DEF n
  <2>3. /\ made' = made /\ made[w] \in Nat /\ Commit(w) \in CommitIds
        /\ outcome[Commit(w)] \in {"none", "unresolved"}
    BY <1>3, CommitIdFacts DEF IInv, TypeOK, OpenInv, OpenTx, TxCommit, saveVars
  <2>4. /\ \A c \in CommitIds \ {Commit(w)} : outcome'[c] = outcome[c]
        /\ \/ outcome'[Commit(w)] = outcome[Commit(w)] /\ pc' = pc /\ pc[w] # "committing"
           \/ outcome'[Commit(w)] = "acked" /\ pc'[w] \in {"finished", "ready"}
        /\ \A v \in Writers \ {w} : pc'[v] = pc[v]
    <3>1. \/ outcome' = outcome /\ pc[w] # "committing"
          \/ outcome' = [outcome EXCEPT ![Commit(w)] = "acked"] /\ pc[w] = "committing"
      BY <1>3, Zenon DEF TxCommit
    <3> QED BY <1>3, <2>3, <3>1, CommitGoto DEF IInv, TypeOK
  <2>5. ASSUME NEW v \in Writers
        PROVE  /\ \A m \in 1..MaxSaves[v] : m > made[v] => outcome'[<<v, m>>] = "none"
               /\ pc'[v] \in {"saving", "committing", "retry"} => outcome'[Commit(v)] = "none"
    <3>1. made[v] \in Nat
      BY DEF IInv, TypeOK
    <3>2. \A m \in 1..MaxSaves[v] : m > made[v] => <<v, m>> \in CommitIds \ {Commit(w)}
      BY <2>3, <3>1, CommitIdPairs DEF Commit
    <3>3. v # w /\ pc[v] \in {"saving", "committing", "retry"}
            => Commit(v) \in CommitIds \ {Commit(w)}
      BY CommitIdFacts DEF IInv, PcInv
    <3>4. /\ \A m \in 1..MaxSaves[v] : m > made[v] => outcome[<<v, m>>] = "none"
          /\ pc[v] \in {"saving", "committing", "retry"} => outcome[Commit(v)] = "none"
      BY DEF IInv, ReportInv
    <3> QED BY <2>4, <3>2, <3>3, <3>4
  <2>6. ASSUME NEW i \in 1..(n + 1) PROVE outcome'[log'[i].commit] # "rejected"
    <3>1. CASE i \in 1..n
      BY <2>1, <2>2, <2>4, <3>1 DEF IInv, ReportInv
    <3>2. CASE i = n + 1
      BY <2>1, <2>3, <2>4, <3>2
    <3> QED BY <2>1, <3>1, <3>2
  <2>7. ASSUME NEW c \in CommitIds, outcome'[c] = "acked"
        PROVE  \E i \in 1..(n + 1) : log'[i].commit = c
    <3>1. CASE c = Commit(w)
      BY <2>1, <3>1
    <3>2. CASE c # Commit(w)
      <4>1. PICK i \in 1..n : log[i].commit = c
        BY <2>1, <2>4, <2>7, <3>2 DEF IInv, ReportInv
      <4> QED BY <2>1, <4>1
    <3> QED BY <3>1, <3>2
  <2>8. \A v \in Writers : Commit(v)' = Commit(v)
    BY <2>3 DEF Commit
  <2> QED BY <2>1, <2>3, <2>5, <2>6, <2>7, <2>8 DEF ReportInv
<1>4. CASE /\ UNCHANGED <<outcome, log, made>>
           /\ \A v \in Writers : pc'[v] \in {"saving", "committing", "retry"}
                                 => pc[v] \in {"saving", "committing", "retry"}
  BY <1>4 DEF IInv, ReportInv, Commit
<1> QED BY <1>1, <1>2, <1>3, <1>4, ReportFrame DEF IInv

\* Only loads, receipts and commits change the writers' copies.
LEMMA CopyFrame ==
    ASSUME [Next]_vars
    PROVE  \/ \E w \in Writers : TxCommit(w) \/ SaveReceipt(w) \/ Load(w)
           \/ UNCHANGED <<log, seen, view>>
BY DEF Next, Client, Server, vars, rowVars, copyVars, Create, Refuse, AcquireExecutionLease,
       OwnershipConflict, Propose, SaveReject, SaveWrite, TxAbort, IoError, Retry, GiveUp,
       RenewExecutionLease, Release, LoseCommand, Tick, Crash

\* Before its first proposal a writer has no receipt.
LEMMA NoReceiptYet ==
    ASSUME IInv, NEW w \in Writers
    PROVE  /\ made[w] = 0 => \A i \in 1..Len(log) : log[i].commit # Commit(w)
           /\ \A i \in 1..Len(log) : log[i].commit # <<w, made[w] + 1>>
<1>1. made[w] \in Nat
  BY DEF IInv, TypeOK
<1>2. ASSUME NEW i \in 1..Len(log), NEW n \in Nat, log[i].commit = <<w, n>>
      PROVE  n > 0 /\ n <= made[w]
  <2>1. log[i].commit \in CommitIds /\ i \in DOMAIN log
    BY LogEntries DEF IInv
  <2>2. n \in 1..MaxSaves[w]
    BY <1>2, <2>1, CommitIdPairs
  <2>3. log[i].commit[1] = w /\ log[i].commit[2] = n
    BY <1>2
  <2> QED BY <2>1, <2>2, <2>3 DEF IInv, ReceiptInv
<1> QED BY <1>1, <1>2 DEF Commit

\* A writer's Session stays the prefix of the history it has seen: a load, a
\* receipt found by a retry and a commit all bring it up to a revision.
LEMMA CopyStep == ASSUME IInv, [Next]_vars PROVE CopyInv'
<1> DEFINE n == Len(log)
           Copy(v) == /\ seen[v] <= Len(log)
                      /\ view[v] = {log[i].commit : i \in 1..seen[v]}
           Unknown(v) == \A i \in DOMAIN log :
               log[i].commit = Commit(v) /\ outcome[Commit(v)] # "acked" => i = seen[v] + 1
<1>1. n \in Nat /\ DOMAIN log = 1..n
  BY LogEntries DEF IInv
<1>2. \A v \in Writers : seen[v] \in Nat /\ Copy(v) /\ Unknown(v)
  BY DEF IInv, TypeOK, CopyInv
<1>3. ASSUME NEW w \in Writers, TxCommit(w) PROVE CopyInv'
  <2>1. /\ Len(log') = n + 1 /\ DOMAIN log' = 1..(n + 1)
        /\ \A i \in 1..n : log'[i] = log[i]
        /\ log'[n + 1].commit = Commit(w)
    BY <1>3, Appended DEF IInv
  <2>2. /\ seen[w] = n /\ revision = n /\ made' = made
        /\ \A i \in 1..n : log[i].commit # Commit(w)
    BY <1>1, <1>3 DEF IInv, OpenInv, OpenTx, HistoryInv, TxCommit, saveVars
  <2>3. /\ Commit(w) \in CommitIds /\ \A v \in Writers : Commit(v)' = Commit(v)
        /\ \A v \in Writers \ {w} : Commit(v) # Commit(w)
    BY <1>3, <2>2, CommitIdFacts DEF IInv, OpenInv, OpenTx, TxCommit, Commit
  <2>4. \/ UNCHANGED <<seen, view, outcome>>
        \/ /\ seen' = [seen EXCEPT ![w] = n + 1]
           /\ view' = [view EXCEPT ![w] = view[w] \cup {Commit(w)}]
           /\ outcome' = [outcome EXCEPT ![Commit(w)] = "acked"]
    BY <1>3, <2>2, Zenon DEF TxCommit
  <2> HIDE DEF n
  <2>5. ASSUME NEW v \in Writers, seen'[v] = seen[v], view'[v] = view[v] PROVE Copy(v)'
    <3>1. \A i \in 1..seen[v] : i \in 1..n /\ log'[i] = log[i]
      BY <1>1, <1>2, <2>1 DEF n
    <3>2. {log'[i].commit : i \in 1..seen[v]} = {log[i].commit : i \in 1..seen[v]}
      BY <3>1
    <3>3. seen[v] <= n + 1
      BY <1>1, <1>2 DEF n
    <3> QED BY <1>2, <2>1, <2>5, <3>2, <3>3
  <2>6. CASE UNCHANGED <<seen, view, outcome>>
    <3>1. ASSUME NEW v \in Writers PROVE Unknown(v)'
      <4>1. ASSUME NEW i \in 1..(n + 1), log'[i].commit = Commit(v), outcome[Commit(v)] # "acked"
            PROVE  i = seen[v] + 1
        <5>1. CASE i \in 1..n
          BY <1>1, <1>2, <2>1, <4>1, <5>1
        <5>2. CASE i = n + 1
          BY <2>1, <2>2, <2>3, <4>1, <5>2
        <5> QED BY <1>1, <5>1, <5>2
      <4> QED BY <2>1, <2>3, <2>6, <4>1
    <3> QED BY <2>5, <2>6, <3>1 DEF CopyInv
  <2>7. CASE /\ seen' = [seen EXCEPT ![w] = n + 1]
             /\ view' = [view EXCEPT ![w] = view[w] \cup {Commit(w)}]
             /\ outcome' = [outcome EXCEPT ![Commit(w)] = "acked"]
    <3>1. /\ seen'[w] = n + 1 /\ view'[w] = view[w] \cup {Commit(w)}
          /\ outcome'[Commit(w)] = "acked"
          /\ \A v \in Writers \ {w} : seen'[v] = seen[v] /\ view'[v] = view[v]
      BY <2>3, <2>7 DEF IInv, TypeOK
    <3>2. Copy(w)'
      <4>1. view'[w] = {log[i].commit : i \in 1..n} \cup {log'[n + 1].commit}
        BY <1>2, <2>1, <2>2, <3>1
      <4>2. {log'[i].commit : i \in 1..(n + 1)}
              = {log[i].commit : i \in 1..n} \cup {log'[n + 1].commit}
        BY <1>1, <2>1, CommitsSnoc
      <4> QED BY <1>1, <2>1, <3>1, <4>1, <4>2
    <3>3. ASSUME NEW v \in Writers \ {w} PROVE Unknown(v)'
      <4>1. outcome'[Commit(v)] = outcome[Commit(v)] \/ made[v] = 0
        BY <2>3, <2>7, CommitIdFacts DEF IInv, TypeOK
      <4>2. made[v] = 0 => \A i \in 1..n : log[i].commit # Commit(v)
        BY NoReceiptYet DEF n
      <4>3. ASSUME NEW i \in 1..(n + 1), log'[i].commit = Commit(v), outcome'[Commit(v)] # "acked"
            PROVE  i = seen[v] + 1
        <5>1. i \in 1..n
          BY <1>1, <2>1, <2>3, <4>3
        <5> QED BY <1>1, <1>2, <2>1, <4>1, <4>2, <4>3, <5>1
      <4> QED BY <2>1, <2>3, <3>1, <4>3
    <3>4. Unknown(w)'
      BY <2>3, <3>1
    <3> QED BY <2>5, <3>1, <3>2, <3>3, <3>4 DEF CopyInv
  <2> QED BY <2>4, <2>6, <2>7
<1>4. ASSUME NEW w \in Writers, SaveReceipt(w) PROVE CopyInv'
  <2>1. PICK j \in 1..n : log[j].commit = Commit(w) /\ seen' = [seen EXCEPT ![w] = j]
    BY <1>1, <1>4 DEF SaveReceipt
  <2>2. /\ log' = log /\ view' = [view EXCEPT ![w] = view[w] \cup {Commit(w)}]
        /\ outcome' = [outcome EXCEPT ![Commit(w)] = "acked"]
        /\ Commit(w) \in CommitIds /\ outcome[Commit(w)] = "none"
        /\ \A v \in Writers : Commit(v)' = Commit(v)
    BY <1>4, Reported DEF SaveReceipt, Commit, rowVars, saveVars
  <2>3. j = seen[w] + 1
    BY <1>1, <1>2, <2>1, <2>2
  <2>4. /\ seen'[w] = j /\ view'[w] = view[w] \cup {log[j].commit}
        /\ outcome'[Commit(w)] = "acked"
        /\ \A v \in Writers \ {w} : seen'[v] = seen[v] /\ view'[v] = view[v]
    BY <2>1, <2>2 DEF IInv, TypeOK
  <2>5. Copy(w)'
    <3>1. {log[i].commit : i \in 1..(seen[w] + 1)}
            = {log[i].commit : i \in 1..seen[w]} \cup {log[seen[w] + 1].commit}
      BY <1>2, CommitsSnoc
    <3> QED BY <1>1, <1>2, <2>1, <2>2, <2>3, <2>4, <3>1
  <2>6. ASSUME NEW v \in Writers \ {w} PROVE Copy(v)' /\ Unknown(v)'
    <3>1. Commit(v) # Commit(w)
      BY CommitIdFacts DEF IInv
    <3>2. outcome'[Commit(v)] = outcome[Commit(v)] \/ made[v] = 0
      BY <2>2, <3>1, CommitIdFacts DEF IInv, TypeOK
    <3>3. made[v] = 0 => \A i \in 1..n : log[i].commit # Commit(v)
      BY NoReceiptYet
    <3> QED BY <1>1, <1>2, <2>2, <2>4, <3>2, <3>3
  <2>7. Unknown(w)'
    BY <2>2, <2>4
  <2> QED BY <2>5, <2>6, <2>7 DEF CopyInv
<1>5. ASSUME NEW w \in Writers, Load(w) PROVE CopyInv'
  <2>1. /\ UNCHANGED <<log, made, outcome>> /\ made[w] = 0
        /\ seen' = [seen EXCEPT ![w] = n]
        /\ view' = [view EXCEPT ![w] = {log[i].commit : i \in 1..n}]
    BY <1>1, <1>5 DEF IInv, HistoryInv, PcInv, Committed, Load, rowVars, saveVars
  <2>2. /\ seen'[w] = n /\ view'[w] = {log[i].commit : i \in 1..n}
        /\ \A v \in Writers \ {w} : seen'[v] = seen[v] /\ view'[v] = view[v]
    BY <2>1 DEF IInv, TypeOK
  <2>3. \A i \in 1..n : log[i].commit # Commit(w)
    BY <2>1, NoReceiptYet
  <2>4. \A v \in Writers : Commit(v)' = Commit(v)
    BY <2>1 DEF Commit
  <2>5. Copy(w)' /\ Unknown(w)'
    BY <1>1, <2>1, <2>2, <2>3, <2>4
  <2>6. ASSUME NEW v \in Writers \ {w} PROVE Copy(v)' /\ Unknown(v)'
    BY <1>2, <2>1, <2>2, <2>4
  <2> QED BY <2>5, <2>6 DEF CopyInv
<1>6. CASE UNCHANGED <<log, seen, view>>
  <2>1. \A v \in Writers : Copy(v)'
    BY <1>2, <1>6
  <2>2. ASSUME NEW w \in Writers, SaveReject(w) \/ GiveUp(w), NEW v \in Writers PROVE Unknown(v)'
    <3>1. /\ Commit(v)' = Commit(v) /\ Commit(w) \in CommitIds
          /\ outcome[Commit(w)] = "none"
      BY <2>2, Reported DEF Commit
    <3>2. \E o \in {"rejected", "unresolved"} : outcome' = [outcome EXCEPT ![Commit(w)] = o]
      BY <2>2 DEF SaveReject, GiveUp
    <3>3. CASE v = w
      BY <1>2, <1>6, <3>1, <3>3
    <3>4. CASE v # w
      <4>1. outcome'[Commit(v)] = outcome[Commit(v)] \/ made[v] = 0
        BY <3>1, <3>2, <3>4, CommitIdFacts DEF IInv, TypeOK
      <4>2. made[v] = 0 => \A i \in 1..n : log[i].commit # Commit(v)
        BY NoReceiptYet
      <4> QED BY <1>1, <1>2, <1>6, <3>1, <4>1, <4>2
    <3> QED BY <3>3, <3>4
  <2>3. ASSUME NEW w \in Writers, NEW last \in BOOLEAN, Propose(w, last), NEW v \in Writers
        PROVE  Unknown(v)'
    <3>1. outcome' = outcome /\ made' = [made EXCEPT ![w] = made[w] + 1]
      BY <2>3 DEF Propose
    <3>2. CASE v = w
      <4>1. Commit(v)' = <<w, made[w] + 1>>
        BY <3>1, <3>2 DEF IInv, TypeOK, Commit
      <4> QED BY <1>1, <1>6, <3>2, <4>1, NoReceiptYet
    <3>3. CASE v # w
      <4>1. Commit(v)' = Commit(v)
        BY <3>1, <3>3 DEF IInv, TypeOK, Commit
      <4> QED BY <1>2, <1>6, <3>1, <4>1
    <3> QED BY <3>2, <3>3
  <2>4. ASSUME UNCHANGED <<outcome, made>>, NEW v \in Writers PROVE Unknown(v)'
    BY <1>2, <1>6, <2>4 DEF Commit
  <2>5. \A v \in Writers : Unknown(v)'
    BY <1>3, <1>4, <2>2, <2>3, <2>4, ReportFrame DEF IInv, CopyInv
  <2> QED BY <2>1, <2>5 DEF CopyInv
<1> QED BY <1>3, <1>4, <1>5, <1>6, CopyFrame

----------------------------------------------------------------------------
(* The theorems. *)

\* Before any handler starts, the row is missing and there are no receipts.
LEMMA InitIInv == ASSUME Init PROVE IInv
<1> USE ConstantsAssumption DEF Init
<1>1. log = <<>> /\ Len(log) = 0 /\ DOMAIN log = {}
  OBVIOUS
<1>2. TypeOK
  BY DEF TypeOK, Running
<1>3. HistoryInv /\ ReceiptInv /\ OrderInv
  BY <1>1 DEF HistoryInv, ReceiptInv, OrderInv, Committed
<1>4. FenceInv /\ PcInv
  BY DEF FenceInv, PcInv
<1>5. CopyInv
  <2>1. ASSUME NEW w \in Writers
        PROVE  seen[w] = 0 /\ view[w] = {} /\ {log[i].commit : i \in 1..0} = {}
    OBVIOUS
  <2>2. ASSUME NEW w \in Writers
        PROVE  /\ seen[w] <= Len(log)
               /\ view[w] = {log[i].commit : i \in 1..seen[w]}
               /\ \A i \in DOMAIN log :
                    log[i].commit = Commit(w) /\ outcome[Commit(w)] # "acked"
                    => i = seen[w] + 1
    <3> HIDE DEF Init
    <3>1. seen[w] <= Len(log)
      BY <1>1, <2>1
    <3>2. view[w] = {log[i].commit : i \in 1..seen[w]}
      BY <2>1
    <3> QED BY <1>1, <3>1, <3>2, Zenon
  <2> QED BY <2>2, Zenon DEF CopyInv
<1>6. ReportInv
  BY <1>1, CommitIdPairs DEF ReportInv
<1>7. OpenInv
  BY DEF OpenInv
<1> QED BY <1>2, <1>3, <1>4, <1>5, <1>6, <1>7 DEF IInv

\* Every step of handlers, server, clock and crashes preserves IInv.
LEMMA NextIInv == ASSUME IInv, [Next]_vars PROVE IInv'
<1>1. TypeOK'
  BY TypeStep DEF IInv
<1> QED
  BY <1>1, HistoryStep, ReceiptStep, FenceStep, PcStep, CopyStep, ReportStep, OpenStep,
     OrderStep DEF IInv

\* IInv is an inductive invariant of the commit protocol of save.
THEOREM Inductive == Spec => []IInv
<1>1. Init => IInv
  BY InitIInv
<1>2. IInv /\ [Next]_vars => IInv'
  BY NextIInv
<1> QED BY <1>1, <1>2, PTL DEF Spec

\* Every state of the store and of its writers is well formed.
THEOREM TypeCorrect == Spec => []TypeOK
<1>1. IInv => TypeOK
  BY DEF IInv
<1> QED BY <1>1, Inductive, PTL

\* No update is lost: the session row holds exactly the commits that have a
\* receipt, whatever writers, crashes, retries and takeovers there are.
THEOREM NoLostUpdate == Spec => []SnapshotIsHistory
<1>1. IInv => SnapshotIsHistory
  BY DEF IInv, HistoryInv, SnapshotIsHistory
<1> QED BY <1>1, Inductive, PTL

\* save tells the truth: acknowledged proposals are applied, rejected ones are
\* not, none is applied twice.
THEOREM SaveTellsTheTruth == Spec => []OutcomeTruth
<1>1. ASSUME IInv PROVE OutcomeTruth
  <2>1. \A c \in CommitIds : outcome[c] = "acked" => c \in Committed
    BY <1>1 DEF IInv, ReportInv, Committed
  <2>2. \A c \in CommitIds : outcome[c] = "rejected" => c \notin Committed
    BY <1>1 DEF IInv, ReportInv, Committed
  <2> QED BY <1>1, <2>1, <2>2 DEF IInv, ReceiptInv, OutcomeTruth
<1> QED BY <1>1, Inductive, PTL

\* Authority moves forward: fences in the log never go back and are never
\* shared by two writers.
THEOREM AuthorityMovesForward == Spec => []FencesNeverRegress
<1>1. ASSUME IInv PROVE FencesNeverRegress
  <2>1. ASSUME NEW i \in DOMAIN log, NEW j \in DOMAIN log, i < j,
               log[i].fence > 0, log[j].fence > 0, log[i].fence = log[j].fence
        PROVE  log[i].writer = log[j].writer
    <3>1. log[i].writer \in Writers /\ log[j].writer \in Writers
      BY <1>1, LogEntries DEF IInv
    <3>2. log[i].fence = myFence[log[i].writer] /\ log[j].fence = myFence[log[j].writer]
      BY <1>1 DEF IInv, ReceiptInv
    <3> QED BY <1>1, <2>1, <3>1, <3>2 DEF IInv, FenceInv
  <2>2. \A i, j \in DOMAIN log : i < j /\ log[i].fence > 0 /\ log[j].fence > 0
                                 => log[i].fence <= log[j].fence
    BY <1>1 DEF IInv, OrderInv
  <2> QED BY <2>1, <2>2, Zenon DEF FencesNeverRegress
<1> QED BY <1>1, Inductive, PTL

\* A commit takes effect only while its writer owns the session under the
\* fence it was given, or while nobody owns it.
THEOREM CommitsAreFenced == Spec => FencedCommit
<1> DEFINE Fenced ==
        log' # log =>
            \E w \in Writers : /\ tx[w]
                               /\ IF Kind[w] = "run" THEN owner = w /\ fence = myFence[w]
                                                     ELSE owner = None
<1>1. ASSUME IInv, [Next]_vars PROVE Fenced
  <2>1. ASSUME NEW w \in Writers, TxCommit(w) PROVE Fenced
    <3>1. tx[w]
      BY <2>1 DEF TxCommit
    <3>2. IF Kind[w] = "run" THEN owner = w /\ fence = myFence[w] ELSE owner = None
      BY <1>1, <3>1 DEF IInv, OpenInv, OpenTx
    <3> QED BY <3>1, <3>2
  <2>2. ASSUME UNCHANGED <<revision, state, log>> PROVE Fenced
    BY <2>2
  <2> QED BY <1>1, <2>1, <2>2, RowFrame
<1> QED BY <1>1, Inductive, PTL DEF Spec, FencedCommit

\* The receipts are the history of RevisionLog.
LEMMA HistoryOfLog ==
    ASSUME TypeOK
    PROVE  /\ history \in Seq(CommitIds) /\ Len(history) = Len(log)
           /\ \A i \in 1..Len(log) : history[i] = log[i].commit
<1>1. /\ Len(log) \in Nat /\ DOMAIN log = 1..Len(log)
      /\ \A i \in 1..Len(log) : log[i].commit \in CommitIds
  BY LogEntries
<1>2. history \in [1..Len(log) -> CommitIds]
  BY <1>1 DEF history
<1>3. history \in Seq(CommitIds) /\ Len(history) = Len(log)
  BY <1>1, <1>2
<1> QED BY <1>1, <1>3 DEF history

\* What Append does, as a function.
LEMMA AppendFacts ==
    ASSUME NEW S, NEW q \in Seq(S), NEW e \in S
    PROVE  /\ Append(q, e) \in [1..(Len(q) + 1) -> S]
           /\ \A i \in 1..Len(q) : Append(q, e)[i] = q[i]
           /\ Append(q, e)[Len(q) + 1] = e
<1>1. /\ Append(q, e) \in Seq(S) /\ Len(Append(q, e)) = Len(q) + 1
      /\ \A i \in 1..Len(q) : Append(q, e)[i] = q[i]
      /\ Append(q, e)[Len(q) + 1] = e
  BY AppendProperties
<1>2. ASSUME NEW r \in Seq(S), Len(r) = Len(q) + 1
      PROVE  r \in [1..(Len(q) + 1) -> S]
  BY <1>2
<1> QED BY <1>1, <1>2, Zenon

\* A commit is one step of the abstract history.
LEMMA HistoryAppend ==
    ASSUME IInv, NEW w \in Writers, TxCommit(w), Commit(w) \in CommitIds, TypeOK'
    PROVE  history' = Append(history, Commit(w))
<1> DEFINE n == Len(log)
<1>1. /\ n \in Nat /\ DOMAIN log' = 1..(n + 1) /\ \A i \in 1..n : log'[i] = log[i]
      /\ log'[n + 1].commit = Commit(w)
  BY LogEntries, Appended DEF IInv
<1>2. /\ history \in Seq(CommitIds) /\ Len(history) = n
      /\ \A i \in 1..n : history[i] = log[i].commit
  BY HistoryOfLog DEF IInv
<1>3. history' = [i \in 1..(n + 1) |-> log'[i].commit]
  BY <1>1 DEF history
<1>4. /\ Append(history, Commit(w)) \in [1..(n + 1) -> CommitIds]
      /\ \A i \in 1..n : Append(history, Commit(w))[i] = history[i]
      /\ Append(history, Commit(w))[n + 1] = Commit(w)
  <2> HIDE DEF n, history, Commit
  <2> QED BY <1>1, <1>2, AppendFacts
<1> HIDE DEF n
<1>5. ASSUME NEW i \in 1..(n + 1) PROVE log'[i].commit = Append(history, Commit(w))[i]
  <2>1. CASE i \in 1..n
    BY <1>1, <1>2, <1>4, <2>1
  <2>2. CASE i = n + 1
    BY <1>1, <1>4, <2>2
  <2>3. i \in 1..n \/ i = n + 1
    BY <1>1
  <2> QED BY <2>1, <2>2, <2>3
<1> QED BY <1>3, <1>4, <1>5

\* save implements RevisionLog: the receipts of a session are an append-only
\* history, each proposal enters it at most once, and what save reports about
\* a proposal is what the abstract repository would report.
THEOREM ImplementsRevisionLog == Spec => RefinesRevisionLog
<1>1. ASSUME Init PROVE Promise!Init
  <2>1. log = <<>>
    BY <1>1 DEF Init
  <2>2. history = <<>>
    BY <2>1 DEF history
  <2> QED BY <1>1, <2>2 DEF Init, Promise!Init
<1>2. ASSUME IInv, [Next]_vars PROVE [Promise!Next]_<<history, outcome>>
  <2>1. IInv'
    BY <1>2, NextIInv
  <2>2. ASSUME NEW c \in CommitIds
        PROVE  c \in Promise!Applied <=> \E i \in DOMAIN log : log[i].commit = c
    BY <1>2 DEF Promise!Applied, history
  <2>3. ASSUME NEW w \in Writers, TxCommit(w) PROVE [Promise!Next]_<<history, outcome>>
    <3>1. /\ Commit(w) \in CommitIds /\ outcome[Commit(w)] \in {"none", "unresolved"}
          /\ \A i \in DOMAIN log : log[i].commit # Commit(w)
      BY <1>2, <2>3, CommitIdFacts DEF IInv, OpenInv, OpenTx, TxCommit
    <3>2. history' = Append(history, Commit(w))
      BY <1>2, <2>1, <2>3, <3>1, HistoryAppend DEF IInv
    <3>3. outcome' \in {outcome, [outcome EXCEPT ![Commit(w)] = "acked"]}
      BY <2>3, Zenon DEF TxCommit
    <3>4. Promise!Apply(Commit(w))
      BY <2>2, <3>1, <3>2, <3>3 DEF Promise!Apply
    <3> QED BY <3>1, <3>4 DEF Promise!Next
  <2>4. ASSUME NEW w \in Writers, SaveReceipt(w) \/ SaveReject(w) \/ GiveUp(w)
        PROVE  [Promise!Next]_<<history, outcome>>
    <3>1. /\ log' = log /\ Commit(w) \in CommitIds /\ outcome[Commit(w)] = "none"
      BY <1>2, <2>4, Reported
    <3>2. PICK o \in {"acked", "rejected", "unresolved"} :
              /\ outcome' = [outcome EXCEPT ![Commit(w)] = o]
              /\ o = "acked" => \E i \in DOMAIN log : log[i].commit = Commit(w)
              /\ o = "rejected" => \A i \in DOMAIN log : log[i].commit # Commit(w)
      BY <1>2, <2>4, Reported
    <3>3. history' = history
      BY <3>1 DEF history
    <3>4. Promise!Report(Commit(w), o)
      BY <2>2, <3>1, <3>2, <3>3 DEF Promise!Report
    <3> QED BY <3>1, <3>4 DEF Promise!Next
  <2>5. ASSUME UNCHANGED <<outcome, log>> PROVE [Promise!Next]_<<history, outcome>>
    BY <2>5 DEF history
  <2>6. ASSUME NEW w \in Writers, NEW last \in BOOLEAN, Propose(w, last)
        PROVE  UNCHANGED <<outcome, log>>
    BY <2>6 DEF Propose, rowVars
  <2> QED BY <1>2, <2>3, <2>4, <2>5, <2>6, ReportFrame DEF IInv
<1> QED BY <1>1, <1>2, Inductive, PTL DEF Spec, RefinesRevisionLog, Promise!Spec
----------------------------------------------------------------------------
(***************************************************************************)
(* The row locks of the transactions (RowLocks): they wait for one another *)
(* in a cycle only in the one case that CycleNeedsExpiry names, for any    *)
(* number of saves, of transactions that end the origin's run and of       *)
(* cancels.                                                                *)
(*                                                                         *)
(* The argument follows a wait through the order of the statements: the    *)
(* holder of the key waits for the session or the origin's command, the    *)
(* holder of the session for the origin's command, and nobody in a cycle   *)
(* waits for its own command.                                              *)
(***************************************************************************)

LockWriters == Savers \cup Enders

\* How far the holder of a row has come.  The command of a transaction is held
\* by that transaction, or, the origin's, by an ender that has all its locks.
HolderInv ==
    /\ \A t \in Transactions : holder[Key] = t => t \in LockWriters /\ at[t] >= 2
    /\ \A t \in Transactions : holder[Session] = t =>
          (t \in LockWriters /\ at[t] >= 3) \/ (t \in Cancellers /\ at[t] >= 1)
    /\ \A x, t \in Transactions : holder[x] = t =>
          \/ t = x
          \/ x = Origin /\ t \in Enders /\ at[t] = 4

LockInv == LockTypeOK /\ HolderInv

----------------------------------------------------------------------------
(* The order of the statements *)

LEMMA StatementsFact ==
    ASSUME NEW t \in Transactions
    PROVE  /\ t \in Savers => Statements(t) = <<t, Key, Session>> /\ t \notin Enders \cup Cancellers
           /\ t \in Enders =>
                Statements(t) = <<t, Key, Session, Origin>> /\ t \notin Savers \cup Cancellers
           /\ t \in Cancellers => Statements(t) = <<Session, t>> /\ t \notin LockWriters
           /\ t # Key /\ t # Session /\ t # Nobody /\ Key # Session
<1>1. t \in Savers => t \notin Enders \cup Cancellers
  BY LockAssumption
<1>2. t \in Enders => t \notin Savers \cup Cancellers
  BY LockAssumption
<1>3. t \in Cancellers => t \notin Savers /\ t \notin Enders
  BY LockAssumption
<1>4. t # Key /\ t # Session /\ t # Nobody
  BY LockAssumption
<1>5. Key # Session
  BY DEF Key, Session
<1>6. t \in Savers => Statements(t) = <<t, Key, Session>>
  BY <1>1 DEF Statements
<1>7. t \in Enders => Statements(t) = <<t, Key, Session, Origin>>
  BY <1>2 DEF Statements
<1>8. t \in Cancellers => Statements(t) = <<Session, t>>
  BY <1>3 DEF Statements
<1> QED BY <1>1, <1>2, <1>3, <1>4, <1>5, <1>6, <1>7, <1>8 DEF LockWriters

\* What an unfinished transaction locks next.
LEMMA NextRowFact ==
    ASSUME LockTypeOK, NEW t \in Transactions, Unfinished(t)
    PROVE  /\ t \in Savers =>
                \/ at[t] = 0 /\ NextRow(t) = t
                \/ at[t] = 1 /\ NextRow(t) = Key
                \/ at[t] = 2 /\ NextRow(t) = Session
           /\ t \in Enders =>
                \/ at[t] = 0 /\ NextRow(t) = t
                \/ at[t] = 1 /\ NextRow(t) = Key
                \/ at[t] = 2 /\ NextRow(t) = Session
                \/ at[t] = 3 /\ NextRow(t) = Origin
           /\ t \in Cancellers =>
                \/ at[t] = 0 /\ NextRow(t) = Session
                \/ at[t] = 1 /\ NextRow(t) = t
<1>1. at[t] \in 0..4 /\ at[t] < Len(Statements(t))
  BY DEF LockTypeOK, Unfinished
<1>2. CASE t \in Savers
  <2>1. Statements(t) = <<t, Key, Session>>
    BY <1>2, StatementsFact
  <2>2. at[t] \in {0, 1, 2}
    BY <1>1, <2>1
  <2>3. <<t, Key, Session>>[0 + 1] = t /\ <<t, Key, Session>>[1 + 1] = Key
        /\ <<t, Key, Session>>[2 + 1] = Session
    OBVIOUS
  <2> QED BY <1>2, <2>1, <2>2, <2>3, StatementsFact DEF NextRow, LockWriters
<1>3. CASE t \in Enders
  <2>1. Statements(t) = <<t, Key, Session, Origin>>
    BY <1>3, StatementsFact
  <2>2. at[t] \in {0, 1, 2, 3}
    BY <1>1, <2>1
  <2>3. /\ <<t, Key, Session, Origin>>[0 + 1] = t /\ <<t, Key, Session, Origin>>[1 + 1] = Key
        /\ <<t, Key, Session, Origin>>[2 + 1] = Session
        /\ <<t, Key, Session, Origin>>[3 + 1] = Origin
    OBVIOUS
  <2> QED BY <1>3, <2>1, <2>2, <2>3, StatementsFact DEF NextRow, LockWriters
<1>4. CASE t \in Cancellers
  <2>1. Statements(t) = <<Session, t>>
    BY <1>4, StatementsFact
  <2>2. at[t] \in {0, 1}
    BY <1>1, <2>1
  <2>3. <<Session, t>>[0 + 1] = Session /\ <<Session, t>>[1 + 1] = t
    OBVIOUS
  <2> QED BY <1>4, <2>1, <2>2, <2>3, StatementsFact DEF NextRow, LockWriters
<1> QED BY <1>2, <1>3, <1>4 DEF Transactions

----------------------------------------------------------------------------
(* The invariant *)

LEMMA LockInitInv == LockInit => LockInv
BY StatementsFact DEF LockInit, LockInv, LockTypeOK, HolderInv, Rows

\* A transaction that ends gives its rows back and changes nothing else.
LEMMA LockEndStep ==
    ASSUME LockInv, NEW t \in Transactions, NEW as \in {"committed", "aborted"},
           End(t, as), UNCHANGED <<at, leased>>
    PROVE  LockInv'
<1>1. \A r \in Rows : holder'[r] # Nobody => holder'[r] = holder[r] /\ holder[r] # t
  BY DEF End
<1>2. LockTypeOK'
  <2>1. holder' \in [Rows -> Transactions \cup {Nobody}]
    BY DEF LockInv, LockTypeOK, End
  <2>2. result' \in [Transactions -> {"open", "committed", "aborted"}]
    BY DEF LockInv, LockTypeOK, End
  <2>3. \A r \in Rows : holder'[r] # Nobody => result'[holder'[r]] = "open"
    BY <1>1 DEF LockInv, LockTypeOK, End
  <2> QED BY <2>1, <2>2, <2>3 DEF LockInv, LockTypeOK
<1>3. HolderInv'
  BY <1>1, StatementsFact DEF LockInv, HolderInv, Rows
<1> QED BY <1>2, <1>3 DEF LockInv

LEMMA TakeStep ==
    ASSUME LockInv, NEW t \in Transactions, Take(t)
    PROVE  LockInv'
<1>1. CASE NextRow(t) = t /\ ~leased[t]
  BY <1>1, LockEndStep DEF Take
<1>2. CASE ~(NextRow(t) = t /\ ~leased[t])
  <2>1. /\ Unfinished(t) /\ UNCHANGED <<result, leased>> /\ at' = [at EXCEPT ![t] = @ + 1]
        /\ holder' = IF Matches(t) THEN [holder EXCEPT ![NextRow(t)] = t] ELSE holder
    BY <1>2 DEF Take
  <2>2. NextRow(t) \in Rows /\ at[t] \in 0..3
    BY <2>1, NextRowFact, LockAssumption DEF LockInv, Rows, Transactions
  <2>3. /\ at' \in [Transactions -> 0..4] /\ at'[t] = at[t] + 1
        /\ \A u \in Transactions : u # t => at'[u] = at[u]
    BY <2>1, <2>2 DEF LockInv, LockTypeOK
  <2>4. /\ holder' \in [Rows -> Transactions \cup {Nobody}]
        /\ \A r \in Rows : holder'[r] # holder[r] => r = NextRow(t) /\ holder'[r] = t
    BY <2>1, <2>2 DEF LockInv, LockTypeOK
  <2>5. LockTypeOK'
    BY <2>1, <2>3, <2>4 DEF LockInv, LockTypeOK, Unfinished
  <2>6. HolderInv'
    <3>1. ASSUME NEW u \in Transactions, holder'[Key] = u
          PROVE  u \in LockWriters /\ at'[u] >= 2
      <4>1. CASE holder'[Key] = holder[Key]
        BY <2>2, <2>3, <3>1, <4>1 DEF LockInv, HolderInv, LockTypeOK
      <4>2. CASE holder'[Key] # holder[Key]
        <5>1. Key = NextRow(t) /\ u = t
          BY <2>4, <3>1, <4>2 DEF Rows
        <5>2. t \in LockWriters /\ at[t] = 1
          BY <5>1, <2>1, NextRowFact, StatementsFact, LockAssumption DEF LockInv, LockWriters, Transactions
        <5> QED BY <5>1, <5>2, <2>3
      <4> QED BY <4>1, <4>2
    <3>2. ASSUME NEW u \in Transactions, holder'[Session] = u
          PROVE  (u \in LockWriters /\ at'[u] >= 3) \/ (u \in Cancellers /\ at'[u] >= 1)
      <4>1. CASE holder'[Session] = holder[Session]
        BY <2>2, <2>3, <3>2, <4>1 DEF LockInv, HolderInv, LockTypeOK
      <4>2. CASE holder'[Session] # holder[Session]
        <5>1. Session = NextRow(t) /\ u = t
          BY <2>4, <3>2, <4>2 DEF Rows
        <5>2. (t \in LockWriters /\ at[t] = 2) \/ (t \in Cancellers /\ at[t] = 0)
          BY <5>1, <2>1, NextRowFact, StatementsFact, LockAssumption DEF LockInv, LockWriters, Transactions
        <5> QED BY <5>1, <5>2, <2>3
      <4> QED BY <4>1, <4>2
    <3>3. ASSUME NEW x \in Transactions, NEW u \in Transactions, holder'[x] = u, u # x
          PROVE  x = Origin /\ u \in Enders /\ at'[u] = 4
      <4>1. CASE holder'[x] = holder[x]
        <5>1. x = Origin /\ u \in Enders /\ at[u] = 4
          BY <3>3, <4>1 DEF LockInv, HolderInv
        <5>2. u # t
          BY <5>1, <2>2
        <5> QED BY <5>1, <5>2, <2>3
      <4>2. CASE holder'[x] # holder[x]
        <5>1. x = NextRow(t) /\ u = t
          BY <2>4, <3>3, <4>2 DEF Rows
        <5>2. t \in Enders /\ at[t] = 3 /\ x = Origin
          BY <5>1, <3>3, <2>1, NextRowFact, StatementsFact DEF LockInv, Transactions
        <5> QED BY <5>1, <5>2, <2>3
      <4> QED BY <4>1, <4>2
    <3> QED BY <3>1, <3>2, <3>3 DEF HolderInv
  <2> QED BY <2>5, <2>6 DEF LockInv
<1> QED BY <1>1, <1>2

LEMMA LockNextInv == LockInv /\ [LockNext]_lockVars => LockInv'
<1> SUFFICES ASSUME LockInv, [LockNext]_lockVars PROVE LockInv' OBVIOUS
<1>1. ASSUME NEW t \in Transactions, Take(t) PROVE LockInv'
  BY <1>1, TakeStep
<1>2. ASSUME NEW t \in Transactions, Finish(t) PROVE LockInv'
  <2>1. PICK as \in {"committed", "aborted"} : End(t, as)
    BY <1>2 DEF Finish
  <2> QED BY <1>2, <2>1, LockEndStep DEF Finish
<1>3. ASSUME NEW t \in Transactions, Break(t) PROVE LockInv'
  BY <1>3, LockEndStep DEF Break
<1>4. ASSUME NEW t \in Transactions, Expire(t) PROVE LockInv'
  <2>1. UNCHANGED <<holder, at, result>> /\ leased' \in [Transactions -> BOOLEAN]
    BY <1>4 DEF Expire, LockInv, LockTypeOK
  <2> QED BY <2>1 DEF LockInv, LockTypeOK, HolderInv
<1>5. CASE UNCHANGED lockVars
  BY <1>5 DEF lockVars, LockInv, LockTypeOK, HolderInv
<1> QED BY <1>1, <1>2, <1>3, <1>4, <1>5 DEF LockNext, Step

----------------------------------------------------------------------------
(* Cycles of waits *)

\* Nobody in a set that waits for itself has all its locks or waits for its own
\* command.
LEMMA InCycle ==
    ASSUME LockInv, NEW s \in SUBSET Transactions, Deadlocked(s), NEW t \in s
    PROVE  /\ Unfinished(t) /\ NextRow(t) # t
           /\ \E u \in s : Waits(t, u) /\ u # t /\ holder[NextRow(t)] = u
<1>1. \A v \in s : v \in Transactions /\ \E u \in s : Waits(v, u)
  BY DEF Deadlocked
<1>2. PICK u \in s : Waits(t, u)
  BY <1>1
<1>3. Unfinished(t) /\ Unfinished(u) /\ u # t /\ holder[NextRow(t)] = u
  BY <1>1, <1>2 DEF Waits
<1>4. at[u] # 4 \/ u \notin Enders
  BY <1>1, <1>3, NextRowFact DEF LockInv
<1>5. NextRow(t) # t
  BY <1>1, <1>3, <1>4 DEF LockInv, HolderInv
<1> QED BY <1>2, <1>3, <1>5

LEMMA CycleFact ==
    ASSUME LockInv, NEW s \in SUBSET Transactions, Deadlocked(s)
    PROVE  Origin \in s /\ s \cap Enders # {} /\ ~leased[Origin] /\ holder[Origin] = Origin
<1>1. ASSUME NEW e \in s, e \in Enders, NextRow(e) = Origin
      PROVE  Origin \in s /\ s \cap Enders # {} /\ ~leased[Origin] /\ holder[Origin] = Origin
  <2>1. PICK u \in s : Waits(e, u) /\ u # e /\ holder[Origin] = u
    BY <1>1, InCycle
  <2>2. ~leased[Origin]
    BY <1>1, <2>1 DEF Waits, Matches
  <2>3. u \in Transactions /\ (at[u] # 4 \/ u \notin Enders)
    BY <2>1, InCycle, NextRowFact DEF LockInv
  <2>4. u = Origin
    BY <2>1, <2>3, LockAssumption DEF LockInv, HolderInv, Transactions
  <2> QED BY <1>1, <2>1, <2>2, <2>4
<1>2. ASSUME NEW v \in s, NextRow(v) = Session
      PROVE  \E e \in s : e \in Enders /\ NextRow(e) = Origin
  <2>1. PICK u \in s : holder[Session] = u
    BY <1>2, InCycle
  <2>2. (u \in LockWriters /\ at[u] >= 3) \/ (u \in Cancellers /\ at[u] >= 1)
    BY <2>1 DEF LockInv, HolderInv
  <2>3. u \in Transactions /\ Unfinished(u) /\ NextRow(u) # u
    BY InCycle
  <2>4. u \in Enders /\ NextRow(u) = Origin
    BY <2>2, <2>3, NextRowFact DEF LockInv, LockWriters
  <2> QED BY <2>4
<1>3. ASSUME NEW v \in s, NextRow(v) = Key
      PROVE  \E e \in s : (e \in Enders /\ NextRow(e) = Origin) \/ NextRow(e) = Session
  <2>1. PICK u \in s : holder[Key] = u
    BY <1>3, InCycle
  <2>2. u \in LockWriters /\ at[u] >= 2
    BY <2>1 DEF LockInv, HolderInv
  <2>3. u \in Transactions /\ Unfinished(u) /\ NextRow(u) # u
    BY InCycle
  <2>4. (u \in Enders /\ NextRow(u) = Origin) \/ NextRow(u) = Session
    BY <2>2, <2>3, NextRowFact DEF LockInv, LockWriters
  <2> QED BY <2>4
<1>4. PICK t \in s : TRUE
  BY DEF Deadlocked
<1>5. t \in Transactions /\ Unfinished(t) /\ NextRow(t) # t
  BY InCycle
<1>6. NextRow(t) = Key \/ NextRow(t) = Session \/ (t \in Enders /\ NextRow(t) = Origin)
  BY <1>5, NextRowFact DEF LockInv, Transactions
<1> QED BY <1>1, <1>2, <1>3, <1>6

----------------------------------------------------------------------------
\* The inductive invariant: who holds a row has executed the statement for it.
THEOREM LockInductive == LockSpec => []LockInv
BY LockInitInv, LockNextInv, PTL DEF LockSpec

\* Every variable of the lock table keeps its type; only open transactions hold rows.
THEOREM LockTypeCorrect == LockSpec => []LockTypeOK
<1>1. LockInv => LockTypeOK
  BY DEF LockInv
<1> QED BY <1>1, LockInductive, PTL

\* A cycle of waits contains the origin's save and a transaction that ends its
\* run, and the origin's claim has expired inside its transaction (save_inner).
THEOREM CyclesNeedExpiry == LockSpec => []CycleNeedsExpiry
<1>1. LockInv => CycleNeedsExpiry
  BY CycleFact DEF CycleNeedsExpiry
<1> QED BY <1>1, LockInductive, PTL
=============================================================================
