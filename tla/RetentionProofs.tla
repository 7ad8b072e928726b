--------------------------- MODULE RetentionProofs ---------------------------
(***************************************************************************)
(* Proofs about Retention, for any number of operators, archives and       *)
(* diagnostic families.                                                    *)
(*                                                                         *)
(* A prune verifies its own archive and those of the earlier receipts long *)
(* before it deletes.  What makes this sound is the revision: a receipt    *)
(* that came in between has moved it, and the commit is refused.           *)
(***************************************************************************)
EXTENDS Retention, FiniteSetTheorems, TLAPS

\* What a load asks for, and what the worker's outbox is while it may save.
RowInv ==
    /\ Loads
    /\ worker.on => worker.fence <= lease.fence
    /\ worker.on /\ Holds(Worker, worker.fence) =>
         \A f \in Families : /\ counts[f] <= worker.counts[f]
                             /\ worker.outbox[f] \ diagnostics[f] = (counts[f] + 1)..worker.counts[f]

Pruning == {"verified", "admitted", "leased"}

\* The path of an export holds an incomplete archive, of one operator; the
\* archive a prune has verified is the file, unless that was damaged later.
FileInv ==
    /\ \A o \in Operators : op[o].pc = "exporting" =>
         /\ op[o].path \in Files /\ op[o].archive.sound
         /\ file[op[o].path] # None /\ ~file[op[o].path].sound
    /\ \A o, u \in Operators :
         op[o].pc = "exporting" /\ op[u].pc = "exporting" /\ op[o].path = op[u].path => o = u
    /\ \A o \in Operators : op[o].pc \in Pruning =>
         /\ op[o].path \in Files /\ op[o].archive.sound /\ KeepAllowed(op[o].keep)
         /\ op[o].path \in op[o].late \/ file[op[o].path] = op[o].archive

Intact(r, late) == r.path \in late \/ file[r.path] = r.archive

\* Every row that is gone is in the archive of a receipt; an operator that has
\* verified the receipts and is still at the stored revision has seen them all.
HistoryInv ==
    /\ \A r \in receipts : r.archive.sound
    /\ \A n \in 1..written : n \in events \/ \E r \in receipts : n \in r.archive.events
    /\ \A f \in Families : \A n \in 1..counts[f] :
          n \in diagnostics[f] \/ \E r \in receipts : n \in r.archive.diagnostics[f]
    /\ \A o \in Operators : op[o].revision <= revision
    /\ \A o \in Operators : op[o].pc \in {"admitted", "leased"} /\ op[o].revision = revision =>
          \A r \in receipts : Intact(r, op[o].late)

\* A sound archive of the stored revision has the rows of the tables.
Current(a) ==
    /\ a.revision <= revision
    /\ a.sound /\ a.revision = revision => a.events = events /\ a.diagnostics = diagnostics

CurrentInv ==
    /\ \A p \in Files : file[p] # None => Current(file[p])
    /\ \A o \in Operators : Current(op[o].archive)

IInv == TypeOK /\ RowInv /\ FileInv /\ HistoryInv /\ CurrentInv

----------------------------------------------------------------------------
(* Values. *)

\* The constants of Init and of the idle processes have their types.
LEMMA Constants ==
    /\ NoArchive \in Archives /\ NoArchive.revision = 0 /\ ~NoArchive.sound
    /\ Free \in Processes /\ Free.pc = "idle" /\ Free.revision = 0 /\ Free.archive = NoArchive
    /\ Idle \in Workers
    /\ Idle.on = FALSE /\ Unleased \in [owner : Operators \cup {Worker, None}, fence : Nat, live : BOOLEAN]
<1>1. NoArchive \in Archives /\ NoArchive.revision = 0 /\ ~NoArchive.sound
  BY DEF NoArchive, Archives
<1>2. /\ Free \in Processes /\ Free.pc = "idle" /\ Free.revision = 0 /\ Free.archive = NoArchive
  BY <1>1 DEF Free, Processes, Stages
<1>3. /\ Idle \in Workers
      /\ Idle.on = FALSE
  BY DEF Idle, Workers, NoRecords
<1>4. Unleased \in [owner : Operators \cup {Worker, None}, fence : Nat, live : BOOLEAN]
  BY DEF Unleased
<1>5. QED
  BY <1>1, <1>2, <1>3, <1>4

LEMMA InitIInv == Init => IInv
<1> SUFFICES ASSUME Init PROVE IInv
  OBVIOUS
<1> USE DEF Init
<1>1. TypeOK
  <2>1. events \subseteq 1..written /\ counts \in [Families -> Nat] /\ diagnostics \in [Families -> SUBSET Nat]
    OBVIOUS
  <2>2. losses \in 0..MaxLosses /\ crashes \in 0..MaxCrashes
    BY RetentionAssumption
  <2>3. file \in [Files -> Archives \cup {None}] /\ op \in [Operators -> Processes]
    BY Constants
  <2>4. revision \in Nat /\ written \in Nat /\ terminal \in BOOLEAN /\ running \in BOOLEAN /\ unresolved \in BOOLEAN
        /\ receipts \subseteq [path : Files, archive : Archives]
    OBVIOUS
  <2>5. QED
    BY <2>1, <2>2, <2>3, <2>4, Constants DEF TypeOK
<1>2. RowInv
  BY Constants DEF RowInv, Loads, Hydrates
<1>3. FileInv
  BY Constants DEF FileInv, Pruning
<1>4. HistoryInv
  BY Constants DEF HistoryInv
<1>5. CurrentInv
  BY Constants DEF CurrentInv, Current
<1>6. QED
  BY <1>1, <1>2, <1>3, <1>4, <1>5 DEF IInv

\* A field of an operator's process is replaced.
LEMMA ProcessPut ==
    ASSUME NEW v \in Processes
    PROVE  /\ \A x \in Stages : [v EXCEPT !.pc = x] \in Processes
           /\ \A x \in Nat : [v EXCEPT !.revision = x] \in Processes /\ [v EXCEPT !.fence = x] \in Processes
           /\ \A x \in Files : [v EXCEPT !.path = x] \in Processes
           /\ \A x \in Archives : [v EXCEPT !.archive = x] \in Processes
           /\ \A x \in [diagnostics : Nat, events : Nat] : [v EXCEPT !.keep = x] \in Processes
           /\ \A x \in SUBSET Files : [v EXCEPT !.late = x] \in Processes
<1>1. \A x \in Stages : [v EXCEPT !.pc = x] \in Processes
  BY DEF Processes
<1>2. \A x \in Nat : [v EXCEPT !.revision = x] \in Processes /\ [v EXCEPT !.fence = x] \in Processes
  BY DEF Processes
<1>3. \A x \in Files : [v EXCEPT !.path = x] \in Processes
  BY DEF Processes
<1>4. \A x \in Archives : [v EXCEPT !.archive = x] \in Processes
  BY DEF Processes
<1>5. \A x \in [diagnostics : Nat, events : Nat] : [v EXCEPT !.keep = x] \in Processes
  BY DEF Processes
<1>6. \A x \in SUBSET Files : [v EXCEPT !.late = x] \in Processes
  BY DEF Processes
<1>7. QED
  BY <1>1, <1>2, <1>3, <1>4, <1>5, <1>6

\* The states a process goes to.
Exporting(p) == [Free EXCEPT !.pc = "exporting", !.path = p, !.archive = Snapshot]
LoadedAt == [Free EXCEPT !.pc = "loaded", !.revision = revision]
VerifiedAs(v, p, keep) ==
    [v EXCEPT !.pc = "verified", !.path = p, !.archive = file[p], !.keep = keep, !.late = {}]
LeasedAt(v) == [v EXCEPT !.pc = "leased", !.fence = lease.fence + 1]

LEMMA ExportingFact ==
    ASSUME TypeOK, NEW p \in Files
    PROVE  /\ Snapshot \in Archives /\ Snapshot.sound /\ Snapshot.revision = revision
           /\ Snapshot.events = events /\ Snapshot.diagnostics = diagnostics
           /\ Exporting(p) \in Processes /\ Exporting(p).pc = "exporting" /\ Exporting(p).path = p
           /\ Exporting(p).archive = Snapshot /\ Exporting(p).revision = 0
<1>1. /\ Snapshot \in Archives /\ Snapshot.sound /\ Snapshot.revision = revision
      /\ Snapshot.events = events /\ Snapshot.diagnostics = diagnostics
  <2>1. revision \in Nat /\ events \in SUBSET Nat /\ diagnostics \in [Families -> SUBSET Nat]
    BY DEF TypeOK
  <2>2. QED
    BY <2>1 DEF Snapshot, Archives
<1> DEFINE a == [Free EXCEPT !.pc = "exporting"]
           b == [a EXCEPT !.path = p]
           c == [b EXCEPT !.archive = Snapshot]
<1>2. Exporting(p) = c
  BY DEF Exporting
<1>3. Free \in Processes /\ Free.revision = 0 /\ "exporting" \in Stages
  BY Constants DEF Stages
<1>4. /\ Exporting(p).pc = "exporting" /\ Exporting(p).path = p
      /\ Exporting(p).archive = Snapshot /\ Exporting(p).revision = 0
  BY <1>3 DEF Exporting, Processes
<1>5. a \in Processes
  BY <1>3, ProcessPut
<1> HIDE DEF a
<1>6. b \in Processes
  BY <1>5, ProcessPut
<1> HIDE DEF b
<1>7. c \in Processes
  BY <1>1, <1>6, ProcessPut
<1>8. QED
  BY <1>1, <1>2, <1>4, <1>7

LEMMA LoadedFact ==
    ASSUME TypeOK
    PROVE  /\ LoadedAt \in Processes /\ LoadedAt.pc = "loaded" /\ LoadedAt.revision = revision
           /\ LoadedAt.archive = NoArchive
<1> DEFINE a == [Free EXCEPT !.pc = "loaded"]
           b == [a EXCEPT !.revision = revision]
<1>1. LoadedAt = b
  BY DEF LoadedAt
<1>2. Free \in Processes /\ Free.archive = NoArchive /\ "loaded" \in Stages /\ revision \in Nat
  BY Constants DEF Stages, TypeOK
<1>3. LoadedAt.pc = "loaded" /\ LoadedAt.revision = revision /\ LoadedAt.archive = NoArchive
  BY <1>2 DEF LoadedAt, Processes
<1>4. a \in Processes
  BY <1>2, ProcessPut
<1> HIDE DEF a
<1>5. b \in Processes
  BY <1>2, <1>4, ProcessPut
<1>6. QED
  BY <1>1, <1>3, <1>5

LEMMA VerifiedFact ==
    ASSUME TypeOK, NEW v \in Processes, NEW p \in Files, file[p] # None,
           NEW keep \in [diagnostics : Nat, events : Nat]
    PROVE  LET w == VerifiedAs(v, p, keep)
           IN  /\ w \in Processes /\ w.pc = "verified" /\ w.path = p /\ w.archive = file[p]
               /\ w.keep = keep /\ w.late = {} /\ w.revision = v.revision
<1> DEFINE w == VerifiedAs(v, p, keep)
           x == file[p]
           a == [v EXCEPT !.pc = "verified"]
           b == [a EXCEPT !.path = p]
           c == [b EXCEPT !.archive = x]
           d == [c EXCEPT !.keep = keep]
           e == [d EXCEPT !.late = {}]
<1>1. w = e
  BY DEF VerifiedAs
<1>2. x \in Archives /\ "verified" \in Stages
  BY DEF TypeOK, Stages
<1>3. /\ w.pc = "verified" /\ w.path = p /\ w.archive = x /\ w.keep = keep /\ w.late = {}
      /\ w.revision = v.revision
  BY DEF VerifiedAs, Processes
<1> HIDE DEF x, w
<1>4. a \in Processes
  BY <1>2, ProcessPut
<1> HIDE DEF a
<1>5. b \in Processes
  BY <1>4, ProcessPut
<1> HIDE DEF b
<1>6. c \in Processes
  BY <1>2, <1>5, ProcessPut
<1> HIDE DEF c
<1>7. d \in Processes
  BY <1>6, ProcessPut
<1> HIDE DEF d
<1>8. e \in Processes
  BY <1>7, ProcessPut
<1> HIDE DEF e
<1>9. QED
  BY <1>1, <1>3, <1>8 DEF w, x

LEMMA LeasedFact ==
    ASSUME TypeOK, NEW v \in Processes
    PROVE  LET w == LeasedAt(v)
           IN  /\ w \in Processes /\ w.pc = "leased" /\ w.path = v.path /\ w.archive = v.archive
               /\ w.keep = v.keep /\ w.late = v.late /\ w.revision = v.revision
<1> DEFINE w == LeasedAt(v)
           n == lease.fence + 1
           a == [v EXCEPT !.pc = "leased"]
           b == [a EXCEPT !.fence = n]
<1>1. w = b
  BY DEF LeasedAt
<1>2. n \in Nat /\ "leased" \in Stages
  BY DEF TypeOK, Stages
<1>3. /\ w.pc = "leased" /\ w.path = v.path /\ w.archive = v.archive
      /\ w.keep = v.keep /\ w.late = v.late /\ w.revision = v.revision
  BY DEF LeasedAt, Processes
<1> HIDE DEF n, w
<1>4. a \in Processes
  BY <1>2, ProcessPut
<1> HIDE DEF a
<1>5. b \in Processes
  BY <1>2, <1>4, ProcessPut
<1> HIDE DEF b
<1>6. QED
  BY <1>1, <1>3, <1>5 DEF w

----------------------------------------------------------------------------
(* What the parts of the invariant need of a step. *)

\* An operator goes to v; the rows, the receipts and the archives stay.
LEMMA MoveKeeps ==
    ASSUME IInv, NEW o \in Operators, NEW v \in Processes, op' = [op EXCEPT ![o] = v],
           UNCHANGED <<session, receipts, file>>,
           v.revision <= revision, Current(v.archive), v.pc # "exporting",
           v.pc \in Pruning => /\ v.path \in Files /\ v.archive.sound /\ KeepAllowed(v.keep)
                               /\ v.path \in v.late \/ file[v.path] = v.archive,
           v.pc \in {"admitted", "leased"} /\ v.revision = revision =>
               \A r \in receipts : Intact(r, v.late)
    PROVE  op' \in [Operators -> Processes] /\ FileInv' /\ HistoryInv' /\ CurrentInv'
<1>1. op \in [Operators -> Processes]
  BY DEF IInv, TypeOK
<1>2. op' \in [Operators -> Processes] /\ op'[o] = v /\ \A u \in Operators : u # o => op'[u] = op[u]
  BY <1>1
<1>3. /\ revision' = revision /\ events' = events /\ diagnostics' = diagnostics /\ counts' = counts
      /\ written' = written /\ receipts' = receipts /\ file' = file
  BY DEF session
<1>4. FileInv'
  <2>1. ASSUME NEW u \in Operators, op'[u].pc = "exporting"
        PROVE  u # o /\ op'[u] = op[u]
    BY <1>2, <2>1
  <2>2. ASSUME NEW u \in Operators, op'[u].pc \in Pruning
        PROVE  /\ op'[u].path \in Files /\ op'[u].archive.sound /\ KeepAllowed(op'[u].keep)
               /\ op'[u].path \in op'[u].late \/ file[op'[u].path] = op'[u].archive
    BY <1>2, <2>2 DEF IInv, FileInv
  <2>3. QED
    BY <1>3, <2>1, <2>2 DEF IInv, FileInv
<1>5. HistoryInv'
  <2>1. ASSUME NEW u \in Operators PROVE op'[u].revision <= revision
    BY <1>2 DEF IInv, HistoryInv
  <2>2. ASSUME NEW u \in Operators, op'[u].pc \in {"admitted", "leased"}, op'[u].revision = revision
        PROVE  \A r \in receipts : Intact(r, op'[u].late)
    BY <1>2, <2>2 DEF IInv, HistoryInv
  <2>3. QED
    BY <1>3, <2>1, <2>2 DEF IInv, HistoryInv, Intact
<1>6. CurrentInv'
  <2>1. ASSUME NEW u \in Operators PROVE Current(op'[u].archive)
    BY <1>2 DEF IInv, CurrentInv
  <2>2. QED
    BY <1>3, <2>1 DEF IInv, CurrentInv, Current
<1>7. QED
  BY <1>2, <1>4, <1>5, <1>6

\* A commit of the worker or of reconcile-runs: one event more, and no row
\* less than the counters say.
LEMMA CommitKeeps ==
    ASSUME IInv, Commit, UNCHANGED <<op, receipts, file>>, counts' \in [Families -> Nat],
           \A f \in Families : \A n \in 1..counts'[f] :
               n \in diagnostics'[f] \/ (n \in 1..counts[f] /\ n \notin diagnostics[f])
    PROVE  FileInv' /\ HistoryInv' /\ CurrentInv'
<1>0. revision \in Nat /\ written \in Nat /\ op \in [Operators -> Processes]
  BY DEF IInv, TypeOK
<1>1. /\ revision' = revision + 1 /\ written' = written + 1 /\ events' = events \cup {written + 1}
      /\ op' = op /\ receipts' = receipts /\ file' = file
  BY DEF Commit
<1>2. FileInv'
  BY <1>1 DEF IInv, FileInv
<1>3. HistoryInv'
  <2>1. ASSUME NEW n \in 1..written' PROVE n \in events' \/ \E r \in receipts : n \in r.archive.events
    <3>1. n \in 1..written \/ n = written + 1
      BY <1>0, <1>1
    <3>2. QED
      BY <1>1, <3>1 DEF IInv, HistoryInv
  <2>2. ASSUME NEW f \in Families, NEW n \in 1..counts'[f]
        PROVE  n \in diagnostics'[f] \/ \E r \in receipts : n \in r.archive.diagnostics[f]
    BY DEF IInv, HistoryInv
  <2>3. ASSUME NEW u \in Operators PROVE op[u].revision <= revision' /\ op[u].revision # revision'
    <3>1. op[u].revision \in Nat /\ op[u].revision <= revision
      BY <1>0 DEF IInv, HistoryInv, Processes
    <3>2. QED
      BY <1>0, <1>1, <3>1
  <2>4. QED
    BY <1>1, <2>1, <2>2, <2>3 DEF IInv, HistoryInv
<1>4. CurrentInv'
  <2>1. ASSUME NEW a \in Archives, Current(a) PROVE Current(a)'
    <3>1. a.revision \in Nat /\ a.revision <= revision
      BY <2>1 DEF Archives, Current
    <3>2. a.revision <= revision' /\ a.revision # revision'
      BY <1>0, <1>1, <3>1
    <3>3. QED
      BY <3>2 DEF Current
  <2>2. \A u \in Operators : op[u].archive \in Archives
    BY <1>0 DEF Processes
  <2>3. \A p \in Files : file[p] # None => file[p] \in Archives
    BY DEF IInv, TypeOK
  <2>4. QED
    BY <1>1, <2>1, <2>2, <2>3 DEF IInv, CurrentInv
<1>5. QED
  BY <1>2, <1>3, <1>4

\* The lease of the worker is kept or lost, its process and the rows stay.
LEMMA RowKept ==
    ASSUME IInv, UNCHANGED <<diagnostics, counts, worker>>,
           worker.on => /\ worker.fence <= lease'.fence
                        /\ Holds(Worker, worker.fence)' => Holds(Worker, worker.fence)
    PROVE  RowInv'
  BY DEF IInv, RowInv, Loads, Hydrates

\* Nothing of the operators, the rows, the receipts and the archives changes.
LEMMA OperatorsKept ==
    ASSUME IInv, UNCHANGED <<session, op, receipts, file>>
    PROVE  FileInv' /\ HistoryInv' /\ CurrentInv'
<1>1. /\ revision' = revision /\ events' = events /\ diagnostics' = diagnostics /\ counts' = counts
      /\ written' = written /\ receipts' = receipts /\ file' = file /\ op' = op
  BY DEF session
<1>2. FileInv'
  BY <1>1 DEF IInv, FileInv
<1>3. HistoryInv'
  BY <1>1 DEF IInv, HistoryInv, Intact
<1>4. CurrentInv'
  BY <1>1 DEF IInv, CurrentInv, Current
<1>5. QED
  BY <1>2, <1>3, <1>4

----------------------------------------------------------------------------
(* The lease and the worker. *)

\* The lease after a release, an acquisition or an expiry.
LEMMA LeaseFact ==
    ASSUME TypeOK, NEW o \in Operators \cup {Worker}, NEW n \in Nat
    PROVE  /\ Acquire(o) => /\ lease' \in [owner : Operators \cup {Worker, None}, fence : Nat, live : BOOLEAN]
                            /\ lease'.fence = lease.fence + 1
           /\ Release(o, n) => /\ lease' \in [owner : Operators \cup {Worker, None}, fence : Nat, live : BOOLEAN]
                               /\ lease'.fence = lease.fence
                               /\ lease'.live => lease' = lease
<1>1. lease \in [owner : Operators \cup {Worker, None}, fence : Nat, live : BOOLEAN]
  BY DEF TypeOK
<1>2. ASSUME Acquire(o)
      PROVE  /\ lease' \in [owner : Operators \cup {Worker, None}, fence : Nat, live : BOOLEAN]
             /\ lease'.fence = lease.fence + 1
  BY <1>1, <1>2 DEF Acquire
<1>3. ASSUME Release(o, n)
      PROVE  /\ lease' \in [owner : Operators \cup {Worker, None}, fence : Nat, live : BOOLEAN]
             /\ lease'.fence = lease.fence /\ (lease'.live => lease' = lease)
  <2> DEFINE x == [lease EXCEPT !.owner = None, !.live = FALSE]
             y == [lease EXCEPT !.owner = None]
             z == [y EXCEPT !.live = FALSE]
  <2>1. x.fence = lease.fence /\ ~x.live
    BY <1>1
  <2>2. x = z
    OBVIOUS
  <2>3. y \in [owner : Operators \cup {Worker, None}, fence : Nat, live : BOOLEAN]
    BY <1>1
  <2> HIDE DEF y
  <2>4. z \in [owner : Operators \cup {Worker, None}, fence : Nat, live : BOOLEAN]
    BY <2>3
  <2>5. lease' \in {x, lease}
    BY <1>3 DEF Release
  <2> HIDE DEF x, z
  <2>6. QED
    BY <1>1, <2>1, <2>2, <2>4, <2>5
<1>4. QED
  BY <1>2, <1>3

LEMMA ExpireStep ==
    ASSUME IInv, Expire PROVE IInv'
<1> USE DEF Expire
<1>0. lease \in [owner : Operators \cup {Worker, None}, fence : Nat, live : BOOLEAN]
  BY DEF IInv, TypeOK
<1>1. /\ lease' \in [owner : Operators \cup {Worker, None}, fence : Nat, live : BOOLEAN]
      /\ lease'.fence = lease.fence /\ ~lease'.live
  BY <1>0
<1>2. TypeOK'
  BY <1>1 DEF IInv, TypeOK, session
<1>3. RowInv'
  <2>1. worker.on => worker.fence <= lease'.fence
    BY <1>1 DEF IInv, RowInv
  <2>2. QED
    BY <1>1, <2>1, RowKept DEF session, Holds
<1>4. FileInv' /\ HistoryInv' /\ CurrentInv'
  BY OperatorsKept
<1>5. QED
  BY <1>2, <1>3, <1>4 DEF IInv

LEMMA StartRunStep ==
    ASSUME IInv, StartRun PROVE IInv'
<1> USE DEF StartRun
<1> DEFINE w == [on |-> TRUE, stage |-> "working", fence |-> lease.fence + 1, counts |-> counts,
                 outbox |-> NoRecords]
<1>0. /\ revision \in Nat /\ written \in Nat /\ events \subseteq 1..written /\ lease.fence \in Nat
      /\ counts \in [Families -> Nat]
  BY DEF IInv, TypeOK
<1>1. lease' \in [owner : Operators \cup {Worker, None}, fence : Nat, live : BOOLEAN]
      /\ lease'.fence = lease.fence + 1
  <2>1. TypeOK /\ Worker \in Operators \cup {Worker} /\ 0 \in Nat
    BY DEF IInv
  <2>2. QED
    BY <2>1, LeaseFact
<1>2. revision' \in Nat /\ written' \in Nat /\ events' \subseteq 1..written'
  BY <1>0 DEF Commit
<1>3. worker' = w
  OBVIOUS
<1>4. /\ w \in Workers
      /\ w.fence = lease.fence + 1 /\ w.counts = counts /\ \A f \in Families : w.outbox[f] = {}
  BY <1>0 DEF Workers, NoRecords
<1> HIDE DEF w
<1>5. TypeOK'
  <2>1. terminal' \in BOOLEAN /\ running' \in BOOLEAN /\ unresolved' \in BOOLEAN
    BY DEF IInv, TypeOK
  <2>2. QED
    BY <1>1, <1>2, <1>3, <1>4, <2>1 DEF IInv, TypeOK
<1>6. RowInv'
  <2>1. \A f \in Families :
          counts[f] \in Nat /\ w.outbox[f] \ diagnostics[f] = (counts[f] + 1)..w.counts[f]
    <3>1. \A n \in Nat : (n + 1)..n = {}
      OBVIOUS
    <3>2. QED
      BY <1>0, <1>4, <3>1
  <2>2. UNCHANGED <<diagnostics, counts>>
    OBVIOUS
  <2>3. Loads'
    BY <2>2 DEF IInv, RowInv, Loads, Hydrates
  <2>4. worker'.fence <= lease'.fence
    BY <1>0, <1>1, <1>3, <1>4
  <2>5. \A f \in Families : counts'[f] <= worker'.counts[f]
    BY <1>3, <1>4, <2>1, <2>2
  <2>6. QED
    BY <1>3, <2>1, <2>2, <2>3, <2>4, <2>5, <1>4 DEF RowInv
<1>7. FileInv' /\ HistoryInv' /\ CurrentInv'
  BY <1>0, CommitKeeps
<1>8. QED
  BY <1>5, <1>6, <1>7 DEF IInv

LEMMA RecordStep ==
    ASSUME IInv, NEW g \in Families, Record(g) PROVE IInv'
<1> USE DEF Record
<1> DEFINE c == [worker.counts EXCEPT ![g] = @ + 1]
           b == [worker.outbox EXCEPT ![g] = @ \cup {worker.counts[g] + 1}]
<1>0. /\ worker \in Workers
      /\ counts \in [Families -> Nat]
  BY DEF IInv, TypeOK
<1>1. c \in [Families -> Nat] /\ b \in [Families -> SUBSET Nat]
  BY <1>0 DEF Workers
<1>2. worker' = [worker EXCEPT !.counts = c, !.outbox = b]
  OBVIOUS
<1>3. /\ \A f \in Families : f # g => c[f] = worker.counts[f] /\ b[f] = worker.outbox[f]
      /\ c[g] = worker.counts[g] + 1 /\ b[g] = worker.outbox[g] \cup {worker.counts[g] + 1}
  BY <1>0 DEF Workers
<1> HIDE DEF c, b
<1>4. /\ worker' \in Workers
      /\ worker'.on = worker.on /\ worker'.fence = worker.fence /\ worker'.counts = c /\ worker'.outbox = b
  <2> DEFINE x == [worker EXCEPT !.counts = c]
             y == [x EXCEPT !.outbox = b]
  <2>1. x \in Workers
    BY <1>0, <1>1 DEF Workers
  <2>2. /\ worker'.on = worker.on /\ worker'.fence = worker.fence /\ worker'.counts = c /\ worker'.outbox = b
    BY <1>0, <1>2 DEF Workers
  <2>3. worker' = y
    BY <1>2
  <2> HIDE DEF x
  <2>4. y \in Workers
    BY <1>1, <2>1 DEF Workers
  <2>5. QED
    BY <2>2, <2>3, <2>4
<1>5. TypeOK'
  BY <1>4 DEF IInv, TypeOK, session
<1>6. RowInv'
  <2>1. UNCHANGED <<diagnostics, counts, lease>>
    BY DEF session
  <2>2. Loads'
    BY <2>1 DEF IInv, RowInv, Loads, Hydrates
  <2>3. worker'.fence <= lease'.fence
    BY <1>4, <2>1 DEF IInv, RowInv
  <2>4. ASSUME Holds(Worker, worker.fence)', NEW f \in Families
        PROVE  counts[f] <= c[f] /\ b[f] \ diagnostics[f] = (counts[f] + 1)..c[f]
    <3>1. Holds(Worker, worker.fence)
      BY <1>4, <2>1, <2>4 DEF Holds
    <3>2. /\ counts[f] <= worker.counts[f]
          /\ worker.outbox[f] \ diagnostics[f] = (counts[f] + 1)..worker.counts[f]
      BY <3>1 DEF IInv, RowInv
    <3>3. counts[f] \in Nat /\ worker.counts[f] \in Nat
      BY <1>0 DEF Workers
    <3>4. CASE f # g
      BY <1>3, <3>2, <3>4
    <3>5. CASE f = g
      <4>1. ASSUME NEW m \in Nat, NEW n \in Nat, m <= n
            PROVE  ((m + 1)..n) \cup {n + 1} = (m + 1)..(n + 1)
        BY <4>1
      <4>2. ((counts[f] + 1)..worker.counts[f]) \cup {worker.counts[f] + 1}
              = (counts[f] + 1)..(worker.counts[f] + 1)
        BY <3>2, <3>3, <4>1
      <4>3. c[f] = worker.counts[f] + 1
        BY <1>3, <3>5
      <4>4. b[f] \ diagnostics[f] = ((counts[f] + 1)..worker.counts[f]) \cup {worker.counts[f] + 1}
        <5>1. worker.counts[f] + 1 \notin diagnostics[f]
          BY <3>2, <3>3 DEF IInv, RowInv, Loads, Hydrates
        <5>2. b[f] = worker.outbox[f] \cup {worker.counts[f] + 1}
          BY <1>3, <3>5
        <5>3. QED
          BY <3>2, <5>1, <5>2
      <4>5. counts[f] <= c[f]
        BY <3>2, <3>3, <4>3
      <4>6. b[f] \ diagnostics[f] = (counts[f] + 1)..c[f]
        BY <4>2, <4>3, <4>4
      <4>7. QED
        BY <4>5, <4>6
    <3>6. QED
      BY <3>4, <3>5
  <2>5. QED
    BY <1>4, <2>1, <2>2, <2>3, <2>4 DEF RowInv
<1>7. FileInv' /\ HistoryInv' /\ CurrentInv'
  BY OperatorsKept
<1>8. QED
  BY <1>5, <1>6, <1>7 DEF IInv

\* write_diagnostics: the outbox continues the table.
LEMMA FlushFact ==
    ASSUME IInv, worker.on, Holds(Worker, worker.fence), Flush
    PROVE  /\ counts' \in [Families -> Nat] /\ counts' = worker.counts
           /\ diagnostics' \in [Families -> SUBSET Nat] /\ Loads'
           /\ \A f \in Families : \A n \in 1..counts'[f] :
                n \in diagnostics'[f] \/ (n \in 1..counts[f] /\ n \notin diagnostics[f])
<1>0. /\ worker \in Workers
      /\ counts \in [Families -> Nat] /\ diagnostics \in [Families -> SUBSET Nat] /\ Recent \in Nat
  BY RetentionAssumption DEF IInv, TypeOK
<1>1. /\ counts' \in [Families -> Nat] /\ counts' = worker.counts
      /\ diagnostics' = [f \in Families |-> diagnostics[f] \cup worker.outbox[f]]
  BY <1>0 DEF Flush, Workers
<1>2. diagnostics' \in [Families -> SUBSET Nat]
  BY <1>0, <1>1 DEF Workers
<1>3. ASSUME NEW f \in Families
      PROVE  /\ \A n \in diagnostics'[f] : n <= counts'[f]
             /\ \A n \in 1..counts'[f] : n \in 1..counts[f] \/ n \in diagnostics'[f]
             /\ \A n \in 1..counts'[f] : n + Recent > counts'[f] => n \in diagnostics'[f]
  <2>1. counts[f] \in Nat /\ counts'[f] \in Nat /\ counts[f] <= counts'[f]
    BY <1>0, <1>1 DEF IInv, RowInv
  <2>2. diagnostics'[f] = diagnostics[f] \cup ((counts[f] + 1)..counts'[f])
    <3>1. worker.outbox[f] \ diagnostics[f] = (counts[f] + 1)..counts'[f]
      BY <1>1 DEF IInv, RowInv
    <3>2. diagnostics'[f] = diagnostics[f] \cup (worker.outbox[f] \ diagnostics[f])
      BY <1>1
    <3>3. QED
      BY <3>1, <3>2
  <2>3. /\ \A n \in diagnostics[f] : n \in Nat /\ n <= counts[f]
        /\ \A n \in 1..counts[f] : n + Recent > counts[f] => n \in diagnostics[f]
    BY <1>0 DEF IInv, RowInv, Loads, Hydrates
  <2>4. \A n \in diagnostics'[f] : n <= counts'[f]
    BY <2>1, <2>2, <2>3
  <2>5. \A n \in 1..counts'[f] : n \in 1..counts[f] \/ n \in diagnostics'[f]
    BY <2>1, <2>2
  <2>6. \A n \in 1..counts'[f] : n + Recent > counts'[f] => n \in diagnostics'[f]
    BY <1>0, <2>1, <2>2, <2>3
  <2>7. QED
    BY <2>4, <2>5, <2>6
<1>4. Loads'
  BY <1>3 DEF Loads, Hydrates
<1>5. \A f \in Families : \A n \in 1..counts'[f] :
        n \in diagnostics'[f] \/ (n \in 1..counts[f] /\ n \notin diagnostics[f])
  <2>1. \A f \in Families : diagnostics[f] \subseteq diagnostics'[f]
    BY <1>1
  <2>2. QED
    BY <1>3, <2>1
<1>6. QED
  BY <1>1, <1>2, <1>4, <1>5

\* A save of the worker: what it has written may stay in the outbox, to be
\* written again, or it is acknowledged; or the worker is done.
LEMMA SaveKeeps ==
    ASSUME IInv, worker.on, Holds(Worker, worker.fence), Commit, Flush,
           UNCHANGED <<receipts, file, op, losses, crashes>>,
           terminal' \in BOOLEAN, running' \in BOOLEAN, unresolved' \in BOOLEAN,
           lease' \in [owner : Operators \cup {Worker, None}, fence : Nat, live : BOOLEAN],
           worker' \in Workers,
           \/ worker'.on = FALSE
           \/ /\ lease' = lease /\ worker'.fence = worker.fence /\ worker'.counts = worker.counts
              /\ worker'.outbox = NoRecords \/ worker'.outbox = worker.outbox
    PROVE  IInv'
<1>0. revision \in Nat /\ written \in Nat /\ events \subseteq 1..written
  BY DEF IInv, TypeOK
<1>1. /\ counts' \in [Families -> Nat] /\ counts' = worker.counts
      /\ diagnostics' \in [Families -> SUBSET Nat] /\ Loads'
      /\ \A f \in Families : \A n \in 1..counts'[f] :
            n \in diagnostics'[f] \/ (n \in 1..counts[f] /\ n \notin diagnostics[f])
  BY FlushFact
<1>2. revision' \in Nat /\ written' \in Nat /\ events' \subseteq 1..written'
  BY <1>0 DEF Commit
<1>3. TypeOK'
  BY <1>1, <1>2 DEF IInv, TypeOK
<1>4. RowInv'
  <2>1. CASE worker'.on = FALSE
    BY <1>1, <2>1 DEF RowInv
  <2>2. CASE /\ lease' = lease /\ worker'.fence = worker.fence /\ worker'.counts = worker.counts
             /\ worker'.outbox = NoRecords \/ worker'.outbox = worker.outbox
    <3>1. worker'.fence <= lease'.fence
      BY <2>2 DEF IInv, RowInv
    <3>2. \A n \in Nat : n <= n /\ (n + 1)..n = {}
      OBVIOUS
    <3>3. \A f \in Families : worker'.outbox[f] \ diagnostics'[f] = {}
      <4>1. CASE worker'.outbox = NoRecords
        BY <4>1 DEF NoRecords
      <4>2. CASE worker'.outbox = worker.outbox
        BY <4>2 DEF Flush
      <4>3. QED
        BY <2>2, <4>1, <4>2
    <3>4. \A f \in Families : /\ counts'[f] <= worker'.counts[f]
                              /\ worker'.outbox[f] \ diagnostics'[f] = (counts'[f] + 1)..worker'.counts[f]
      BY <1>1, <2>2, <3>2, <3>3
    <3>5. QED
      BY <1>1, <3>1, <3>4 DEF RowInv
  <2>3. QED
    BY <2>1, <2>2
<1>5. FileInv' /\ HistoryInv' /\ CurrentInv'
  BY <1>1, CommitKeeps
<1>6. QED
  BY <1>3, <1>4, <1>5 DEF IInv

\* The worker after a checkpoint, with its outbox emptied or as it was.
LEMMA WorkerPut ==
    ASSUME TypeOK
    PROVE  /\ NoRecords \in [Families -> SUBSET Nat]
           /\ \A s \in {"working", "failed", "saved"}, b \in [Families -> SUBSET Nat] :
                LET w == [worker EXCEPT !.stage = s, !.outbox = b]
                IN  w \in Workers /\ w.fence = worker.fence /\ w.counts = worker.counts /\ w.outbox = b
           /\ worker.outbox \in [Families -> SUBSET Nat]
<1>1. worker \in Workers
  BY DEF TypeOK
<1>2. NoRecords \in [Families -> SUBSET Nat]
  BY DEF NoRecords
<1>3. QED
  BY <1>1, <1>2 DEF Workers

LEMMA CheckpointStep ==
    ASSUME IInv, NEW pending \in BOOLEAN, NEW ends \in BOOLEAN, Checkpoint(pending, ends) PROVE IInv'
<1> USE DEF Checkpoint, SaveCheckpoint, MaySave
<1>1. terminal' \in BOOLEAN /\ running' \in BOOLEAN /\ unresolved' \in BOOLEAN
  OBVIOUS
<1>2. /\ worker' \in Workers /\ worker'.fence = worker.fence /\ worker'.counts = worker.counts
      /\ worker'.outbox = NoRecords
  <2>1. PICK x \in {"saved", "working"} : worker' = [worker EXCEPT !.stage = x, !.outbox = NoRecords]
    OBVIOUS
  <2>2. NoRecords \in [Families -> SUBSET Nat] /\ worker \in Workers
    BY WorkerPut DEF IInv, TypeOK
  <2>3. QED
    BY <2>1, <2>2 DEF Workers
<1>3. lease' = lease /\ lease' \in [owner : Operators \cup {Worker, None}, fence : Nat, live : BOOLEAN]
  BY DEF IInv, TypeOK
<1>4. QED
  BY <1>1, <1>2, <1>3, SaveKeeps

LEMMA CheckpointFailsStep ==
    ASSUME IInv, NEW pending \in BOOLEAN, NEW ends \in BOOLEAN, NEW acknowledged \in BOOLEAN,
           CheckpointFails(pending, ends, acknowledged)
    PROVE  IInv'
<1> USE DEF CheckpointFails, SaveCheckpoint, MaySave
<1>1. terminal' \in BOOLEAN /\ running' \in BOOLEAN /\ unresolved' \in BOOLEAN
  OBVIOUS
<1>2. PICK b \in {NoRecords, worker.outbox} : worker' = [worker EXCEPT !.stage = "failed", !.outbox = b]
  OBVIOUS
<1>3. b \in [Families -> SUBSET Nat]
  BY WorkerPut DEF IInv
<1>4. /\ worker' \in Workers /\ worker'.fence = worker.fence /\ worker'.counts = worker.counts
      /\ worker'.outbox = b
  <2>1. LET w == [worker EXCEPT !.stage = "failed", !.outbox = b]
        IN  w \in Workers /\ w.fence = worker.fence /\ w.counts = worker.counts /\ w.outbox = b
    BY <1>3, WorkerPut DEF IInv
  <2>2. QED
    BY <1>2, <2>1
<1>5. lease' = lease /\ lease' \in [owner : Operators \cup {Worker, None}, fence : Nat, live : BOOLEAN]
  BY DEF IInv, TypeOK
<1>6. QED
  BY <1>1, <1>2, <1>4, <1>5, SaveKeeps

\* The lease after the worker has released it.
LEMMA WorkerReleases ==
    ASSUME IInv, Release(Worker, worker.fence)
    PROVE  lease' \in [owner : Operators \cup {Worker, None}, fence : Nat, live : BOOLEAN]
<1>1. TypeOK /\ Worker \in Operators \cup {Worker} /\ worker.fence \in Nat
  BY DEF IInv, TypeOK, Workers
<1>2. QED
  BY <1>1, LeaseFact

LEMMA SaveFailureStep ==
    ASSUME IInv, NEW pending \in BOOLEAN, SaveFailure(pending) PROVE IInv'
<1> USE DEF SaveFailure, MaySave
<1>1. terminal' \in BOOLEAN /\ running' \in BOOLEAN /\ unresolved' \in BOOLEAN
  OBVIOUS
<1>2. CASE worker' = [worker EXCEPT !.stage = "saved", !.outbox = NoRecords] /\ UNCHANGED lease
  <2>1. /\ worker' \in Workers /\ worker'.fence = worker.fence /\ worker'.counts = worker.counts
        /\ worker'.outbox = NoRecords
    BY <1>2, WorkerPut DEF IInv
  <2>2. lease' = lease /\ lease' \in [owner : Operators \cup {Worker, None}, fence : Nat, live : BOOLEAN]
    BY <1>2 DEF IInv, TypeOK
  <2>3. QED
    BY <1>1, <2>1, <2>2, SaveKeeps
<1>3. CASE worker' = Idle /\ Release(Worker, worker.fence)
  BY <1>1, <1>3, WorkerReleases, Constants, SaveKeeps
<1>4. QED
  BY <1>2, <1>3

LEMMA FinishRunStep ==
    ASSUME IInv, FinishRun PROVE IInv'
<1> USE DEF FinishRun, MaySave
<1>1. terminal' \in BOOLEAN /\ running' \in BOOLEAN /\ unresolved' \in BOOLEAN
  BY DEF IInv, TypeOK
<1>2. QED
  BY <1>1, WorkerReleases, Constants, SaveKeeps

LEMMA EngineFailsStep ==
    ASSUME IInv, EngineFails PROVE IInv'
<1> USE DEF EngineFails
<1>1. /\ worker' \in Workers /\ worker'.on = worker.on /\ worker'.fence = worker.fence
      /\ worker'.counts = worker.counts /\ worker'.outbox = worker.outbox
  BY DEF IInv, TypeOK, Workers
<1>2. TypeOK'
  BY <1>1 DEF IInv, TypeOK, session
<1>3. RowInv'
  BY <1>1 DEF IInv, RowInv, session, Loads, Hydrates, Holds
<1>4. FileInv' /\ HistoryInv' /\ CurrentInv'
  BY OperatorsKept
<1>5. QED
  BY <1>2, <1>3, <1>4 DEF IInv

LEMMA GiveUpStep ==
    ASSUME IInv, GiveUp PROVE IInv'
<1> USE DEF GiveUp
<1>1. TypeOK'
  BY WorkerReleases, Constants DEF IInv, TypeOK, session
<1>2. RowInv'
  BY Constants DEF IInv, RowInv, session, Loads, Hydrates
<1>3. FileInv' /\ HistoryInv' /\ CurrentInv'
  BY OperatorsKept
<1>4. QED
  BY <1>1, <1>2, <1>3 DEF IInv

LEMMA StopWorkerStep ==
    ASSUME IInv, StopWorker PROVE IInv'
<1> USE DEF StopWorker
<1>1. crashes' \in 0..MaxCrashes
  <2>1. crashes \in 0..MaxCrashes /\ MaxCrashes \in Nat
    BY RetentionAssumption DEF IInv, TypeOK
  <2>2. QED
    BY <2>1
<1>2. TypeOK'
  BY <1>1, Constants DEF IInv, TypeOK, session
<1>3. RowInv'
  BY Constants DEF IInv, RowInv, session, Loads, Hydrates
<1>4. FileInv' /\ HistoryInv' /\ CurrentInv'
  BY OperatorsKept
<1>5. QED
  BY <1>2, <1>3, <1>4 DEF IInv

LEMMA ReconcileStep ==
    ASSUME IInv, Reconcile PROVE IInv'
<1> USE DEF Reconcile
<1>0. /\ revision \in Nat /\ written \in Nat /\ events \subseteq 1..written /\ lease.fence \in Nat
      /\ counts \in [Families -> Nat] /\ worker.fence \in Nat
  BY DEF IInv, TypeOK, Workers
<1>1. revision' \in Nat /\ written' \in Nat /\ events' \subseteq 1..written'
  BY <1>0 DEF Commit
<1>2. /\ lease' \in [owner : Operators \cup {Worker, None}, fence : Nat, live : BOOLEAN]
      /\ lease'.fence = lease.fence + 1 /\ ~lease'.live
  BY <1>0
<1>3. TypeOK'
  <2>1. terminal' \in BOOLEAN /\ running' \in BOOLEAN /\ unresolved' \in BOOLEAN
    BY DEF IInv, TypeOK
  <2>2. QED
    BY <1>1, <1>2, <2>1 DEF IInv, TypeOK
<1>4. RowInv'
  <2>1. worker.on => worker.fence <= lease'.fence
    BY <1>0, <1>2 DEF IInv, RowInv
  <2>2. QED
    BY <1>2, <2>1, RowKept DEF Holds
<1>5. FileInv' /\ HistoryInv' /\ CurrentInv'
  BY <1>0, CommitKeeps
<1>6. QED
  BY <1>3, <1>4, <1>5 DEF IInv

----------------------------------------------------------------------------
(* The operators. *)

\* The rest of the state of a step that moves an operator and keeps the rows.
LEMMA MoveStep ==
    ASSUME IInv, FileInv', HistoryInv', CurrentInv', op' \in [Operators -> Processes],
           UNCHANGED <<session, receipts, worker>>, file' \in [Files -> Archives \cup {None}],
           lease' \in [owner : Operators \cup {Worker, None}, fence : Nat, live : BOOLEAN],
           lease.fence <= lease'.fence, lease'.live => lease' = lease \/ lease'.fence # lease.fence,
           crashes' \in 0..MaxCrashes, losses' \in 0..MaxLosses
    PROVE  IInv'
<1>1. TypeOK'
  BY DEF IInv, TypeOK, session
<1>2. RowInv'
  <2>1. worker.fence \in Nat /\ lease.fence \in Nat /\ lease'.fence \in Nat
    BY DEF IInv, TypeOK, Workers
  <2>2. worker.on => worker.fence <= lease.fence
    BY DEF IInv, RowInv
  <2>3. worker.on => worker.fence <= lease'.fence
    BY <2>1, <2>2
  <2>4. ASSUME worker.on, Holds(Worker, worker.fence)' PROVE Holds(Worker, worker.fence)
    <3>1. lease'.live /\ lease'.fence = worker.fence /\ lease'.owner = Worker
      BY <2>4 DEF Holds
    <3>2. lease'.fence = lease.fence
      BY <2>1, <2>2, <2>4, <3>1
    <3>3. QED
      BY <3>1, <3>2 DEF Holds
  <2>5. QED
    BY <2>3, <2>4, RowKept DEF session
<1>3. QED
  BY <1>1, <1>2 DEF IInv

LEMMA LoadForPruneStep ==
    ASSUME IInv, NEW o \in Operators, LoadForPrune(o) PROVE IInv'
<1> USE DEF LoadForPrune
<1>1. /\ op' = [op EXCEPT ![o] = LoadedAt] /\ LoadedAt \in Processes /\ LoadedAt.pc = "loaded"
      /\ LoadedAt.revision = revision /\ LoadedAt.archive = NoArchive
  BY LoadedFact DEF IInv, Set, LoadedAt
<1>2. LoadedAt.revision <= revision /\ Current(LoadedAt.archive)
  BY <1>1, Constants DEF IInv, TypeOK, Current
<1>3. LoadedAt.pc # "exporting" /\ LoadedAt.pc \notin Pruning /\ LoadedAt.pc \notin {"admitted", "leased"}
  BY <1>1 DEF Pruning
<1>4. op' \in [Operators -> Processes] /\ FileInv' /\ HistoryInv' /\ CurrentInv'
  BY <1>1, <1>2, <1>3, MoveKeeps
<1>5. QED
  BY <1>4, MoveStep DEF IInv, TypeOK

LEMMA FreeKeeps ==
    ASSUME IInv, NEW o \in Operators, Set(o, Free), UNCHANGED <<session, receipts, file>>
    PROVE  op' \in [Operators -> Processes] /\ FileInv' /\ HistoryInv' /\ CurrentInv'
<1>1. op' = [op EXCEPT ![o] = Free] /\ Free \in Processes
  BY Constants DEF Set
<1>2. Free.revision <= revision /\ Current(Free.archive)
  BY Constants DEF IInv, TypeOK, Current
<1>3. Free.pc # "exporting" /\ Free.pc \notin Pruning /\ Free.pc \notin {"admitted", "leased"}
  BY Constants DEF Pruning
<1>4. QED
  BY <1>1, <1>2, <1>3, MoveKeeps

LEMMA VerifyArchiveStep ==
    ASSUME IInv, NEW o \in Operators, NEW p \in Files, NEW keep \in [diagnostics : Nat, events : Nat],
           VerifyArchive(o, p, keep)
    PROVE  IInv'
<1> USE DEF VerifyArchive
<1> DEFINE w == VerifiedAs(op[o], p, keep)
<1>0. op[o] \in Processes /\ file[p] # None /\ file[p].sound /\ op[o].revision <= revision
  BY DEF IInv, TypeOK, Verifies, HistoryInv
<1>1. op' = [op EXCEPT ![o] = w]
  BY DEF Set, VerifiedAs
<1>2. /\ w \in Processes /\ w.pc = "verified" /\ w.path = p /\ w.archive = file[p]
      /\ w.keep = keep /\ w.late = {} /\ w.revision = op[o].revision
  BY <1>0, VerifiedFact DEF IInv
<1> HIDE DEF w
<1>3. Current(w.archive)
  BY <1>0, <1>2 DEF IInv, CurrentInv
<1>4. w.pc # "exporting" /\ w.pc \notin {"admitted", "leased"} /\ KeepAllowed(w.keep) /\ w.archive.sound
  BY <1>0, <1>2
<1>5. op' \in [Operators -> Processes] /\ FileInv' /\ HistoryInv' /\ CurrentInv'
  BY <1>0, <1>1, <1>2, <1>3, <1>4, MoveKeeps
<1>6. QED
  BY <1>5, MoveStep DEF IInv, TypeOK

LEMMA VerifyPriorStep ==
    ASSUME IInv, NEW o \in Operators, VerifyPrior(o) PROVE IInv'
<1> USE DEF VerifyPrior
<1> DEFINE w == [op[o] EXCEPT !.pc = "admitted"]
<1>0. op[o] \in Processes /\ "admitted" \in Stages
  BY DEF IInv, TypeOK, Stages
<1>1. op' = [op EXCEPT ![o] = w]
  BY DEF Set
<1>2. w \in Processes
  BY <1>0, ProcessPut
<1>3. /\ w.pc = "admitted" /\ w.path = op[o].path /\ w.archive = op[o].archive
      /\ w.keep = op[o].keep /\ w.late = op[o].late /\ w.revision = op[o].revision
  BY <1>0 DEF Processes
<1> HIDE DEF w
<1>4. Current(w.archive) /\ w.revision <= revision
  BY <1>3 DEF IInv, CurrentInv, HistoryInv
<1>5. /\ w.path \in Files /\ w.archive.sound /\ KeepAllowed(w.keep)
      /\ w.path \in w.late \/ file[w.path] = w.archive
  BY <1>3 DEF IInv, FileInv, Pruning
<1>6. \A r \in receipts : Intact(r, w.late)
  BY DEF Intact
<1>7. op' \in [Operators -> Processes] /\ FileInv' /\ HistoryInv' /\ CurrentInv'
  BY <1>1, <1>2, <1>3, <1>4, <1>5, <1>6, MoveKeeps
<1>8. QED
  BY <1>7, MoveStep DEF IInv, TypeOK

LEMMA LeaseForPruneStep ==
    ASSUME IInv, NEW o \in Operators, LeaseForPrune(o) PROVE IInv'
<1> USE DEF LeaseForPrune
<1> DEFINE w == LeasedAt(op[o])
<1>0. op[o] \in Processes /\ TypeOK /\ 0 \in Nat /\ lease.fence \in Nat
  BY DEF IInv, TypeOK
<1>1. op' = [op EXCEPT ![o] = w]
  BY DEF Set, LeasedAt
<1>2. /\ w \in Processes /\ w.pc = "leased" /\ w.path = op[o].path /\ w.archive = op[o].archive
      /\ w.keep = op[o].keep /\ w.late = op[o].late /\ w.revision = op[o].revision
  BY <1>0, LeasedFact
<1> HIDE DEF w
<1>3. Current(w.archive) /\ w.revision <= revision
  BY <1>2 DEF IInv, CurrentInv, HistoryInv
<1>4. /\ w.path \in Files /\ w.archive.sound /\ KeepAllowed(w.keep)
      /\ w.path \in w.late \/ file[w.path] = w.archive
  BY <1>2 DEF IInv, FileInv, Pruning
<1>5. w.revision = revision => \A r \in receipts : Intact(r, w.late)
  BY <1>2 DEF IInv, HistoryInv
<1>6. op' \in [Operators -> Processes] /\ FileInv' /\ HistoryInv' /\ CurrentInv'
  BY <1>1, <1>2, <1>3, <1>4, <1>5, MoveKeeps
<1>7. /\ lease' \in [owner : Operators \cup {Worker, None}, fence : Nat, live : BOOLEAN]
      /\ lease'.fence = lease.fence + 1
  BY <1>0, LeaseFact
<1>8. lease.fence <= lease'.fence /\ lease'.fence # lease.fence
  BY <1>0, <1>7
<1>9. QED
  BY <1>6, <1>7, <1>8, MoveStep DEF IInv, TypeOK

LEMMA FailPruneStep ==
    ASSUME IInv, NEW o \in Operators, FailPrune(o) PROVE IInv'
<1> USE DEF FailPrune
<1>0. op[o] \in Processes /\ TypeOK /\ lease.fence \in Nat
      /\ lease \in [owner : Operators \cup {Worker, None}, fence : Nat, live : BOOLEAN]
  BY DEF IInv, TypeOK
<1>1. op[o].fence \in Nat
  BY <1>0 DEF Processes
<1>2. op' \in [Operators -> Processes] /\ FileInv' /\ HistoryInv' /\ CurrentInv'
  BY FreeKeeps
<1>3. Release(o, op[o].fence) \/ lease' = lease
  OBVIOUS
<1>4. /\ lease' \in [owner : Operators \cup {Worker, None}, fence : Nat, live : BOOLEAN]
      /\ lease'.fence = lease.fence /\ (lease'.live => lease' = lease)
  BY <1>0, <1>1, <1>3, LeaseFact
<1>5. lease.fence <= lease'.fence
  BY <1>0, <1>4
<1>6. QED
  BY <1>2, <1>4, <1>5, MoveStep DEF IInv, TypeOK

LEMMA CrashOperatorStep ==
    ASSUME IInv, NEW o \in Operators, CrashOperator(o) PROVE IInv'
<1> USE DEF CrashOperator
<1>1. op' \in [Operators -> Processes] /\ FileInv' /\ HistoryInv' /\ CurrentInv'
  BY FreeKeeps
<1>2. crashes' \in 0..MaxCrashes
  <2>1. crashes \in 0..MaxCrashes /\ MaxCrashes \in Nat
    BY RetentionAssumption DEF IInv, TypeOK
  <2>2. QED
    BY <2>1
<1>3. QED
  BY <1>1, <1>2, MoveStep DEF IInv, TypeOK

LEMMA BeginExportStep ==
    ASSUME IInv, NEW o \in Operators, NEW p \in Files, BeginExport(o, p) PROVE IInv'
<1> USE DEF BeginExport
<1> DEFINE x == [NoArchive EXCEPT !.revision = revision]
           w == Exporting(p)
<1>0. /\ op \in [Operators -> Processes] /\ file \in [Files -> Archives \cup {None}]
      /\ None \notin Archives /\ revision \in Nat /\ receipts \subseteq [path : Files, archive : Archives]
  BY RetentionAssumption DEF IInv, TypeOK
<1>1. x \in Archives /\ ~x.sound /\ x.revision = revision /\ x # None
  BY <1>0, Constants DEF Archives
<1>2. /\ w \in Processes /\ w.pc = "exporting" /\ w.path = p /\ w.archive = Snapshot /\ w.revision = 0
      /\ Snapshot.sound /\ Current(Snapshot)
  BY <1>0, ExportingFact DEF IInv, Current
<1>3. op' = [op EXCEPT ![o] = w] /\ file' = [file EXCEPT ![p] = x] /\ file[p] = None
  BY DEF Set, Exporting
<1> HIDE DEF w, x
<1>4. op' \in [Operators -> Processes] /\ op'[o] = w /\ \A u \in Operators : u # o => op'[u] = op[u]
  BY <1>0, <1>2, <1>3
<1>5. /\ file' \in [Files -> Archives \cup {None}] /\ file'[p] = x
      /\ \A q \in Files : file[q] # None => file'[q] = file[q] /\ q # p
  BY <1>0, <1>1, <1>3
<1>s. /\ revision' = revision /\ events' = events /\ diagnostics' = diagnostics /\ counts' = counts
      /\ written' = written /\ receipts' = receipts
  BY DEF session
<1>6. FileInv'
  <2>1. ASSUME NEW u \in Operators, op'[u].pc = "exporting", u # o
        PROVE  /\ op'[u] = op[u] /\ op[u].path \in Files /\ op[u].archive.sound /\ op[u].path # p
               /\ file'[op[u].path] = file[op[u].path]
               /\ file[op[u].path] # None /\ ~file[op[u].path].sound
    <3>1. op'[u] = op[u]
      BY <1>4, <2>1
    <3>2. /\ op[u].path \in Files /\ op[u].archive.sound
          /\ file[op[u].path] # None /\ ~file[op[u].path].sound
      BY <2>1, <3>1 DEF IInv, FileInv
    <3>3. QED
      BY <1>5, <3>1, <3>2
  <2>2. ASSUME NEW u \in Operators, op'[u].pc \in Pruning
        PROVE  /\ op'[u].path \in Files /\ op'[u].archive.sound /\ KeepAllowed(op'[u].keep)
               /\ op'[u].path \in op'[u].late \/ file'[op'[u].path] = op'[u].archive
    <3>1. u # o /\ op'[u] = op[u]
      BY <1>2, <1>4, <2>2 DEF Pruning
    <3>2. /\ op[u].path \in Files /\ op[u].archive.sound /\ KeepAllowed(op[u].keep)
          /\ op[u].path \in op[u].late \/ file[op[u].path] = op[u].archive
      BY <2>2, <3>1 DEF IInv, FileInv
    <3>3. op[u].archive # None
      BY <1>0 DEF Processes
    <3>4. QED
      BY <1>5, <3>1, <3>2, <3>3
  <2>3. ASSUME NEW u \in Operators, NEW v \in Operators, op'[u].pc = "exporting",
               op'[v].pc = "exporting", op'[u].path = op'[v].path
        PROVE  u = v
    BY <1>2, <1>4, <2>1, <2>3 DEF IInv, FileInv
  <2>4. ASSUME NEW u \in Operators, op'[u].pc = "exporting"
        PROVE  /\ op'[u].path \in Files /\ op'[u].archive.sound
               /\ file'[op'[u].path] # None /\ ~file'[op'[u].path].sound
    <3>1. CASE u = o
      BY <1>1, <1>2, <1>4, <1>5, <3>1
    <3>2. CASE u # o
      BY <2>1, <2>4, <3>2
    <3>3. QED
      BY <3>1, <3>2
  <2>5. QED
    BY <2>2, <2>3, <2>4 DEF FileInv
<1>7. HistoryInv'
  <2>1. ASSUME NEW u \in Operators PROVE op'[u].revision <= revision
    BY <1>0, <1>2, <1>4 DEF IInv, HistoryInv
  <2>2. ASSUME NEW u \in Operators, op'[u].pc \in {"admitted", "leased"}, op'[u].revision = revision,
               NEW r \in receipts
        PROVE  Intact(r, op[u].late)' /\ op'[u].late = op[u].late
    <3>1. op'[u] = op[u]
      BY <1>2, <1>4, <2>2
    <3>2. r.path \in op[u].late \/ file[r.path] = r.archive
      BY <2>2, <3>1 DEF IInv, HistoryInv, Intact
    <3>3. r.archive # None /\ r.path \in Files
      BY <1>0
    <3>4. QED
      BY <1>5, <1>s, <3>1, <3>2, <3>3 DEF Intact
  <2>3. QED
    BY <1>s, <2>1, <2>2 DEF IInv, HistoryInv, Intact
<1>8. CurrentInv'
  <2>1. Current(x)
    BY <1>0, <1>1 DEF Current
  <2>2. \A a : Current(a)' <=> Current(a)
    BY <1>s DEF Current
  <2>3. ASSUME NEW q \in Files, file'[q] # None PROVE Current(file'[q])
    BY <1>0, <1>3, <2>1, <2>3 DEF IInv, CurrentInv
  <2>4. ASSUME NEW u \in Operators PROVE Current(op'[u].archive)
    BY <1>2, <1>4 DEF IInv, CurrentInv
  <2>5. QED
    BY <1>s, <2>3, <2>4 DEF CurrentInv, Current
<1>9. QED
  BY <1>4, <1>5, <1>6, <1>7, <1>8, MoveStep DEF IInv, TypeOK

LEMMA EndExportStep ==
    ASSUME IInv, NEW o \in Operators, EndExport(o) PROVE IInv'
<1> USE DEF EndExport
<1> DEFINE q == op[o].path
           a == op[o].archive
<1>0. /\ op \in [Operators -> Processes] /\ file \in [Files -> Archives \cup {None}]
      /\ receipts \subseteq [path : Files, archive : Archives]
  BY DEF IInv, TypeOK
<1>1. /\ q \in Files /\ a.sound /\ a \in Archives /\ Current(a)
      /\ file[q] # None /\ ~file[q].sound
      /\ \A u \in Operators : op[u].pc = "exporting" /\ op[u].path = q => u = o
  BY <1>0 DEF IInv, FileInv, CurrentInv, Processes
<1>2. op' = [op EXCEPT ![o] = Free] /\ file' = [file EXCEPT ![q] = a]
  BY DEF Set
<1> HIDE DEF q, a
<1>4. op' \in [Operators -> Processes] /\ op'[o] = Free /\ \A u \in Operators : u # o => op'[u] = op[u]
  BY <1>0, <1>2, Constants
<1>5. /\ file' \in [Files -> Archives \cup {None}] /\ file'[q] = a
      /\ \A p \in Files : p # q => file'[p] = file[p]
  BY <1>0, <1>1, <1>2
<1>f. Free.pc = "idle" /\ Free.revision = 0 /\ Free.archive = NoArchive
  BY Constants
<1>s. /\ revision' = revision /\ events' = events /\ diagnostics' = diagnostics /\ counts' = counts
      /\ written' = written /\ receipts' = receipts /\ revision \in Nat
  BY DEF session, IInv, TypeOK
<1>6. FileInv'
  <2>1. ASSUME NEW u \in Operators, op'[u].pc = "exporting"
        PROVE  /\ op'[u] = op[u] /\ op[u].path \in Files /\ op[u].archive.sound
               /\ file'[op[u].path] = file[op[u].path]
               /\ file[op[u].path] # None /\ ~file[op[u].path].sound
    <3>1. u # o /\ op'[u] = op[u]
      BY <1>4, <1>f, <2>1
    <3>2. /\ op[u].path \in Files /\ op[u].archive.sound
          /\ file[op[u].path] # None /\ ~file[op[u].path].sound
      BY <2>1, <3>1 DEF IInv, FileInv
    <3>3. op[u].path # q
      BY <1>1, <2>1, <3>1
    <3>4. QED
      BY <1>5, <3>1, <3>2, <3>3
  <2>2. ASSUME NEW u \in Operators, op'[u].pc \in Pruning
        PROVE  /\ op'[u].path \in Files /\ op'[u].archive.sound /\ KeepAllowed(op'[u].keep)
               /\ op'[u].path \in op'[u].late \/ file'[op'[u].path] = op'[u].archive
    <3>1. op'[u] = op[u]
      BY <1>4, <1>f, <2>2 DEF Pruning
    <3>2. /\ op[u].path \in Files /\ op[u].archive.sound /\ KeepAllowed(op[u].keep)
          /\ op[u].path \in op[u].late \/ file[op[u].path] = op[u].archive
      BY <2>2, <3>1 DEF IInv, FileInv
    <3>3. file[op[u].path] = op[u].archive => op[u].path # q
      BY <1>1, <3>2
    <3>4. QED
      BY <1>5, <3>1, <3>2, <3>3
  <2>3. QED
    BY <2>1, <2>2 DEF IInv, FileInv
<1>7. HistoryInv'
  <2>1. ASSUME NEW u \in Operators PROVE op'[u].revision <= revision
    BY <1>s, <1>f, <1>4 DEF IInv, HistoryInv
  <2>2. ASSUME NEW u \in Operators, op'[u].pc \in {"admitted", "leased"}, op'[u].revision = revision,
               NEW r \in receipts
        PROVE  Intact(r, op[u].late)' /\ op'[u].late = op[u].late
    <3>1. op'[u] = op[u]
      BY <1>f, <1>4, <2>2
    <3>2. r.path \in op[u].late \/ file[r.path] = r.archive
      BY <2>2, <3>1 DEF IInv, HistoryInv, Intact
    <3>3. r.archive.sound /\ r.path \in Files
      BY <1>0 DEF IInv, HistoryInv
    <3>4. file[r.path] = r.archive => r.path # q
      BY <1>1, <3>3
    <3>5. QED
      BY <1>5, <1>s, <3>1, <3>2, <3>3, <3>4 DEF Intact
  <2>3. QED
    BY <1>s, <2>1, <2>2 DEF IInv, HistoryInv, Intact
<1>8. CurrentInv'
  <2>3. ASSUME NEW p \in Files, file'[p] # None PROVE Current(file'[p])
    BY <1>1, <1>5, <2>3 DEF IInv, CurrentInv
  <2>4. ASSUME NEW u \in Operators PROVE Current(op'[u].archive)
    <3>1. Current(NoArchive)
      BY <1>s, Constants DEF Current
    <3>2. QED
      BY <1>4, <1>f, <3>1 DEF IInv, CurrentInv
  <2>5. QED
    BY <1>s, <2>3, <2>4 DEF CurrentInv, Current
<1>9. QED
  BY <1>4, <1>5, <1>6, <1>7, <1>8, MoveStep DEF IInv, TypeOK

LEMMA DamageStep ==
    ASSUME IInv, NEW p \in Files, Damage(p) PROVE IInv'
<1> USE DEF Damage
<1>0. /\ op \in [Operators -> Processes] /\ file \in [Files -> Archives \cup {None}]
      /\ receipts \subseteq [path : Files, archive : Archives]
  BY DEF IInv, TypeOK
<1>1. op' \in [Operators -> Processes]
  <2>1. ASSUME NEW u \in Operators PROVE [op[u] EXCEPT !.late = @ \cup {p}] \in Processes
    <3>1. op[u] \in Processes /\ op[u].late \cup {p} \in SUBSET Files
      BY <1>0 DEF Processes
    <3>2. QED
      BY <3>1, ProcessPut
  <2>2. QED
    BY <2>1
<1>2. ASSUME NEW u \in Operators
      PROVE  /\ op'[u].pc = op[u].pc /\ op'[u].path = op[u].path /\ op'[u].archive = op[u].archive
             /\ op'[u].keep = op[u].keep /\ op'[u].late = op[u].late \cup {p}
             /\ op'[u].revision = op[u].revision
  BY <1>0 DEF Processes
<1>3. /\ file' \in [Files -> Archives \cup {None}] /\ \A q \in Files : q # p => file'[q] = file[q]
      /\ file'[p] # None => file'[p].revision = file[p].revision /\ ~file'[p].sound
  <2>1. CASE file' = [file EXCEPT ![p] = None]
    BY <1>0, <2>1
  <2>2. CASE file' = [file EXCEPT ![p].sound = FALSE]
    <3> DEFINE x == [file[p] EXCEPT !.sound = FALSE]
    <3>1. file[p] \in Archives
      BY <1>0
    <3>2. x \in Archives /\ x.revision = file[p].revision /\ ~x.sound
      BY <3>1 DEF Archives
    <3>3. file' = [file EXCEPT ![p] = x]
      BY <2>2
    <3> HIDE DEF x
    <3>4. QED
      BY <1>0, <3>2, <3>3
  <2>3. QED
    BY <2>1, <2>2
<1>4. \A u \in Operators : op[u].pc = "exporting" => op[u].path # p
  OBVIOUS
<1>s. /\ revision' = revision /\ events' = events /\ diagnostics' = diagnostics /\ counts' = counts
      /\ written' = written /\ receipts' = receipts
  BY DEF session
<1>l. losses' \in 0..MaxLosses
  <2>1. losses \in 0..MaxLosses /\ MaxLosses \in Nat
    BY RetentionAssumption DEF IInv, TypeOK
  <2>2. QED
    BY <2>1
<1>u. UNCHANGED <<session, receipts, worker, lease, crashes>>
  OBVIOUS
<1> HIDE DEF Damage
<1>6. FileInv'
  <2>1. ASSUME NEW u \in Operators, op'[u].pc = "exporting"
        PROVE  /\ op'[u].path \in Files /\ op'[u].archive.sound
               /\ file'[op'[u].path] # None /\ ~file'[op'[u].path].sound
    <3>1. /\ op[u].path \in Files /\ op[u].archive.sound
          /\ file[op[u].path] # None /\ ~file[op[u].path].sound
      BY <1>2, <2>1 DEF IInv, FileInv
    <3>2. op[u].path # p
      BY <1>2, <1>4, <2>1
    <3>3. QED
      BY <1>2, <1>3, <3>1, <3>2
  <2>2. ASSUME NEW u \in Operators, op'[u].pc \in Pruning
        PROVE  /\ op'[u].path \in Files /\ op'[u].archive.sound /\ KeepAllowed(op'[u].keep)
               /\ op'[u].path \in op'[u].late \/ file'[op'[u].path] = op'[u].archive
    <3>1. /\ op[u].path \in Files /\ op[u].archive.sound /\ KeepAllowed(op[u].keep)
          /\ op[u].path \in op[u].late \/ file[op[u].path] = op[u].archive
      BY <1>2, <2>2 DEF IInv, FileInv
    <3>2. QED
      BY <1>2, <1>3, <3>1
  <2>3. \A u, v \in Operators : op'[u].pc = "exporting" /\ op'[v].pc = "exporting"
            /\ op'[u].path = op'[v].path => u = v
    BY <1>2 DEF IInv, FileInv
  <2>4. QED
    BY <2>1, <2>2, <2>3 DEF FileInv
<1>7. HistoryInv'
  <2>1. ASSUME NEW u \in Operators PROVE op'[u].revision <= revision
    BY <1>2 DEF IInv, HistoryInv
  <2>2. ASSUME NEW u \in Operators, op'[u].pc \in {"admitted", "leased"}, op'[u].revision = revision,
               NEW r \in receipts
        PROVE  r.path \in op'[u].late \/ file'[r.path] = r.archive
    <3>1. r.path \in op[u].late \/ file[r.path] = r.archive
      BY <1>2, <2>2 DEF IInv, HistoryInv, Intact
    <3>2. r.path \in Files
      BY <1>0
    <3>3. QED
      BY <1>2, <1>3, <3>1, <3>2
  <2>3. QED
    BY <1>s, <2>1, <2>2 DEF IInv, HistoryInv, Intact
<1>8. CurrentInv'
  <2>1. ASSUME NEW q \in Files, file'[q] # None PROVE Current(file'[q])
    <3>1. CASE q = p
      <4>1. file[p] # None => Current(file[p])
        BY DEF IInv, CurrentInv
      <4>2. file[p] # None
        BY DEF Damage
      <4>3. QED
        BY <1>3, <2>1, <3>1, <4>1, <4>2 DEF Current
    <3>2. CASE q # p
      BY <1>3, <2>1, <3>2 DEF IInv, CurrentInv
    <3>3. QED
      BY <3>1, <3>2
  <2>2. ASSUME NEW u \in Operators PROVE Current(op'[u].archive)
    BY <1>2 DEF IInv, CurrentInv
  <2>3. QED
    BY <1>s, <2>1, <2>2 DEF CurrentInv, Current
<1>t. lease \in [owner : Operators \cup {Worker, None}, fence : Nat, live : BOOLEAN] /\ crashes \in 0..MaxCrashes
  BY DEF IInv, TypeOK
<1>v. lease.fence <= lease'.fence
  BY <1>t, <1>u
<1>9. QED
  BY <1>1, <1>3, <1>6, <1>7, <1>8, <1>l, <1>u, <1>t, <1>v, MoveStep

\* The rows that a prune deletes are rows of its archive.
LEMMA PrunedFact ==
    ASSUME NEW a, DigestsMatch(a), NEW k
    PROVE  /\ PrunedEvents(a, k) \subseteq a.events
           /\ \A f \in Families : PrunedDiagnostics(f, a, k) \subseteq a.diagnostics[f]
  BY DEF DigestsMatch, PrunedEvents, PrunedDiagnostics

LEMMA CommitPruneStep ==
    ASSUME IInv, NEW o \in Operators, CommitPrune(o) PROVE IInv'
<1> USE DEF CommitPrune
<1> DEFINE a == op[o].archive
           k == op[o].keep
           new == [path |-> op[o].path, archive |-> a]
<1>0. /\ op \in [Operators -> Processes] /\ file \in [Files -> Archives \cup {None}]
      /\ receipts \subseteq [path : Files, archive : Archives]
      /\ revision \in Nat /\ written \in Nat /\ events \subseteq 1..written
      /\ counts \in [Families -> Nat] /\ diagnostics \in [Families -> SUBSET Nat]
      /\ lease \in [owner : Operators \cup {Worker, None}, fence : Nat, live : BOOLEAN]
  BY DEF IInv, TypeOK
<1>1. /\ a \in Archives /\ a.sound /\ op[o].path \in Files /\ KeepAllowed(k)
      /\ k \in [diagnostics : Nat, events : Nat] /\ op[o].fence \in Nat
  BY <1>0 DEF IInv, FileInv, Pruning, Processes
<1>2. /\ revision' = revision + 1 /\ written' = written + 1
      /\ events' = (events \ PrunedEvents(a, k.events)) \cup {written + 1}
      /\ diagnostics' = [f \in Families |-> diagnostics[f] \ PrunedDiagnostics(f, a, k.diagnostics)]
      /\ receipts' = receipts \cup {new} /\ op' = [op EXCEPT ![o] = Free]
      /\ DigestsMatch(a) /\ Release(o, op[o].fence) /\ Holds(o, op[o].fence)
      /\ UNCHANGED <<terminal, running, unresolved, counts, file, worker, losses, crashes>>
  BY DEF Set
<1>n. new \in [path : Files, archive : Archives] /\ new.archive = a
  BY <1>1
<1> HIDE DEF a, k, new
<1> HIDE DEF CommitPrune
<1>f. Free \in Processes /\ Free.pc = "idle" /\ Free.revision = 0 /\ Free.archive = NoArchive
  BY Constants
<1>3. op' \in [Operators -> Processes] /\ op'[o] = Free /\ \A u \in Operators : u # o => op'[u] = op[u]
  BY <1>0, <1>2, <1>f
<1>4. /\ lease' \in [owner : Operators \cup {Worker, None}, fence : Nat, live : BOOLEAN]
      /\ lease'.fence = lease.fence
  <2>1. TypeOK /\ o \in Operators \cup {Worker}
    BY DEF IInv
  <2>2. QED
    BY <1>1, <1>2, <2>1, LeaseFact
<1>5. ~lease'.live
  BY <1>0, <1>2 DEF Release, Holds
<1>6. TypeOK'
  <2>1. revision' \in Nat /\ written' \in Nat /\ events' \subseteq 1..written'
    <3>1. events' \subseteq events \cup {written + 1}
      BY <1>2
    <3>2. (1..written) \cup {written + 1} \subseteq 1..(written + 1)
      BY <1>0
    <3>3. events' \subseteq 1..written'
      BY <1>0, <1>2, <3>1, <3>2, Zenon
    <3>4. revision' \in Nat /\ written' \in Nat
      BY <1>0, <1>2
    <3>5. QED
      BY <3>3, <3>4
  <2>2. diagnostics' \in [Families -> SUBSET Nat]
    BY <1>0, <1>2
  <2>3. receipts' \subseteq [path : Files, archive : Archives]
    BY <1>0, <1>2, <1>n
  <2>4. terminal' \in BOOLEAN /\ running' \in BOOLEAN /\ unresolved' \in BOOLEAN
    BY <1>2 DEF IInv, TypeOK
  <2>5. counts' \in [Families -> Nat] /\ worker' = worker /\ losses' = losses /\ crashes' = crashes /\ file' = file
    BY <1>0, <1>2
  <2>6. QED
    BY <1>3, <1>4, <2>1, <2>2, <2>3, <2>4, <2>5 DEF IInv, TypeOK
<1>7. RowInv'
  <2>1. ASSUME NEW f \in Families PROVE Hydrates(f)'
    <3>1. /\ \A n \in diagnostics[f] : n <= counts[f]
          /\ \A n \in 1..counts[f] : n + Recent > counts[f] => n \in diagnostics[f]
      BY DEF IInv, RowInv, Loads, Hydrates
    <3>2. diagnostics'[f] = diagnostics[f] \ PrunedDiagnostics(f, a, k.diagnostics) /\ counts' = counts
      BY <1>2
    <3>3. ASSUME NEW n \in 1..counts[f], n + Recent > counts[f]
          PROVE  n \notin PrunedDiagnostics(f, a, k.diagnostics)
      <4>1. /\ Recent \in Nat /\ k.diagnostics \in Nat /\ counts[f] \in Nat /\ n \in Nat
            /\ k.diagnostics >= Recent
        BY <1>0, <1>1, RetentionAssumption DEF KeepAllowed
      <4>2. ~(n + k.diagnostics <= counts[f])
        BY <3>3, <4>1
      <4>3. QED
        BY <4>2 DEF PrunedDiagnostics
    <3>4. QED
      BY <3>1, <3>2, <3>3 DEF Hydrates
  <2>2. worker.on => worker.fence <= lease'.fence
    BY <1>4 DEF IInv, RowInv
  <2>3. QED
    BY <1>2, <1>5, <2>1, <2>2 DEF RowInv, Loads, Holds
<1>8. FileInv'
  <2>1. ASSUME NEW u \in Operators, op'[u].pc = "exporting" \/ op'[u].pc \in Pruning
        PROVE  op'[u] = op[u]
    BY <1>f, <1>3, <2>1 DEF Pruning
  <2>2. QED
    BY <1>2, <2>1 DEF IInv, FileInv
<1>9. HistoryInv'
  <2>1. \A r \in receipts' : r.archive.sound
    BY <1>1, <1>2, <1>n DEF IInv, HistoryInv
  <2>2. ASSUME NEW n \in 1..written' PROVE n \in events' \/ \E r \in receipts' : n \in r.archive.events
    <3>1. n \in 1..written \/ n = written + 1
      BY <1>0, <1>2
    <3>2. n \in 1..written => n \in events \/ \E r \in receipts : n \in r.archive.events
      BY DEF IInv, HistoryInv
    <3>3. n \in events => n \in events' \/ n \in a.events
      BY <1>2, PrunedFact
    <3>4. QED
      BY <1>2, <1>n, <3>1, <3>2, <3>3
  <2>3. ASSUME NEW f \in Families, NEW n \in 1..counts'[f]
        PROVE  n \in diagnostics'[f] \/ \E r \in receipts' : n \in r.archive.diagnostics[f]
    <3>1. n \in diagnostics[f] \/ \E r \in receipts : n \in r.archive.diagnostics[f]
      BY <1>2 DEF IInv, HistoryInv
    <3>2. n \in diagnostics[f] => n \in diagnostics'[f] \/ n \in a.diagnostics[f]
      BY <1>2, PrunedFact
    <3>3. QED
      BY <1>2, <1>n, <3>1, <3>2
  <2>4. ASSUME NEW u \in Operators PROVE op'[u].revision <= revision' /\ op'[u].revision # revision'
    <3>1. op'[u].revision \in Nat /\ op'[u].revision <= revision
      BY <1>0, <1>f, <1>3 DEF IInv, HistoryInv, Processes
    <3>2. QED
      BY <1>0, <1>2, <3>1
  <2>5. QED
    BY <2>1, <2>2, <2>3, <2>4 DEF HistoryInv
<1>10. CurrentInv'
  <2>1. ASSUME NEW u \in Operators PROVE op'[u].archive \in Archives /\ Current(op'[u].archive)
    <3>1. Current(NoArchive)
      BY <1>0, Constants DEF Current
    <3>2. QED
      BY <1>3, <1>f, <3>1 DEF IInv, CurrentInv, Processes
  <2>2. ASSUME NEW p \in Files, file[p] # None PROVE file[p] \in Archives /\ Current(file[p])
    BY <1>0, <2>2 DEF IInv, CurrentInv
  <2>3. ASSUME NEW u \in Operators PROVE Current(op[u].archive)'
    <3> DEFINE b == op'[u].archive
    <3>1. b \in Archives /\ Current(b)
      BY <2>1
    <3> HIDE DEF b
    <3>2. b.revision \in Nat /\ b.revision <= revision
      BY <3>1 DEF Archives, Current
    <3>3. b.revision <= revision' /\ b.revision # revision'
      BY <1>0, <1>2, <3>2
    <3>4. QED
      BY <3>3 DEF Current, b
  <2>4. ASSUME NEW p \in Files, file'[p] # None PROVE Current(file[p])'
    <3>1. file' = file
      BY <1>2
    <3>2. file[p].revision \in Nat /\ file[p].revision <= revision
      BY <2>2, <2>4, <3>1 DEF Archives, Current
    <3>3. file'[p].revision <= revision' /\ file'[p].revision # revision'
      BY <1>0, <1>2, <3>1, <3>2
    <3>4. QED
      BY <3>3 DEF Current
  <2>5. QED
    BY <2>3, <2>4 DEF CurrentInv
<1>11. QED
  BY <1>6, <1>7, <1>8, <1>9, <1>10 DEF IInv

LEMMA NextIInv ==
    ASSUME IInv, [Next]_vars PROVE IInv'
<1>1. CASE UNCHANGED vars
  <2>1. UNCHANGED <<session, op, receipts, file, lease, worker, losses, crashes>>
    BY <1>1 DEF vars
  <2>2. TypeOK'
    BY <2>1 DEF IInv, TypeOK, session
  <2>3. RowInv'
    BY <2>1, RowKept DEF IInv, RowInv, Holds, session
  <2>4. QED
    BY <2>1, <2>2, <2>3, OperatorsKept DEF IInv
<1>2. CASE \E f \in Families : Record(f)
  BY <1>2, RecordStep
<1>3. CASE \/ \E pending, ends \in BOOLEAN : Checkpoint(pending, ends)
           \/ \E pending, ends, acknowledged \in BOOLEAN : CheckpointFails(pending, ends, acknowledged)
           \/ \E pending \in BOOLEAN : SaveFailure(pending)
  BY <1>3, CheckpointStep, SaveFailureStep, CheckpointFailsStep
<1>4. CASE FinishRun
  BY <1>4, FinishRunStep
<1>5. ASSUME NEW o \in Operators, Prune(o) PROVE IInv'
  <2>1. CASE \E p \in Files, d, e \in Keeps : VerifyArchive(o, p, [diagnostics |-> d, events |-> e])
    <3>1. PICK p \in Files, d \in Keeps, e \in Keeps : VerifyArchive(o, p, [diagnostics |-> d, events |-> e])
      BY <2>1
    <3>2. [diagnostics |-> d, events |-> e] \in [diagnostics : Nat, events : Nat]
      BY RetentionAssumption
    <3>3. QED
      BY <3>1, <3>2, VerifyArchiveStep
  <2>2. QED
    BY <1>5, <2>1, LoadForPruneStep, VerifyPriorStep, LeaseForPruneStep, CommitPruneStep, FailPruneStep
    DEF Prune
<1>6. CASE Expire \/ StartRun \/ StopWorker \/ Reconcile \/ EngineFails \/ GiveUp
  BY <1>6, ExpireStep, StartRunStep, StopWorkerStep, ReconcileStep, EngineFailsStep, GiveUpStep
<1>7. CASE \E o \in Operators : EndExport(o) \/ CrashOperator(o) \/ \E p \in Files : BeginExport(o, p)
  BY <1>7, EndExportStep, CrashOperatorStep, BeginExportStep
<1>8. CASE \E p \in Files : Damage(p)
  BY <1>8, DamageStep
<1>9. QED
  BY <1>1, <1>2, <1>3, <1>4, <1>5, <1>6, <1>7, <1>8 DEF Next

----------------------------------------------------------------------------
(* The theorems. *)

\* The invariant holds in every reachable state, whatever runs, expired leases,
\* crashes, damaged archives and other prunes come between two steps of a prune.
THEOREM Inductive == Spec => []IInv
<1>1. Init => IInv
  BY InitIInv
<1>2. IInv /\ [Next]_vars => IInv'
  BY NextIInv
<1>3. QED
  BY <1>1, <1>2, PTL DEF Spec

\* The tables, the archives and the processes always have their types.
THEOREM TypeCorrect == Spec => []TypeOK
<1>1. IInv => TypeOK
  BY DEF IInv
<1>2. QED
  BY <1>1, Inductive, PTL

\* hydrate accepts the session in every reachable state: prune-telemetry never
\* deletes a diagnostic that a load needs.
THEOREM AlwaysLoads == Spec => []SessionLoads
<1>1. IInv => SessionLoads
  BY DEF IInv, RowInv, SessionLoads
<1>2. QED
  BY <1>1, Inductive, PTL

\* What the outbox adds to the table are the next ordinals of it, as long as the
\* worker may save: also when an emit failed after its commit and its records
\* are written again with the failure (checkpoint, write_diagnostics).
THEOREM OutboxAgrees == Spec => []OutboxContinues
<1>1. IInv => OutboxContinues
  BY DEF IInv, RowInv, OutboxContinues
<1>2. QED
  BY <1>1, Inductive, PTL

\* Only CommitPrune of the operator itself brings it from "leased" to "idle"
\* with a new receipt.
LEMMA PruneIsCommit ==
    ASSUME IInv, Next, NEW o \in Operators, op[o].pc = "leased", receipts' # receipts, op'[o].pc = "idle"
    PROVE  CommitPrune(o)
<1>1. PICK u \in Operators : CommitPrune(u)
  BY DEF Next, Expire, StartRun, StopWorker, Reconcile, Record, Checkpoint, CheckpointFails, SaveCheckpoint,
     EngineFails, SaveFailure, GiveUp, FinishRun, Prune,
     LoadForPrune, VerifyArchive, VerifyPrior, LeaseForPrune, FailPrune, EndExport, CrashOperator,
     BeginExport, Damage
<1>2. op' = [op EXCEPT ![u] = Free]
  BY <1>1 DEF CommitPrune, Set
<1>3. op \in [Operators -> Processes]
  BY DEF IInv, TypeOK
<1>4. u = o
  BY <1>2, <1>3
<1>5. QED
  BY <1>1, <1>4

\* A committed prune loses no row: what is not in its table is in an archive
\* that was intact when this prune verified it (retention::write).
THEOREM HistoryKept == Spec => HistoryIsKept
<1> DEFINE Safe == \A o \in Operators : op[o].pc = "leased" /\ receipts' # receipts /\ op'[o].pc = "idle" =>
          /\ (1..written) \ events' \subseteq UNION {r.archive.events : r \in Standing(op[o].late)}
          /\ \A f \in Families :
                (1..counts[f]) \ diagnostics'[f]
                    \subseteq UNION {r.archive.diagnostics[f] : r \in Standing(op[o].late)}
<1>1. ASSUME IInv, [Next]_vars PROVE [Safe]_vars
  <2> SUFFICES ASSUME ~UNCHANGED vars PROVE Safe
    OBVIOUS
  <2>0. Next
    BY <1>1
  <2> SUFFICES ASSUME NEW o \in Operators, op[o].pc = "leased", receipts' # receipts, op'[o].pc = "idle"
               PROVE  /\ (1..written) \ events' \subseteq UNION {r.archive.events : r \in Standing(op[o].late)}
                      /\ \A f \in Families :
                            (1..counts[f]) \ diagnostics'[f]
                                \subseteq UNION {r.archive.diagnostics[f] : r \in Standing(op[o].late)}
    OBVIOUS
  <2>1. CommitPrune(o)
    BY <1>1, <2>0, PruneIsCommit
  <2> DEFINE a == op[o].archive
             k == op[o].keep
             new == [path |-> op[o].path, archive |-> a]
             st == Standing(op[o].late)
  <2>2. /\ events' = (events \ PrunedEvents(a, k.events)) \cup {written + 1}
        /\ diagnostics' = [f \in Families |-> diagnostics[f] \ PrunedDiagnostics(f, a, k.diagnostics)]
        /\ receipts' = receipts \cup {new} /\ DigestsMatch(a) /\ revision = op[o].revision
    BY <2>1 DEF CommitPrune
  <2>3. new \in st
    <3>1. a.sound /\ (op[o].path \in op[o].late \/ file[op[o].path] = a)
      BY <1>1 DEF IInv, FileInv, Pruning
    <3>2. QED
      BY <2>2, <3>1 DEF Standing
  <2>4. receipts \subseteq st
    <3>1. \A r \in receipts : r.archive.sound /\ Intact(r, op[o].late)
      BY <1>1, <2>2 DEF IInv, HistoryInv
    <3>2. QED
      BY <2>2, <3>1 DEF Standing, Intact
  <2>5. new.archive = a
    OBVIOUS
  <2> HIDE DEF new, st, a, k
  <2>6. ASSUME NEW n \in (1..written) \ events' PROVE \E r \in st : n \in r.archive.events
    <3>1. n \in events \/ \E r \in receipts : n \in r.archive.events
      BY <1>1 DEF IInv, HistoryInv
    <3>2. n \in events => n \in a.events
      BY <2>2, <2>6, PrunedFact
    <3>3. QED
      BY <2>3, <2>4, <2>5, <3>1, <3>2
  <2>7. ASSUME NEW f \in Families, NEW n \in (1..counts[f]) \ diagnostics'[f]
        PROVE  \E r \in st : n \in r.archive.diagnostics[f]
    <3>1. n \in diagnostics[f] \/ \E r \in receipts : n \in r.archive.diagnostics[f]
      BY <1>1 DEF IInv, HistoryInv
    <3>2. n \in diagnostics[f] => n \in a.diagnostics[f]
      BY <2>2, <2>7, PrunedFact
    <3>3. QED
      BY <2>3, <2>4, <2>5, <3>1, <3>2
  <2>8. QED
    BY <2>6, <2>7 DEF st
<1>2. QED
  BY <1>1, Inductive, PTL DEF Spec, HistoryIsKept

\* Rows are deleted by a committed prune only.
LEMMA DeletesArePrunes ==
    ASSUME IInv, [Next]_vars, \A o \in Operators : ~CommitPrune(o)
    PROVE  events \subseteq events' /\ (\A f \in Families : diagnostics[f] \subseteq diagnostics'[f])
           /\ receipts' = receipts
<1>1. CASE StartRun \/ Reconcile
  BY <1>1 DEF StartRun, Reconcile, Commit
<1>2. CASE \/ \E pending, ends \in BOOLEAN : Checkpoint(pending, ends)
           \/ \E pending, ends, acknowledged \in BOOLEAN : CheckpointFails(pending, ends, acknowledged)
           \/ \E pending \in BOOLEAN : SaveFailure(pending)
  BY <1>2 DEF Checkpoint, SaveFailure, CheckpointFails, SaveCheckpoint, Commit, Flush
<1>3. CASE FinishRun
  BY <1>3 DEF FinishRun, Commit, Flush
<1>4. CASE UNCHANGED <<session, receipts>>
  BY <1>4 DEF session
<1>5. QED
  BY <1>1, <1>2, <1>3, <1>4 DEF Next, vars, Expire, StopWorker, EngineFails, GiveUp, Record, Prune,
     LoadForPrune, VerifyArchive, VerifyPrior, LeaseForPrune, FailPrune, EndExport, CrashOperator,
     BeginExport, Damage

\* While a run is recorded as running or calls are unresolved nothing that
\* recovery could need is deleted (the guard of retention::write).
THEOREM EvidenceStays == Spec => RecoveryEvidenceStays
<1> DEFINE Stays == running \/ unresolved =>
          events \subseteq events' /\ \A f \in Families : diagnostics[f] \subseteq diagnostics'[f]
<1>1. ASSUME IInv, [Next]_vars PROVE [Stays]_vars
  <2>1. CASE \E o \in Operators : CommitPrune(o)
    BY <2>1 DEF CommitPrune, Resolved
  <2>2. CASE \A o \in Operators : ~CommitPrune(o)
    BY <1>1, <2>2, DeletesArePrunes
  <2>3. QED
    BY <2>1, <2>2
<1>2. QED
  BY <1>1, Inductive, PTL DEF Spec, RecoveryEvidenceStays

\* A prune commits with an archive of all the telemetry the tables have: the
\* revision it compares stands for their contents.
THEOREM ArchiveCurrent == Spec => ArchiveIsCurrent
<1> DEFINE Same == \A r \in receipts' \ receipts :
                      r.archive.events = events /\ r.archive.diagnostics = diagnostics
<1>1. ASSUME IInv, [Next]_vars PROVE [Same]_vars
  <2>1. ASSUME NEW o \in Operators, CommitPrune(o) PROVE Same
    <3> DEFINE a == op[o].archive
    <3>1. /\ receipts' = receipts \cup {[path |-> op[o].path, archive |-> a]}
          /\ a.revision = revision
      BY <2>1 DEF CommitPrune
    <3>2. a.sound /\ Current(a)
      BY <1>1, <2>1 DEF CommitPrune, IInv, FileInv, Pruning, CurrentInv
    <3>3. a.events = events /\ a.diagnostics = diagnostics
      BY <3>1, <3>2 DEF Current
    <3> HIDE DEF a
    <3>4. QED
      BY <3>1, <3>3
  <2>2. CASE \A o \in Operators : ~CommitPrune(o)
    BY <1>1, <2>2, DeletesArePrunes
  <2>3. QED
    BY <2>1, <2>2
<1>2. QED
  BY <1>1, Inductive, PTL DEF Spec, ArchiveIsCurrent

\* A row older than one that PrunedEvents deletes is deleted too.
LEMMA PrunesOldest ==
    ASSUME TypeOK, NEW a \in Archives, NEW k \in Nat, NEW m \in PrunedEvents(a, k), NEW n \in events, n <= m
    PROVE  n \in PrunedEvents(a, k)
<1> DEFINE After(x) == {y \in events : y > x}
<1>1. events \subseteq 1..written /\ written \in Nat
  BY DEF TypeOK
<1>2. m \in events /\ (\E h \in a.events : m <= h) /\ Cardinality(After(m)) >= k
  BY DEF PrunedEvents, UpTo
<1>3. m \in Nat /\ n \in Nat /\ m \in 1..written
  BY <1>1, <1>2
<1>h. PICK h \in a.events : m <= h
  BY <1>2
<1>t. h \in Nat
  BY DEF Archives
<1>4. IsFiniteSet(events)
  <2>1. IsFiniteSet(1..written)
    BY <1>1, FS_Interval
  <2>2. QED
    BY <1>1, <2>1, FS_Subset
<1>5. After(m) \subseteq After(n) /\ After(n) \subseteq events
  <2>1. ASSUME NEW y \in events, y > m PROVE y > n
    <3>1. y \in Nat
      BY <1>1
    <3>2. QED
      BY <1>3, <2>1, <3>1
  <2>2. QED
    BY <2>1
<1>6. IsFiniteSet(After(n))
  BY <1>4, <1>5, FS_Subset
<1> HIDE DEF After
<1>7. /\ Cardinality(After(m)) <= Cardinality(After(n))
      /\ Cardinality(After(m)) \in Nat /\ Cardinality(After(n)) \in Nat
  BY <1>5, <1>6, FS_Subset, FS_CardinalityType
<1>8. Cardinality(After(n)) >= k
  BY <1>2, <1>7
<1>9. QED
  <2>1. UpTo(events, a.events) = {x \in events : \E y \in a.events : x <= y}
    BY DEF UpTo
  <2>2. n \in UpTo(events, a.events)
    <3>1. n <= h
      BY <1>3, <1>h, <1>t
    <3>2. QED
      BY <1>h, <2>1, <3>1
  <2>3. QED
    BY <1>8, <2>2 DEF PrunedEvents, After

\* What is left of the events and of each diagnostic family is gap-free up to
\* the newest row, over all commits and prunes (NewestRemain).
THEOREM NewestStay == Spec => []NewestRemain
<1>1. Init => NewestRemain
  BY DEF Init, NewestRemain
<1>2. ASSUME IInv, NewestRemain, [Next]_vars PROVE NewestRemain'
  <2>0. /\ TypeOK /\ written \in Nat /\ events \subseteq 1..written /\ counts \in [Families -> Nat]
        /\ diagnostics \in [Families -> SUBSET Nat]
    BY <1>2 DEF IInv, TypeOK
  <2>1. ASSUME Commit PROVE \A n \in events' : n..written' \subseteq events'
    <3>1. written' = written + 1 /\ events' = events \cup {written + 1}
      BY <2>1 DEF Commit
    <3>2. ASSUME NEW n \in events', NEW m \in n..written' PROVE m \in events'
      <4>1. n \in Nat /\ m \in Nat /\ n <= m /\ m <= written + 1
        BY <2>0, <3>1, <3>2
      <4>2. CASE m = written + 1
        BY <3>1, <4>2
      <4>3. CASE m # written + 1
        <5>1. m <= written /\ n # written + 1
          BY <2>0, <4>1, <4>3
        <5>2. n \in events /\ m \in n..written
          BY <2>0, <3>1, <4>1, <5>1
        <5>3. QED
          BY <1>2, <3>1, <5>2 DEF NewestRemain
      <4>4. QED
        BY <4>2, <4>3
    <3>3. QED
      BY <3>2
  <2>2. ASSUME Flush, worker.on, Holds(Worker, worker.fence), NEW f \in Families
        PROVE  \A n \in diagnostics'[f] : n..counts'[f] \subseteq diagnostics'[f]
    <3> DEFINE c == counts[f]
               d == worker.counts[f]
    <3>1. c \in Nat /\ d \in Nat /\ diagnostics[f] \subseteq Nat
      BY <2>0, <1>2 DEF IInv, TypeOK, Workers
    <3>2. /\ diagnostics'[f] = diagnostics[f] \cup ((c + 1)..d) /\ counts'[f] = d
      <4>1. worker.outbox[f] \ diagnostics[f] = (c + 1)..d
        BY <1>2, <2>2 DEF IInv, RowInv
      <4>2. /\ diagnostics'[f] = diagnostics[f] \cup (worker.outbox[f] \ diagnostics[f])
            /\ counts'[f] = d
        BY <2>2 DEF Flush
      <4>3. QED
        BY <4>1, <4>2
    <3>3. \A n \in diagnostics[f] : n..c \subseteq diagnostics[f]
      BY <1>2 DEF NewestRemain
    <3> HIDE DEF c, d
    <3>4. ASSUME NEW n \in diagnostics'[f], NEW m \in n..counts'[f] PROVE m \in diagnostics'[f]
      <4>1. n \in Nat /\ m \in Nat /\ n <= m /\ m <= d
        BY <3>1, <3>2, <3>4
      <4>2. CASE m > c
        BY <3>1, <3>2, <4>1, <4>2
      <4>3. CASE ~(m > c)
        <5>1. n \notin (c + 1)..d /\ m \in n..c
          BY <3>1, <4>1, <4>3
        <5>2. QED
          BY <3>2, <3>3, <5>1
      <4>4. QED
        BY <4>2, <4>3
    <3>5. QED
      BY <3>4
  <2>3. CASE StartRun \/ Reconcile
    BY <1>2, <2>1, <2>3 DEF StartRun, Reconcile, NewestRemain
  <2>4. CASE \/ \E pending, ends \in BOOLEAN : Checkpoint(pending, ends)
             \/ \E pending, ends, acknowledged \in BOOLEAN : CheckpointFails(pending, ends, acknowledged)
             \/ \E pending \in BOOLEAN : SaveFailure(pending)
    BY <2>1, <2>2, <2>4 DEF Checkpoint, SaveFailure, CheckpointFails, SaveCheckpoint, MaySave, NewestRemain
  <2>5. CASE FinishRun
    BY <2>1, <2>2, <2>5 DEF FinishRun, MaySave, NewestRemain
  <2>6. ASSUME NEW o \in Operators, CommitPrune(o) PROVE NewestRemain'
    <3> DEFINE a == op[o].archive
               k == op[o].keep
               cut == PrunedEvents(a, k.events)
               lost(f) == PrunedDiagnostics(f, a, k.diagnostics)
    <3>1. /\ written' = written + 1 /\ events' = (events \ cut) \cup {written + 1} /\ counts' = counts
          /\ diagnostics' = [f \in Families |-> diagnostics[f] \ lost(f)]
      BY <2>6 DEF CommitPrune
    <3>2. a \in Archives /\ k.events \in Nat /\ k.diagnostics \in Nat
      BY <1>2 DEF IInv, TypeOK, Processes
    <3>3. \A m \in cut, n \in events : n <= m => n \in cut
      BY <2>0, <3>2, PrunesOldest
    <3>4. ASSUME NEW f \in Families, NEW m \in lost(f), NEW n \in diagnostics[f], n <= m
          PROVE  n \in lost(f)
      <4>1. PICK h \in a.diagnostics[f] : m <= h
        BY <3>4 DEF PrunedDiagnostics, UpTo
      <4>2. m \in diagnostics[f] /\ m + k.diagnostics <= counts[f]
        BY <3>4 DEF PrunedDiagnostics, UpTo
      <4>3. h \in Nat /\ m \in Nat /\ n \in Nat /\ counts[f] \in Nat
        BY <2>0, <3>2, <3>4, <4>1, <4>2 DEF Archives
      <4>4. n <= h /\ n + k.diagnostics <= counts[f]
        BY <3>2, <3>4, <4>1, <4>2, <4>3
      <4>5. QED
        BY <4>1, <4>4 DEF PrunedDiagnostics, UpTo
    <3> HIDE DEF cut, lost, a, k
    <3>5. ASSUME NEW n \in events', NEW m \in n..written' PROVE m \in events'
      <4>1. n \in Nat /\ m \in Nat /\ n <= m /\ m <= written + 1
        BY <2>0, <3>1, <3>5
      <4>2. CASE m = written + 1
        BY <3>1, <4>2
      <4>3. CASE m # written + 1
        <5>1. m <= written /\ n # written + 1
          BY <2>0, <4>1, <4>3
        <5>2. n \in events /\ n \notin cut /\ m \in n..written
          BY <2>0, <3>1, <3>5, <4>1, <5>1
        <5>3. m \in events
          BY <1>2, <5>2 DEF NewestRemain
        <5>4. m \notin cut
          BY <3>3, <4>1, <5>2
        <5>5. QED
          BY <3>1, <5>3, <5>4
      <4>4. QED
        BY <4>2, <4>3
    <3>6. ASSUME NEW f \in Families, NEW n \in diagnostics'[f], NEW m \in n..counts'[f]
          PROVE  m \in diagnostics'[f]
      <4>1. n \in diagnostics[f] /\ n \notin lost(f) /\ m \in n..counts[f]
        BY <3>1, <3>6
      <4>2. n \in Nat /\ counts[f] \in Nat
        BY <2>0, <4>1
      <4>3. n <= m
        BY <4>1, <4>2
      <4>4. m \in diagnostics[f]
        BY <1>2, <4>1 DEF NewestRemain
      <4>5. m \notin lost(f)
        BY <3>4, <4>1, <4>3
      <4>6. QED
        BY <3>1, <4>4, <4>5
    <3>7. QED
      BY <3>5, <3>6 DEF NewestRemain
  <2>7. CASE UNCHANGED <<session>>
    BY <1>2, <2>7 DEF session, NewestRemain
  <2>8. QED
    BY <1>2, <2>3, <2>4, <2>5, <2>6, <2>7 DEF Next, vars, Expire, StopWorker, EngineFails, GiveUp, Record, Prune,
       LoadForPrune, VerifyArchive, VerifyPrior, LeaseForPrune, FailPrune, EndExport, CrashOperator,
       BeginExport, Damage
<1>3. QED
  BY <1>1, <1>2, Inductive, PTL DEF Spec
=============================================================================
