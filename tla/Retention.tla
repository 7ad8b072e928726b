------------------------------ MODULE Retention ------------------------------
(***************************************************************************)
(* Telemetry of one session and its retention: diagnostics and events that *)
(* a worker commits (agent-rust/src/diagnostics.rs, write_diagnostics and  *)
(* save_inner of main.rs), the check of a load (hydrate), and the operator *)
(* commands export, verify and prune-telemetry (retention.rs), which run   *)
(* in processes of their own beside the worker.                            *)
(*                                                                         *)
(* A row is its number; an archive file is the rows it holds, the revision *)
(* of its snapshot and whether verify accepts it.  Sessions, commits and   *)
(* leases are reduced to what a prune depends on; SessionStore has them in *)
(* full.                                                                   *)
(***************************************************************************)
EXTENDS Naturals, FiniteSets

CONSTANTS Families,     \* diagnostic families
          Operators,    \* retention processes
          Files,        \* archive paths
          Recent,       \* diagnostics that a load needs (RECENT, 32)
          Keeps,        \* values an operator passes as --keep-diagnostics, --keep-events
          MaxCommits, MaxRecords, MaxLeases, MaxCrashes, MaxLosses,   \* bounds
          None

Archives == [revision : Nat, events : SUBSET Nat, diagnostics : [Families -> SUBSET Nat], sound : BOOLEAN]

ASSUME RetentionAssumption ==
    /\ Recent \in Nat \ {0} /\ Keeps \subseteq Nat /\ None \notin Operators \cup Archives
    /\ {MaxCommits, MaxRecords, MaxLeases, MaxCrashes, MaxLosses} \subseteq Nat

VARIABLES revision, terminal,   \* of the session: revision, status # "active"
          running,              \* a run of it is running
          unresolved,           \* it has pending calls or unresolved executions
          events,               \* agent_session_events
          diagnostics,          \* agent_session_diagnostics, per family
          counts,               \* diagnostic_counts of the snapshot
          lease,                \* owner, fence, live
          receipts,             \* agent_archive_receipts: path and archive
          file,                 \* the archives on disk
          worker,               \* the worker: whether it runs, how far, its counts and outbox
          op                    \* the operators

\* History, read by the properties only: the last event committed
\* and the counters of the bounds.
VARIABLES written, losses, crashes

session == <<revision, terminal, running, unresolved, events, diagnostics, counts, written>>
vars == <<session, lease, receipts, file, worker, op, losses, crashes>>

Worker == "worker"
Unleased == [owner |-> None, fence |-> 0, live |-> FALSE]
NoRecords == [f \in Families |-> {}]
Idle == [on |-> FALSE, stage |-> "working", fence |-> 0, counts |-> [f \in Families |-> 0],
         outbox |-> NoRecords]
NoArchive == [revision |-> 0, events |-> {}, diagnostics |-> [f \in Families |-> {}], sound |-> FALSE]
Free == [pc |-> "idle", revision |-> 0, path |-> None, archive |-> NoArchive, fence |-> 0,
         keep |-> [diagnostics |-> 0, events |-> 0],
         late |-> {}]      \* history: paths damaged since the archive was verified

Init ==
    /\ revision = 1 /\ terminal = FALSE /\ running = FALSE /\ unresolved = FALSE
    /\ events = {1} /\ written = 1
    /\ diagnostics = [f \in Families |-> {}] /\ counts = [f \in Families |-> 0]
    /\ lease = Unleased /\ receipts = {} /\ file = [p \in Files |-> None]
    /\ worker = Idle /\ op = [o \in Operators |-> Free]
    /\ losses = 0 /\ crashes = 0

----------------------------------------------------------------------------
(* Load and the lease *)

\* hydrate: the counters are those of the table, and the newest rows are there.
Hydrates(f) ==
    /\ \A n \in diagnostics[f] : n <= counts[f]
    /\ \A n \in 1..counts[f] : n + Recent > counts[f] => n \in diagnostics[f]
Loads == \A f \in Families : Hydrates(f)

Acquirable == lease.fence < MaxLeases /\ (lease.owner = None \/ ~lease.live)
Holds(o, fence) == lease.owner = o /\ lease.fence = fence /\ lease.live
Acquire(o) == lease' = [owner |-> o, fence |-> lease.fence + 1, live |-> TRUE]
Release(o, fence) ==
    lease' = IF lease.owner = o /\ lease.fence = fence
             THEN [lease EXCEPT !.owner = None, !.live = FALSE] ELSE lease

Expire ==
    /\ lease.live /\ lease' = [lease EXCEPT !.live = FALSE]
    /\ UNCHANGED <<session, receipts, file, worker, op, losses, crashes>>

----------------------------------------------------------------------------
(* The worker *)

\* save_inner: one more revision and one more event.
Commit == revision' = revision + 1 /\ written' = written + 1 /\ events' = events \cup {written + 1}

\* run and resume: the lease, the loaded session, run_started; an abandoned run
\* is ended before.
StartRun ==
    /\ ~worker.on /\ Acquirable /\ Loads /\ revision < MaxCommits
    /\ Acquire(Worker) /\ Commit /\ terminal' = FALSE /\ running' = TRUE
    /\ worker' = [on |-> TRUE, stage |-> "working", fence |-> lease.fence + 1, counts |-> counts,
                  outbox |-> NoRecords]
    /\ UNCHANGED <<unresolved, diagnostics, counts, receipts, file, op, losses, crashes>>

\* record: the next ordinal of the family, kept in the outbox.
Record(f) ==
    /\ worker.on /\ worker.stage = "working" /\ worker.counts[f] < MaxRecords
    /\ worker' = [worker EXCEPT !.counts[f] = @ + 1, !.outbox[f] = @ \cup {worker.counts[f] + 1}]
    /\ UNCHANGED <<session, lease, receipts, file, op, losses, crashes>>

\* write_diagnostics: the outbox goes into the table with the snapshot; a record
\* that is there already is left as it is.
Flush == diagnostics' = [f \in Families |-> diagnostics[f] \cup worker.outbox[f]]
         /\ counts' = worker.counts

MaySave(stage) ==
    worker.on /\ worker.stage = stage /\ Holds(Worker, worker.fence) /\ revision < MaxCommits

\* What a checkpoint saves; the engine's last one, of a task that is complete or
\* has failed, ends the run.
SaveCheckpoint(pending, ends) ==
    /\ MaySave("working") /\ Commit /\ Flush
    /\ unresolved' = pending /\ terminal' = ends /\ running' = ~ends

\* A checkpoint whose emit succeeds: the engine empties its outbox.
Checkpoint(pending, ends) ==
    /\ SaveCheckpoint(pending, ends)
    /\ worker' = [worker EXCEPT !.stage = IF ends THEN "saved" ELSE "working", !.outbox = NoRecords]
    /\ UNCHANGED <<lease, receipts, file, op, losses, crashes>>

\* A checkpoint after whose commit the engine returns an error: the run was
\* cancelled or a call is blocked, and the outbox is acknowledged; or the query
\* for a cancellation failed, and the outbox stays as it is.
CheckpointFails(pending, ends, acknowledged) ==
    /\ SaveCheckpoint(pending, ends)
    /\ worker' = [worker EXCEPT !.stage = "failed", !.outbox = IF acknowledged THEN NoRecords ELSE @]
    /\ UNCHANGED <<lease, receipts, file, op, losses, crashes>>

\* Mutant: every failure acknowledges the outbox, as a cancellation does.
EngineFailsAcknowledged ==
    /\ worker.on /\ worker.stage = "working"
    /\ worker' = [worker EXCEPT !.stage = "failed", !.outbox = NoRecords]
    /\ UNCHANGED <<session, lease, receipts, file, op, losses, crashes>>

\* The engine, or a save of it, fails with nothing committed.
EngineFails ==
    /\ worker.on /\ worker.stage = "working"
    /\ worker' = [worker EXCEPT !.stage = "failed"]
    /\ UNCHANGED <<session, lease, receipts, file, op, losses, crashes>>

\* The failure is saved with what the outbox holds.  A stream goes on to
\* run_finished; in the run handler this was run_finished (cancelled, blocked).
SaveFailure(pending) ==
    /\ MaySave("failed") /\ Commit /\ Flush
    /\ running' = FALSE /\ terminal' = TRUE /\ unresolved' = pending
    /\ \/ worker' = [worker EXCEPT !.stage = "saved", !.outbox = NoRecords] /\ UNCHANGED lease
       \/ worker' = Idle /\ Release(Worker, worker.fence)
    /\ UNCHANGED <<receipts, file, op, losses, crashes>>

\* The failure or run_finished is not saved, or the run handler only answers
\* (other errors): the lease is released, the run stays as it is.
GiveUp ==
    /\ worker.on /\ worker.stage \in {"failed", "saved"}
    /\ Release(Worker, worker.fence) /\ worker' = Idle
    /\ UNCHANGED <<session, receipts, file, op, losses, crashes>>

\* run_finished, after the checkpoint that ended the run or the failure.
FinishRun ==
    /\ MaySave("saved") /\ Commit /\ Flush
    /\ Release(Worker, worker.fence) /\ worker' = Idle
    /\ UNCHANGED <<terminal, running, unresolved, receipts, file, op, losses, crashes>>

\* The worker's process dies, or it finds that its lease is lost: the run
\* stays running.
StopWorker ==
    /\ worker.on /\ worker' = Idle
    /\ \/ ~Holds(Worker, worker.fence) /\ UNCHANGED crashes
       \/ crashes < MaxCrashes /\ crashes' = crashes + 1
    /\ UNCHANGED <<session, lease, receipts, file, op, losses>>

\* reconcile-runs ends the abandoned run, and the task fails.
Reconcile ==
    /\ running /\ Acquirable /\ Loads /\ revision < MaxCommits
    /\ Commit /\ running' = FALSE /\ terminal' = TRUE
    /\ lease' = [owner |-> None, fence |-> lease.fence + 1, live |-> FALSE]
    /\ UNCHANGED <<unresolved, diagnostics, counts, receipts, file, worker, op, losses, crashes>>

----------------------------------------------------------------------------
(* The operators *)

Set(o, value) == op' = [op EXCEPT ![o] = value]

Snapshot == [revision |-> revision, events |-> events, diagnostics |-> diagnostics, sound |-> TRUE]

\* export: one repeatable-read snapshot, a file that did not exist.
BeginExport(o, p) ==
    /\ op[o].pc = "idle" /\ file[p] = None
    /\ file' = [file EXCEPT ![p] = [NoArchive EXCEPT !.revision = revision]]
    /\ Set(o, [Free EXCEPT !.pc = "exporting", !.path = p, !.archive = Snapshot])
    /\ UNCHANGED <<session, lease, receipts, worker, losses, crashes>>

\* The manifest is written and the file verified.
EndExport(o) ==
    /\ op[o].pc = "exporting" /\ file' = [file EXCEPT ![op[o].path] = op[o].archive]
    /\ Set(o, Free)
    /\ UNCHANGED <<session, lease, receipts, worker, losses, crashes>>

\* prune-telemetry loads the session first.
LoadForPrune(o) ==
    /\ op[o].pc = "idle" /\ Loads
    /\ Set(o, [Free EXCEPT !.pc = "loaded", !.revision = revision])
    /\ UNCHANGED <<session, lease, receipts, file, worker, losses, crashes>>

\* Mutant: what verify computes is not compared.
VerifiesAny(p) == file[p] # None

\* verify: the rows of the file are those of its manifest.
Verifies(p) == file[p] # None /\ file[p].sound

\* Mutant: any number may be kept.
KeepAllowedAny(keep) == keep.diagnostics >= 0

KeepAllowed(keep) == keep.diagnostics >= Recent /\ keep.events >= 1

VerifyArchive(o, p, keep) ==
    /\ op[o].pc = "loaded" /\ Verifies(p) /\ file[p].revision = op[o].revision /\ KeepAllowed(keep)
    /\ Set(o, [op[o] EXCEPT !.pc = "verified", !.path = p, !.archive = file[p], !.keep = keep,
                            !.late = {}])
    /\ UNCHANGED <<session, lease, receipts, file, worker, losses, crashes>>

\* The archives of all earlier receipts are verified again.
VerifyPrior(o) ==
    /\ op[o].pc = "verified" /\ \A r \in receipts : Verifies(r.path) /\ file[r.path] = r.archive
    /\ Set(o, [op[o] EXCEPT !.pc = "admitted"])
    /\ UNCHANGED <<session, lease, receipts, file, worker, losses, crashes>>

\* The command is inserted; then the lease.
LeaseForPrune(o) ==
    /\ op[o].pc = "admitted" /\ Acquirable /\ Acquire(o)
    /\ Set(o, [op[o] EXCEPT !.pc = "leased", !.fence = lease.fence + 1])
    /\ UNCHANGED <<session, receipts, file, worker, losses, crashes>>

\* Mutant: a run that is recorded as running does not matter.
ResolvedCalls == ~unresolved

\* retention::write: nothing of the session waits for recovery.
Resolved == terminal /\ ~unresolved /\ ~running

UpTo(rows, held) == {n \in rows : \E m \in held : n <= m}

\* The rows of the tables up to the watermarks are the rows of the archive.
DigestsMatch(a) ==
    /\ UpTo(events, a.events) = a.events
    /\ \A f \in Families : UpTo(diagnostics[f], a.diagnostics[f]) = a.diagnostics[f]

\* The events up to the watermark that are not among the newest.
PrunedEvents(a, keep) ==
    {n \in UpTo(events, a.events) : Cardinality({m \in events : m > n}) >= keep}

PrunedDiagnostics(f, a, keep) ==
    {n \in UpTo(diagnostics[f], a.diagnostics[f]) : n + keep <= counts[f]}

\* save with retention_pending: telemetry_archived, the receipt and the deletes
\* are one transaction; the event of the commit is inserted after the deletes.
CommitPrune(o) ==
    LET a == op[o].archive
    IN /\ op[o].pc = "leased" /\ Holds(o, op[o].fence) /\ revision = op[o].revision
       /\ revision < MaxCommits
       /\ Resolved /\ a.revision = revision /\ DigestsMatch(a)
       /\ revision' = revision + 1 /\ written' = written + 1
       /\ events' = (events \ PrunedEvents(a, op[o].keep.events)) \cup {written + 1}
       /\ diagnostics' = [f \in Families |->
                            diagnostics[f] \ PrunedDiagnostics(f, a, op[o].keep.diagnostics)]
       /\ receipts' = receipts \cup {[path |-> op[o].path, archive |-> a]}
       /\ Set(o, Free) /\ Release(o, op[o].fence)
       /\ UNCHANGED <<terminal, running, unresolved, counts, file, worker, losses, crashes>>

\* Any step of a prune that does not succeed ends it; a lease it has is released.
FailPrune(o) ==
    /\ op[o].pc \in {"loaded", "verified", "admitted", "leased"} /\ Set(o, Free)
    /\ IF op[o].pc = "leased" THEN Release(o, op[o].fence) ELSE UNCHANGED lease
    /\ UNCHANGED <<session, receipts, file, worker, losses, crashes>>

\* The operator's process dies: a file stays incomplete, a lease runs out.
CrashOperator(o) ==
    /\ op[o].pc \in {"exporting", "leased"} /\ crashes < MaxCrashes /\ crashes' = crashes + 1
    /\ Set(o, Free)
    /\ UNCHANGED <<session, lease, receipts, file, worker, losses>>

\* An archive is lost, or its rows change under their manifest.
Damage(p) ==
    /\ file[p] # None /\ losses < MaxLosses /\ losses' = losses + 1
    /\ file' \in {[file EXCEPT ![p] = None], [file EXCEPT ![p].sound = FALSE]}
    /\ \A o \in Operators : op[o].pc = "exporting" => op[o].path # p
    /\ op' = [o \in Operators |-> [op[o] EXCEPT !.late = @ \cup {p}]]
    /\ UNCHANGED <<session, lease, receipts, worker, crashes>>

Prune(o) ==
    \/ LoadForPrune(o) \/ VerifyPrior(o) \/ LeaseForPrune(o) \/ CommitPrune(o) \/ FailPrune(o)
    \/ \E p \in Files, d, e \in Keeps : VerifyArchive(o, p, [diagnostics |-> d, events |-> e])

Next ==
    \/ Expire \/ StartRun \/ StopWorker \/ Reconcile \/ (\E f \in Families : Record(f))
    \/ (\E pending, ends \in BOOLEAN : Checkpoint(pending, ends))
    \/ (\E pending, ends, acknowledged \in BOOLEAN : CheckpointFails(pending, ends, acknowledged))
    \/ EngineFails \/ (\E pending \in BOOLEAN : SaveFailure(pending)) \/ GiveUp \/ FinishRun
    \/ (\E o \in Operators : Prune(o) \/ EndExport(o) \/ CrashOperator(o))
    \/ (\E o \in Operators, p \in Files : BeginExport(o, p)) \/ (\E p \in Files : Damage(p))

Spec == Init /\ [][Next]_vars

----------------------------------------------------------------------------
(* Properties *)

Stages == {"idle", "exporting", "loaded", "verified", "admitted", "leased"}
Processes ==
    [pc : Stages, revision : Nat, path : Files \cup {None}, archive : Archives, fence : Nat,
     keep : [diagnostics : Nat, events : Nat], late : SUBSET Files]

Workers ==
    [on : BOOLEAN, stage : {"working", "failed", "saved"}, fence : Nat,
     counts : [Families -> Nat], outbox : [Families -> SUBSET Nat]]

\* The rows, the lease, the archives and the processes.
TypeOK ==
    /\ revision \in Nat /\ written \in Nat
    /\ terminal \in BOOLEAN /\ running \in BOOLEAN /\ unresolved \in BOOLEAN
    /\ events \subseteq 1..written
    /\ counts \in [Families -> Nat] /\ diagnostics \in [Families -> SUBSET Nat]
    /\ lease \in [owner : Operators \cup {Worker, None}, fence : Nat, live : BOOLEAN]
    /\ receipts \subseteq [path : Files, archive : Archives]
    /\ file \in [Files -> Archives \cup {None}]
    /\ worker \in Workers
    /\ op \in [Operators -> Processes]
    /\ losses \in 0..MaxLosses /\ crashes \in 0..MaxCrashes

\* A load finds the counters and the newest diagnostics it needs, whatever was
\* pruned (hydrate refuses a session with a gap, and with it every request).
SessionLoads == Loads

\* What the outbox of the worker that holds the lease adds to the table continues
\* it: a diagnostic is never lost with a failure, and one that an unacknowledged
\* save has written is still there when it is written again.  The save of the
\* outbox leaves the counters equal to the newest rows (write_diagnostics).
OutboxContinues ==
    worker.on /\ Holds(Worker, worker.fence) =>
        \A f \in Families :
            worker.outbox[f] \ diagnostics[f] = (counts[f] + 1)..worker.counts[f]

\* What is left of the events and of each family are the newest rows, without
\* a gap: a reader's cursor meets the end of the archive, then every row.
NewestRemain ==
    /\ \A n \in events : n..written \subseteq events
    /\ \A f \in Families : \A n \in diagnostics[f] : n..counts[f] \subseteq diagnostics[f]

\* The receipts whose archive is intact, or was when it was last verified.
Standing(late) ==
    {r \in receipts' : r.path \in late \/ (r.archive.sound /\ file[r.path] = r.archive)}

\* When a prune has committed, every row of the whole history is in its table
\* or in an archive that was intact when this prune verified it and the ones
\* before it.
HistoryIsKept ==
    [][\A o \in Operators : op[o].pc = "leased" /\ receipts' # receipts /\ op'[o].pc = "idle" =>
          /\ (1..written) \ events' \subseteq UNION {r.archive.events : r \in Standing(op[o].late)}
          /\ \A f \in Families :
                (1..counts[f]) \ diagnostics'[f]
                    \subseteq UNION {r.archive.diagnostics[f] : r \in Standing(op[o].late)}]_vars

\* The archive of a prune holds all the telemetry that is in the tables when it
\* commits: no run and no other prune came in between ("a current verified
\* consistent export", contract.md).
ArchiveIsCurrent ==
    [][\A r \in receipts' \ receipts : r.archive.events = events /\ r.archive.diagnostics = diagnostics]_vars

\* No telemetry of a session is deleted between the loss of a worker and the
\* reconciliation of what it left: a run, pending calls.
RecoveryEvidenceStays ==
    [][running \/ unresolved =>
          events \subseteq events' /\ \A f \in Families : diagnostics[f] \subseteq diagnostics'[f]]_vars
=============================================================================
