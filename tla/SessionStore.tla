---------------------------- MODULE SessionStore ----------------------------
(***************************************************************************)
(* The commit protocol of one session row (agent-rust/src/main.rs): load,  *)
(* the execution lease with its fence, and save / save_inner with their    *)
(* revision check, commit receipts and retries of one frozen proposal.     *)
(*                                                                         *)
(* A writer is one activation of the handler create, message or run (run,  *)
(* stream and resume share this protocol); its lease owner UUID is fresh,  *)
(* so the writer itself stands for it.  A commit id is the pair of the     *)
(* writer and the number of its proposal, and the content of a session     *)
(* snapshot is the set of commits it was built from.  Every SQL            *)
(* transaction is one step, except that the answer to COMMIT may be lost,  *)
(* or may come while the transaction is still open on the server.          *)
(* clock_timestamp() is a countdown, ttl, that Tick may advance at any     *)
(* moment.                                                                 *)
(***************************************************************************)
EXTENDS Naturals, Sequences

CONSTANTS Writers,      \* handler activations
          Processes,    \* agent processes sharing the database
          ProcessOf,    \* the process a writer runs in
          Kind,         \* "create", "message" or "run"
          None,         \* SQL NULL for lease_owner
          MaxSaves,     \* bound: proposals of each writer
          MaxTries,     \* tries of one proposal (main.rs: retry < 2, so 3)
          LeaseTicks    \* lease length in ticks (30 s lease, 10 s heartbeat)

ASSUME ConstantsAssumption ==
    /\ ProcessOf \in [Writers -> Processes]
    /\ Kind \in [Writers -> {"create", "message", "run"}]
    /\ None \notin Writers
    /\ MaxSaves \in [Writers -> Nat \ {0}]
    /\ \A w \in Writers : Kind[w] # "run" => MaxSaves[w] = 1
    /\ MaxTries \in Nat \ {0}
    /\ LeaseTicks \in Nat \ {0}

VARIABLES revision,  \* agent_sessions.revision; 0 while the row is missing
          state,     \* content of agent_sessions.state
          owner,     \* lease_owner
          fence,     \* lease_fence
          ttl,       \* lease_expires_at - clock_timestamp(), 0 once expired
          log,       \* agent_commit_receipts / agent_session_events
          pc,        \* where each writer is
          seen,      \* Session.revision in the writer's memory
          view,      \* the rest of the writer's Session
          myFence,   \* Session.execution_fence, 0 for None
          made,      \* proposals made, so <<w, made[w]>> is pending_commit_id
          final,     \* the pending save ends the command (commands::finish)
          tries,     \* save's retry counter
          tx,        \* is a transaction of the writer waiting for COMMIT?
          auth,      \* does commands::guard still accept the writer?
          outcome    \* history: what save returned for each commit id

rowVars == <<revision, state, log>>
leaseVars == <<owner, fence, ttl>>
copyVars == <<seen, view, myFence>>
saveVars == <<made, final, tries>>
vars == <<rowVars, leaseVars, pc, copyVars, saveVars, tx, auth, outcome>>

CommitIds == UNION {{w} \X (1..MaxSaves[w]) : w \in Writers}
Commit(w) == <<w, made[w]>>
Committed == {log[i].commit : i \in DOMAIN log}

\* States in which a handler is running, so its process's lock is held.
Running == {"loaded", "ready", "saving", "committing", "retry", "rejected",
            "stale", "unresolved", "finished"}

\* The row lock an open transaction took with SELECT ... FOR UPDATE.
Unlocked == \A w \in Writers : ~tx[w]

Init ==
    /\ revision = 0 /\ state = {} /\ log = <<>>
    /\ owner = None /\ fence = 0 /\ ttl = 0
    /\ pc = [w \in Writers |-> "idle"]
    /\ seen = [w \in Writers |-> 0]
    /\ view = [w \in Writers |-> {}]
    /\ myFence = [w \in Writers |-> 0]
    /\ made = [w \in Writers |-> 0]
    /\ final = [w \in Writers |-> FALSE]
    /\ tries = [w \in Writers |-> 0]
    /\ tx = [w \in Writers |-> FALSE]
    /\ auth = [w \in Writers |-> TRUE]
    /\ outcome = [c \in CommitIds |-> "none"]

----------------------------------------------------------------------------
(* Handlers up to their first save. *)

\* create builds revision 0 in memory: there is nothing to lock or load.
Create(w) ==
    /\ pc[w] = "idle" /\ Kind[w] = "create"
    /\ pc' = [pc EXCEPT ![w] = "ready"]
    /\ UNCHANGED <<rowVars, leaseVars, copyVars, saveVars, tx, auth, outcome>>

\* session_lock: a mutex per session inside one process.
LockFree(w) ==
    \A v \in Writers \ {w} :
        ProcessOf[v] = ProcessOf[w] /\ Kind[v] # "create" => pc[v] \notin Running

\* load: a REPEATABLE READ copy, taken before any lease is acquired.
Load(w) ==
    /\ pc[w] = "idle" /\ Kind[w] # "create"
    /\ LockFree(w) /\ revision > 0
    /\ pc' = [pc EXCEPT ![w] = IF Kind[w] = "run" THEN "loaded" ELSE "ready"]
    /\ seen' = [seen EXCEPT ![w] = revision]
    /\ view' = [view EXCEPT ![w] = state]
    /\ UNCHANGED <<rowVars, leaseVars, myFence, saveVars, tx, auth, outcome>>

\* 409 while another handler of the process has the lock or when the session's
\* status does not allow the command, 404 without a row, 422 for a bad body.
Refuse(w) ==
    /\ pc[w] = "idle"
    /\ pc' = [pc EXCEPT ![w] = "done"]
    /\ UNCHANGED <<rowVars, leaseVars, copyVars, saveVars, tx, auth, outcome>>

Acquirable == owner = None \/ ttl = 0

\* Mutant: the UPDATE does not wait for the row lock of an open commit.
AcquireExecutionLeaseUnlocked(w) ==
    /\ pc[w] = "loaded" /\ Acquirable
    /\ owner' = w /\ fence' = fence + 1 /\ ttl' = LeaseTicks
    /\ myFence' = [myFence EXCEPT ![w] = fence + 1]
    /\ pc' = [pc EXCEPT ![w] = "ready"]
    /\ UNCHANGED <<rowVars, seen, view, saveVars, tx, auth, outcome>>

AcquireExecutionLease(w) ==
    /\ pc[w] = "loaded"
    /\ Acquirable /\ Unlocked
    /\ owner' = w /\ fence' = fence + 1 /\ ttl' = LeaseTicks
    /\ myFence' = [myFence EXCEPT ![w] = fence + 1]
    /\ pc' = [pc EXCEPT ![w] = "ready"]
    /\ UNCHANGED <<rowVars, seen, view, saveVars, tx, auth, outcome>>

OwnershipConflict(w) ==
    /\ pc[w] = "loaded"
    /\ ~Acquirable
    /\ pc' = [pc EXCEPT ![w] = "done"]
    /\ UNCHANGED <<rowVars, leaseVars, copyVars, saveVars, tx, auth, outcome>>

----------------------------------------------------------------------------
(* save: one proposal, frozen under a fresh commit id, tried MaxTries times *)

\* The engine checkpoints, and lifecycle also persists a failed checkpoint's
\* error, each under a new commit id; create and message save once.
Propose(w, last) ==
    /\ pc[w] = "ready" \/ (pc[w] = "rejected" /\ Kind[w] = "run")
    /\ made[w] < MaxSaves[w]
    /\ Kind[w] # "run" => last
    /\ pc' = [pc EXCEPT ![w] = "saving"]
    /\ made' = [made EXCEPT ![w] = @ + 1]
    /\ final' = [final EXCEPT ![w] = last]
    /\ tries' = [tries EXCEPT ![w] = 0]
    /\ UNCHANGED <<rowVars, leaseVars, copyVars, tx, auth, outcome>>

\* save_inner first locks the command row, so it waits for an earlier try of
\* the same writer that is still open on the server.
Trying(w) == pc[w] = "saving" /\ ~tx[w]

\* The lease test of save_inner: lease-less handlers need a lease-less row.
LeaseOk(w) ==
    IF Kind[w] = "run"
    THEN owner = w /\ fence = myFence[w] /\ ttl > 0
    ELSE owner = None

\* The receipt is looked up before the guard and before the revision check.
SaveReceipt(w) ==
    /\ Trying(w) /\ Commit(w) \in Committed
    /\ \E i \in DOMAIN log :
        /\ log[i].commit = Commit(w)
        /\ seen' = [seen EXCEPT ![w] = i]
        /\ pc' = [pc EXCEPT ![w] = IF i # revision THEN "stale"
                                   ELSE IF final[w] THEN "finished" ELSE "ready"]
    /\ view' = [view EXCEPT ![w] = @ \cup {Commit(w)}]
    /\ outcome' = [outcome EXCEPT ![Commit(w)] = "acked"]
    /\ UNCHANGED <<rowVars, leaseVars, myFence, saveVars, tx, auth>>

\* Mutant: the guards run before the receipt is looked up.
SaveRejectBeforeReceipt(w) ==
    /\ Trying(w)
    /\ ~auth[w] \/ (Unlocked /\ (seen[w] # revision \/ ~LeaseOk(w)))
    /\ pc' = [pc EXCEPT ![w] = "rejected"]
    /\ outcome' = [outcome EXCEPT ![Commit(w)] = "rejected"]
    /\ UNCHANGED <<rowVars, leaseVars, copyVars, saveVars, tx, auth>>

\* "command lease lost", "revision conflict", "owned by a fenced worker".
SaveReject(w) ==
    /\ Trying(w) /\ Commit(w) \notin Committed
    /\ ~auth[w] \/ (Unlocked /\ (seen[w] # revision \/ ~LeaseOk(w)))
    /\ pc' = [pc EXCEPT ![w] = "rejected"]
    /\ outcome' = [outcome EXCEPT ![Commit(w)] = "rejected"]
    /\ UNCHANGED <<rowVars, leaseVars, copyVars, saveVars, tx, auth>>

\* Mutant: the lease alone is trusted and the revision is not compared.
SaveWriteWithoutCas(w) ==
    /\ Trying(w) /\ Commit(w) \notin Committed /\ Unlocked
    /\ auth[w] /\ LeaseOk(w)
    /\ pc' = [pc EXCEPT ![w] = "committing"]
    /\ tx' = [tx EXCEPT ![w] = TRUE]
    /\ UNCHANGED <<rowVars, leaseVars, copyVars, saveVars, auth, outcome>>

\* Every check passed and every row is written; COMMIT is on its way.
SaveWrite(w) ==
    /\ Trying(w) /\ Commit(w) \notin Committed /\ Unlocked
    /\ auth[w] /\ seen[w] = revision /\ LeaseOk(w)
    /\ pc' = [pc EXCEPT ![w] = "committing"]
    /\ tx' = [tx EXCEPT ![w] = TRUE]
    /\ UNCHANGED <<rowVars, leaseVars, copyVars, saveVars, auth, outcome>>

\* The server commits.  A client still waiting gets the answer; for any other
\* (it saw an I/O error, gave up, or crashed) the commit is a silent one.
TxCommit(w) ==
    /\ tx[w]
    /\ revision' = revision + 1
    /\ state' = view[w] \cup {Commit(w)}
    /\ log' = Append(log, [commit |-> Commit(w), writer |-> w,
                           fence |-> myFence[w]])
    /\ tx' = [tx EXCEPT ![w] = FALSE]
    /\ auth' = [auth EXCEPT ![w] = @ /\ ~final[w]]
    /\ IF pc[w] = "committing"
       THEN /\ seen' = [seen EXCEPT ![w] = revision + 1]
            /\ view' = [view EXCEPT ![w] = @ \cup {Commit(w)}]
            /\ pc' = [pc EXCEPT ![w] = IF final[w] THEN "finished" ELSE "ready"]
            /\ outcome' = [outcome EXCEPT ![Commit(w)] = "acked"]
       ELSE UNCHANGED <<seen, view, pc, outcome>>
    /\ UNCHANGED <<leaseVars, myFence, saveVars>>

TxAbort(w) ==
    /\ tx[w]
    /\ tx' = [tx EXCEPT ![w] = FALSE]
    /\ pc' = [pc EXCEPT ![w] = IF @ = "committing" THEN "retry" ELSE @]
    /\ UNCHANGED <<rowVars, leaseVars, copyVars, saveVars, auth, outcome>>

\* Io, Tls or PoolTimedOut: before the transaction, or instead of its answer.
IoError(w) ==
    /\ Trying(w) \/ pc[w] = "committing"
    /\ pc' = [pc EXCEPT ![w] = "retry"]
    /\ UNCHANGED <<rowVars, leaseVars, copyVars, saveVars, tx, auth, outcome>>

\* Mutant: one try too many.
RetryOffByOne(w) ==
    /\ pc[w] = "retry" /\ tries[w] <= MaxTries - 1
    /\ pc' = [pc EXCEPT ![w] = "saving"]
    /\ tries' = [tries EXCEPT ![w] = @ + 1]
    /\ UNCHANGED <<rowVars, leaseVars, copyVars, made, final, tx, auth, outcome>>

Retry(w) ==
    /\ pc[w] = "retry" /\ tries[w] < MaxTries - 1
    /\ pc' = [pc EXCEPT ![w] = "saving"]
    /\ tries' = [tries EXCEPT ![w] = @ + 1]
    /\ UNCHANGED <<rowVars, leaseVars, copyVars, made, final, tx, auth, outcome>>

\* Mutant: exhausted retries are reported as a definite failure.
GiveUpRejected(w) ==
    /\ pc[w] = "retry" /\ tries[w] >= MaxTries - 1
    /\ pc' = [pc EXCEPT ![w] = "unresolved"]
    /\ outcome' = [outcome EXCEPT ![Commit(w)] = "rejected"]
    /\ UNCHANGED <<rowVars, leaseVars, copyVars, saveVars, tx, auth>>

\* commit_outcome_unresolved
GiveUp(w) ==
    /\ pc[w] = "retry" /\ tries[w] >= MaxTries - 1
    /\ pc' = [pc EXCEPT ![w] = "unresolved"]
    /\ outcome' = [outcome EXCEPT ![Commit(w)] = "unresolved"]
    /\ UNCHANGED <<rowVars, leaseVars, copyVars, saveVars, tx, auth>>

----------------------------------------------------------------------------
(* Lease upkeep, the end of a handler, and the environment. *)

RenewExecutionLease(w) ==
    /\ pc[w] \in Running /\ Unlocked
    /\ owner = w /\ fence = myFence[w] /\ ttl > 0
    /\ ttl' = LeaseTicks
    /\ UNCHANGED <<rowVars, owner, fence, pc, copyVars, saveVars, tx, auth, outcome>>

\* Mutant: releasing the lease also resets the fence.
ReleaseResetsFence(w) ==
    /\ pc[w] \in {"ready", "rejected", "stale", "unresolved", "finished"}
    /\ Unlocked
    /\ pc' = [pc EXCEPT ![w] = "done"]
    /\ \/ owner = w /\ fence = myFence[w] /\ owner' = None /\ ttl' = 0 /\ fence' = 0
       \/ UNCHANGED leaseVars
    /\ UNCHANGED <<rowVars, copyVars, saveVars, tx, auth, outcome>>

\* The handler ends, also when the engine stops between two checkpoints.
\* release_execution_lease ignores expiry but not the fence, and the handler
\* ignores a release that fails.
Release(w) ==
    /\ pc[w] \in {"ready", "rejected", "stale", "unresolved", "finished"}
    /\ Unlocked
    /\ pc' = [pc EXCEPT ![w] = "done"]
    /\ \/ owner = w /\ fence = myFence[w] /\ owner' = None /\ ttl' = 0
       \/ UNCHANGED <<owner, ttl>>
    /\ UNCHANGED <<rowVars, fence, copyVars, saveVars, tx, auth, outcome>>

\* The command's lease expires or another worker claims the command; its row
\* cannot change while a transaction of the writer holds it locked.
LoseCommand(w) ==
    /\ pc[w] \in Running /\ auth[w] /\ ~tx[w]
    /\ auth' = [auth EXCEPT ![w] = FALSE]
    /\ UNCHANGED <<rowVars, leaseVars, pc, copyVars, saveVars, tx, outcome>>

Tick ==
    /\ ttl > 0
    /\ ttl' = ttl - 1
    /\ UNCHANGED <<rowVars, owner, fence, pc, copyVars, saveVars, tx, auth, outcome>>

\* A process dies with all its handlers; an open transaction whose COMMIT was
\* sent may still commit.
Crash(p) ==
    /\ \E w \in Writers : ProcessOf[w] = p /\ pc[w] \in Running
    /\ pc' = [w \in Writers |-> IF ProcessOf[w] = p /\ pc[w] \in Running
                                THEN "crashed" ELSE pc[w]]
    /\ UNCHANGED <<rowVars, leaseVars, copyVars, saveVars, tx, auth, outcome>>

Server(w) == TxCommit(w) \/ TxAbort(w)

Client(w) ==
    \/ Create(w) \/ Load(w) \/ Refuse(w)
    \/ AcquireExecutionLease(w) \/ OwnershipConflict(w)
    \/ \E last \in BOOLEAN : Propose(w, last)
    \/ SaveReceipt(w) \/ SaveReject(w) \/ SaveWrite(w)
    \/ Retry(w) \/ GiveUp(w) \/ Release(w)

Next ==
    \/ \E w \in Writers : \/ Client(w) \/ Server(w)
                          \/ IoError(w) \/ RenewExecutionLease(w) \/ LoseCommand(w)
    \/ Tick
    \/ \E p \in Processes : Crash(p)

Spec == Init /\ [][Next]_vars

\* A statement of an open transaction is answered in the end, and a handler
\* that is not dead takes its next step.
FairSpec == Spec /\ \A w \in Writers : WF_vars(Client(w)) /\ WF_vars(Server(w))

----------------------------------------------------------------------------
(* Properties. *)

\* The shape of the rows and of the writers' memories.
TypeOK ==
    /\ revision \in Nat /\ state \subseteq CommitIds
    /\ log \in Seq([commit : CommitIds, writer : Writers, fence : Nat])
    /\ owner \in Writers \cup {None} /\ fence \in Nat /\ ttl \in 0..LeaseTicks
    /\ pc \in [Writers -> Running \cup {"idle", "done", "crashed"}]
    /\ seen \in [Writers -> Nat]
    /\ view \in [Writers -> SUBSET CommitIds]
    /\ myFence \in [Writers -> Nat]
    /\ made \in [Writers -> Nat] /\ \A w \in Writers : made[w] <= MaxSaves[w]
    /\ final \in [Writers -> BOOLEAN]
    /\ tries \in [Writers -> 0..(MaxTries - 1)]
    /\ tx \in [Writers -> BOOLEAN]
    /\ auth \in [Writers -> BOOLEAN]
    /\ outcome \in [CommitIds -> {"none", "acked", "rejected", "unresolved"}]

\* No lost update: the stored snapshot was built from exactly the commits in
\* the receipt history, although writers load before they own the session.
SnapshotIsHistory == revision = Len(log) /\ state = Committed

\* Authority moves forward: of the commits made under a lease, a later one
\* never carries an older fence, and one fence belongs to one writer.
FencesNeverRegress ==
    \A i, j \in DOMAIN log :
        i < j /\ log[i].fence > 0 /\ log[j].fence > 0
        => /\ log[i].fence <= log[j].fence
           /\ log[i].fence = log[j].fence => log[i].writer = log[j].writer

\* What save reported is true of the database, however many tries, lost
\* answers and late commits there were; and nothing is applied twice.
OutcomeTruth ==
    /\ \A c \in CommitIds : /\ outcome[c] = "acked" => c \in Committed
                            /\ outcome[c] = "rejected" => c \notin Committed
    /\ \A i, j \in DOMAIN log : log[i].commit = log[j].commit => i = j

\* At the moment a transaction commits, the session is still owned by its
\* writer under its fence (by nobody, for the handlers that take no lease).
FencedCommit ==
    [][log' # log =>
        \E w \in Writers : /\ tx[w]
                           /\ IF Kind[w] = "run" THEN owner = w /\ fence = myFence[w]
                                                 ELSE owner = None]_vars

\* save returns: retries are bounded and an open transaction ends.
SaveResolves ==
    \A w \in Writers :
        pc[w] \in {"saving", "committing", "retry"}
            ~> pc[w] \notin {"saving", "committing", "retry"}

\* The repository implements its promise.
history == [i \in DOMAIN log |-> log[i].commit]
Promise == INSTANCE RevisionLog
RefinesRevisionLog == Promise!Spec
=============================================================================
