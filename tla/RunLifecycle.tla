---------------------------- MODULE RunLifecycle ----------------------------
(***************************************************************************)
(* The run, stream and resume handlers of agent-rust/src/main.rs, the      *)
(* cancellation and disconnect paths, and the reconcile-runs command       *)
(* (reconcile.rs), over one session: how the session row, its run rows     *)
(* and the commands that started the runs move together.                   *)
(*                                                                         *)
(* An activation is one execution of a handler for a claimed command; the  *)
(* run it starts has the activation as its run_id.  A save is one step,    *)
(* with the guards of save_inner: the command's claim, the revision and    *)
(* the session lease (SessionStore has the retries of one save,            *)
(* CommandLedger the admission before the claim).  Each activation is in   *)
(* a process of its own, so the in-process session_lock never refuses, and *)
(* both leases may expire at any moment.                                   *)
(***************************************************************************)
EXTENDS CommandRow, FiniteSets

CONSTANTS Activations,   \* handler activations
          Commands,      \* commands of the session
          CommandOf,     \* the command an activation executes
          Kind,          \* per command: "run", "stream" or "resume"
          MaxSteps,      \* bound, per activation: checkpoints between start and end
          MaxFence       \* bound: leases after which reconcile-runs rests

ASSUME LifecycleAssumption ==
    /\ CommandOf \in [Activations -> Commands]
    /\ Kind \in [Commands -> {"run", "stream", "resume"}]
    /\ None \notin Activations \cup Commands
    /\ MaxSteps \in [Activations -> Nat] /\ MaxFence \in Nat

Reconciler == "reconciler"     \* the reconcile-runs command line
ASSUME ReconcilerAssumption == Reconciler \notin Activations

VARIABLES row,     \* agent_commands
          sess,    \* snapshot: revision, status, run, runStatus
          lease,   \* of the session: owner, fence, live
          runs,    \* agent_runs: status and cancel_requested
          inputs,  \* user messages each command has appended to the memory
          pc, my, fences, steps, answer   \* of the activations

vars == <<row, sess, lease, runs, inputs, pc, my, fences, steps, answer>>

Actors == Activations \cup {Reconciler}
Row(h) == row[CommandOf[h]]
IsStream(h) == Kind[CommandOf[h]] # "run"
Ended == {"complete", "failed", "cancelled", "blocked", "interrupted"}
Fresh == [revision |-> 0, status |-> "active", run |-> None, runStatus |-> "none"]
NoFences == [command |-> 0, session |-> 0]

Init ==
    /\ row = [k \in Commands |-> PendingRow(k)]
    /\ sess = [Fresh EXCEPT !.revision = 1]
    /\ lease = [owner |-> None, fence |-> 0, live |-> FALSE]
    /\ runs = [h \in Activations |-> [status |-> "absent", cancel |-> FALSE]]
    /\ inputs = [k \in Commands |-> 0]
    /\ pc = [h \in Actors |-> "idle"]
    /\ my = [h \in Actors |-> Fresh]
    /\ fences = [h \in Actors |-> NoFences]
    /\ steps = [h \in Activations |-> 0]
    /\ answer = [h \in Activations |-> None]

Goto(h, l) == pc' = [pc EXCEPT ![h] = l]

\* The handler is over, or dead: nothing of its memory is left.
Forget(h) ==
    /\ my' = [my EXCEPT ![h] = Fresh]
    /\ fences' = [fences EXCEPT ![h] = NoFences]
    /\ steps' = [o \in Activations |-> IF o = h THEN 0 ELSE steps[o]]
    /\ answer' = [o \in Activations |-> IF o = h THEN None ELSE answer[o]]

\* The claim of admit; the handler starts.
Claim(h) ==
    /\ pc[h] = "idle" /\ Claimable(Row(h))
    /\ row' = [row EXCEPT ![CommandOf[h]] = ClaimedBy(@, h)]
    /\ fences' = [fences EXCEPT ![h].command = Row(h).fence + 1]
    /\ Goto(h, "claimed")
    /\ UNCHANGED <<sess, lease, runs, inputs, my, steps, answer>>

\* The handler's JSON response, on its way back through admit.
Respond(h, what) ==
    /\ Goto(h, "settle")
    /\ answer' = [answer EXCEPT ![h] = what]

\* load, before the lease; only resume accepts a terminal session.
Load(h) ==
    /\ pc[h] = "claimed"
    /\ IF sess.status # "active" /\ Kind[CommandOf[h]] # "resume"
       THEN Respond(h, "refused") /\ UNCHANGED my
       ELSE /\ Goto(h, "loaded")
            /\ my' = [my EXCEPT ![h] = sess]
            /\ UNCHANGED answer
    /\ UNCHANGED <<row, sess, lease, runs, inputs, fences, steps>>

LeaseFree == lease.owner = None \/ ~lease.live

TakeLease(h) ==
    /\ lease' = [owner |-> h, fence |-> lease.fence + 1, live |-> TRUE]
    /\ fences' = [fences EXCEPT ![h].session = lease.fence + 1]

Acquire(h) ==
    /\ pc[h] = "loaded"
    /\ IF LeaseFree
       THEN TakeLease(h) /\ Goto(h, "owner") /\ UNCHANGED answer
       ELSE Respond(h, "refused") /\ UNCHANGED <<lease, fences>>
    /\ UNCHANGED <<row, sess, runs, inputs, my, steps>>

----------------------------------------------------------------------------
(* save *)

OwnsSession(h) ==
    lease.owner = h /\ lease.fence = fences[h].session /\ lease.live

\* Mutant: a command that is claimed again starts a second run.
NewRunAlways(h, s) == s.run = h => h \in Activations

\* write_run_state refuses a second run of one command (agent_runs.command_id
\* is unique).
NewRunAllowed(h, s) ==
    s.run = h => \A o \in Activations \ {h} :
                     CommandOf[o] = CommandOf[h] => runs[o].status = "absent"

CanSave(h, s) ==
    /\ Guard(Row(h), h, fences[h].command)
    /\ my[h].revision = sess.revision
    /\ OwnsSession(h)
    /\ NewRunAllowed(h, s)

\* The session row, and the row of the run the snapshot names.
WriteSession(h, s) ==
    LET new == [s EXCEPT !.revision = sess.revision + 1]
    IN  /\ sess' = new
        /\ my' = [my EXCEPT ![h] = new]
        /\ runs' = IF s.run = None THEN runs
                   ELSE [runs EXCEPT ![s.run].status = s.runStatus]

\* The command of an interrupted run becomes uncertain, unless it is live or
\* the interrupting command itself.
AbandonOrigin(run, k) ==
    row' = [c \in Commands |->
                IF c = CommandOf[run] /\ c # k /\ Abandonable(row[c])
                THEN Released(row[c], "uncertain") ELSE row[c]]

\* A checkpoint that does not touch the command row.
Save(h, s) ==
    CanSave(h, s) /\ WriteSession(h, s) /\ UNCHANGED row

\* Mutant: a new owner ignores the run it finds running.
InterruptedNever(h) ==
    /\ pc[h] = "owner"
    /\ Goto(h, "prepared")
    /\ UNCHANGED <<row, sess, my, runs, lease, inputs, fences, steps, answer>>

\* An owner that finds a run still running closes it first.
Interrupted(h) ==
    /\ pc[h] = "owner"
    /\ LET s == [my[h] EXCEPT !.runStatus = "interrupted"]
       IN  IF my[h].runStatus = "running"
           THEN CanSave(h, s) /\ WriteSession(h, s) /\ AbandonOrigin(s.run, CommandOf[h])
           ELSE UNCHANGED <<row, sess, my, runs>>
    /\ Goto(h, "prepared")
    /\ UNCHANGED <<lease, inputs, fences, steps, answer>>

\* resume appends its content and reactivates the session, then reports that
\* it was restored; a stream may report its setup (output.verbose_setup).
Resumed(h) ==
    /\ pc[h] = "prepared" /\ Kind[CommandOf[h]] = "resume"
    /\ Save(h, [my[h] EXCEPT !.status = "active"])
    /\ inputs' = [inputs EXCEPT ![CommandOf[h]] = @ + 1]
    /\ Goto(h, "resumed")
    /\ UNCHANGED <<lease, fences, steps, answer>>

Restored(h) ==
    /\ pc[h] = "resumed"
    /\ Save(h, my[h])
    /\ Goto(h, "setup")
    /\ UNCHANGED <<lease, inputs, fences, steps, answer>>

Setup(h) ==
    /\ pc[h] = "setup" \/ (pc[h] = "prepared" /\ Kind[CommandOf[h]] = "stream")
    /\ Save(h, my[h]) \/ UNCHANGED <<row, sess, my, runs>>
    /\ Goto(h, "engine")
    /\ UNCHANGED <<lease, inputs, fences, steps, answer>>

\* "Agent run started": the engine gives the run its identity.
Started(h) ==
    /\ pc[h] = "engine" \/ (pc[h] = "prepared" /\ Kind[CommandOf[h]] = "run")
    /\ Save(h, [my[h] EXCEPT !.run = h, !.runStatus = "running"])
    /\ Goto(h, "emitted")
    /\ UNCHANGED <<lease, inputs, fences, steps, answer>>

\* emit reads cancel_requested after the commit of each checkpoint.
CheckCancel(h) ==
    /\ pc[h] = "emitted"
    /\ Goto(h, IF runs[h].cancel THEN "cancelled"
               ELSE IF my[h].runStatus = "blocked" THEN "blocked"
               ELSE IF my[h].status # "active" THEN "finishing" ELSE "working")
    /\ UNCHANGED <<row, sess, lease, runs, inputs, my, fences, steps, answer>>

\* The stream's emit cannot send the event: the client has gone.
SendFails(h) ==
    /\ pc[h] = "emitted" /\ IsStream(h)
    /\ runs' = [runs EXCEPT ![h].cancel = @ \/ runs[h].status = "running"]
    /\ Goto(h, "cancelled")
    /\ UNCHANGED <<row, sess, lease, inputs, my, fences, steps, answer>>

Step(h) ==
    /\ pc[h] = "working" /\ steps[h] < MaxSteps[h]
    /\ Save(h, my[h])
    /\ steps' = [steps EXCEPT ![h] = @ + 1]
    /\ Goto(h, "emitted")
    /\ UNCHANGED <<lease, inputs, fences, answer>>

\* The engine's own terminal checkpoint: final_result, an error event such as
\* step_limit, or an action that dispatch has blocked.
Concluded(h) ==
    /\ pc[h] = "working"
    /\ \E result \in {"complete", "failed", "blocked"} :
           Save(h, [my[h] EXCEPT !.runStatus = result,
                                 !.status = IF result = "complete" THEN result ELSE "failed"])
    /\ Goto(h, "emitted")
    /\ UNCHANGED <<lease, inputs, fences, steps, answer>>

\* dispatch returns recovery_required without a checkpoint of its own (bound
\* reached); or, in a stream, the engine fails: the model service, an integrity
\* check, or a checkpoint that could not be saved.
EngineStops(h) ==
    /\ \/ pc[h] = "working" /\ Goto(h, "blocked")
       \/ pc[h] \in {"engine", "emitted", "working"} /\ IsStream(h) /\ Goto(h, "failed")
    /\ my' = [my EXCEPT ![h].run = h]
    /\ UNCHANGED <<row, sess, lease, runs, inputs, fences, steps, answer>>

\* The stream cannot tell whether a checkpoint of its engine has committed; the
\* expiry of the command's lease is not consulted.
CommitUnresolved(h) ==
    /\ pc[h] \in {"engine", "emitted", "working"} /\ IsStream(h)
    /\ row' = [row EXCEPT ![CommandOf[h]] =
                   IF @.owner = h /\ @.fence = fences[h].command /\ @.status = "started"
                   THEN Released(@, "uncertain") ELSE @]
    /\ Goto(h, "release")
    /\ answer' = [answer EXCEPT ![h] = "stream"]
    /\ UNCHANGED <<sess, lease, runs, inputs, my, fences, steps>>

\* The outer handler puts its own outcome in place of the engine's; the stream
\* also saves an error event.
RunStopped(h) ==
    /\ pc[h] \in {"cancelled", "blocked", "failed"}
    /\ LET s == [my[h] EXCEPT !.status = "failed", !.runStatus = pc[h]]
       IN  IF IsStream(h) THEN Save(h, s)
           ELSE my' = [my EXCEPT ![h] = s] /\ UNCHANGED <<row, sess, runs>>
    /\ Goto(h, "finishing")
    /\ UNCHANGED <<lease, inputs, fences, steps, answer>>

\* Mutant: the terminal checkpoint does not require the session lease.
FinishedUnowned(h) ==
    /\ pc[h] = "finishing"
    /\ Guard(Row(h), h, fences[h].command)
    /\ WriteSession(h, my[h])
    /\ row' = [row EXCEPT ![CommandOf[h]] =
                   IF my[h].runStatus = "blocked" THEN Released(@, "blocked")
                   ELSE Finished(@, "ok")]
    /\ Goto(h, "release")
    /\ answer' = [answer EXCEPT ![h] = IF IsStream(h) THEN "stream" ELSE "ok"]
    /\ UNCHANGED <<lease, inputs, fences, steps>>

\* run_finished: the last save settles the command in the same transaction.
RunFinished(h) ==
    /\ pc[h] = "finishing" /\ CanSave(h, my[h])
    /\ WriteSession(h, my[h])
    /\ row' = [row EXCEPT ![CommandOf[h]] =
                   IF my[h].runStatus = "blocked" THEN Released(@, "blocked")
                   ELSE Finished(@, "ok")]
    /\ Goto(h, "release")
    /\ answer' = [answer EXCEPT ![h] = IF IsStream(h) THEN "stream" ELSE "ok"]
    /\ UNCHANGED <<lease, inputs, fences, steps>>

\* The text of a rejection for which internal answers 409 (the guard on the
\* command comes first, and a lost claim counts as an error).
Conflict(h) ==
    /\ Guard(Row(h), h, fences[h].command)
    /\ my[h].revision # sess.revision \/ ~OwnsSession(h)

\* A save fails, or the engine of run does.  Before the event stream exists the
\* response is 409 or 500, and run's engine gives 502; the stream's task just
\* stops and leaves its command alone.
Broken(h) ==
    /\ pc[h] \in {"owner", "prepared", "finishing"}
                 \cup (IF IsStream(h)
                       THEN {"resumed", "setup", "cancelled", "blocked", "failed"}
                       ELSE {"emitted", "working"})
    /\ Goto(h, "release")
    /\ LET streaming == /\ IsStream(h) /\ pc[h] # "owner"
                        /\ Kind[CommandOf[h]] = "resume" => pc[h] # "prepared"
           outside   == pc[h] \in {"owner", "finishing"} \/ IsStream(h)
       IN  answer' = [answer EXCEPT ![h] =
               IF streaming THEN "stream"
               ELSE IF Conflict(h) /\ outside THEN "refused" ELSE "error"]
    /\ UNCHANGED <<row, sess, lease, runs, inputs, my, fences, steps>>

\* The handler ignores a release that matches no row or fails.
Release(h) ==
    /\ pc[h] = "release"
    /\ \/ lease.owner = h /\ lease.fence = fences[h].session
          /\ lease' = [lease EXCEPT !.owner = None, !.live = FALSE]
       \/ UNCHANGED lease
    /\ IF h = Reconciler THEN Goto(h, "idle") /\ Forget(h)
       ELSE IF answer[h] = "stream" THEN Goto(h, "done") /\ Forget(h)
       ELSE Goto(h, "settle") /\ UNCHANGED <<my, fences, steps, answer>>
    /\ UNCHANGED <<row, sess, runs, inputs>>

\* The settling UPDATE of admit; when it fails the command stays started.
Settle(h) ==
    /\ pc[h] = "settle"
    /\ \/ Guard(Row(h), h, fences[h].command)
          /\ row' = [row EXCEPT ![CommandOf[h]] =
                         IF answer[h] = "error" THEN Released(@, "uncertain")
                         ELSE Finished(@, answer[h])]
       \/ UNCHANGED row
    /\ Goto(h, "done") /\ Forget(h)
    /\ UNCHANGED <<sess, lease, runs, inputs>>

----------------------------------------------------------------------------
(* Cancellation, reconciliation, time and crashes. *)

\* cancel_session names the run; the disconnect watcher names owner and fence,
\* which no other run has.
Cancel(h) ==
    /\ runs[h].status = "running" /\ ~runs[h].cancel
    /\ runs' = [runs EXCEPT ![h].cancel = TRUE]
    /\ UNCHANGED <<row, sess, lease, inputs, pc, my, fences, steps, answer>>

\* reconcile-runs lists the running runs of unowned sessions, then tries to
\* take the lease of each.
ReconcileSelect ==
    /\ pc[Reconciler] = "idle" /\ LeaseFree /\ lease.fence < MaxFence
    /\ \E h \in Activations :
        /\ runs[h].status = "running"
        /\ my' = [my EXCEPT ![Reconciler].run = h]
    /\ Goto(Reconciler, "loaded")
    /\ UNCHANGED <<row, sess, lease, runs, inputs, fences, steps, answer>>

ReconcileAcquire ==
    /\ pc[Reconciler] = "loaded"
    /\ IF LeaseFree
       THEN TakeLease(Reconciler) /\ Goto(Reconciler, "owner")
       ELSE Goto(Reconciler, "idle") /\ UNCHANGED <<lease, fences>>
    /\ UNCHANGED <<row, sess, runs, inputs, my, steps, answer>>

ReconcileLoad ==
    /\ pc[Reconciler] = "owner"
    /\ my' = [my EXCEPT ![Reconciler] = sess]
    /\ Goto(Reconciler, IF sess.run = my[Reconciler].run /\ sess.runStatus = "running"
                        THEN "working" ELSE "release")
    /\ UNCHANGED <<row, sess, lease, runs, inputs, fences, steps, answer>>

\* Mutant: the reconciler closes the run in the session and forgets its command.
RunReconciledOnly ==
    LET s == [my[Reconciler] EXCEPT !.status = "failed", !.runStatus = "interrupted"]
    IN  /\ pc[Reconciler] = "working"
        /\ my[Reconciler].revision = sess.revision /\ OwnsSession(Reconciler)
        /\ WriteSession(Reconciler, s)
        /\ Goto(Reconciler, "release")
        /\ UNCHANGED <<row, lease, inputs, fences, steps, answer>>

RunReconciled ==
    LET s == [my[Reconciler] EXCEPT !.status = "failed", !.runStatus = "interrupted"]
    IN  /\ pc[Reconciler] = "working"
        /\ my[Reconciler].revision = sess.revision /\ OwnsSession(Reconciler)
        /\ WriteSession(Reconciler, s)
        /\ AbandonOrigin(s.run, None)
        /\ Goto(Reconciler, "release")
        /\ UNCHANGED <<lease, inputs, fences, steps, answer>>

ReconcileBroken ==
    /\ pc[Reconciler] = "working"
    /\ Goto(Reconciler, "release")
    /\ UNCHANGED <<row, sess, lease, runs, inputs, my, fences, steps, answer>>

ExpireSession ==
    /\ lease.live
    /\ lease' = [lease EXCEPT !.live = FALSE]
    /\ UNCHANGED <<row, sess, runs, inputs, pc, my, fences, steps, answer>>

ExpireCommand(k) ==
    /\ row[k].ttl > 0
    /\ row' = [row EXCEPT ![k].ttl = @ - 1]
    /\ UNCHANGED <<sess, lease, runs, inputs, pc, my, fences, steps, answer>>

Crash(h) ==
    /\ pc[h] \notin {"idle", "done", "crashed"}
    /\ Goto(h, "crashed") /\ Forget(h)
    /\ UNCHANGED <<row, sess, lease, runs, inputs>>

Progress(h) ==
    \/ Claim(h) \/ Load(h) \/ Acquire(h)
    \/ Interrupted(h) \/ Resumed(h) \/ Restored(h) \/ Setup(h) \/ Started(h)
    \/ CheckCancel(h) \/ SendFails(h) \/ Step(h) \/ Concluded(h) \/ EngineStops(h)
    \/ CommitUnresolved(h) \/ RunStopped(h) \/ RunFinished(h) \/ Broken(h)
    \/ Release(h) \/ Settle(h)

Reconcile ==
    \/ ReconcileSelect \/ ReconcileAcquire \/ ReconcileLoad \/ RunReconciled \/ ReconcileBroken
    \/ Release(Reconciler)

Next ==
    \/ \E h \in Activations : Progress(h) \/ Cancel(h) \/ Crash(h)
    \/ Reconcile
    \/ ExpireSession
    \/ \E k \in Commands : ExpireCommand(k)

Spec == Init /\ [][Next]_vars

----------------------------------------------------------------------------
(* Properties. *)

\* The shape of the rows and of the activations' memories.
TypeOK ==
    /\ row \in [Commands -> [status : Statuses, owner : Activations \cup {None},
                             fence : Nat, ttl : 0..CommandTicks,
                             response : Responses \cup {None}, admission : Commands]]
    /\ LET Snapshots == [revision : Nat, status : {"active", "complete", "failed"},
                         run : Activations \cup {None},
                         runStatus : Ended \cup {"none", "running"}]
       IN  sess \in Snapshots /\ my \in [Actors -> Snapshots]
    /\ lease \in [owner : Actors \cup {None}, fence : Nat, live : BOOLEAN]
    /\ runs \in [Activations -> [status : Ended \cup {"absent", "running"}, cancel : BOOLEAN]]
    /\ inputs \in [Commands -> Nat]
    /\ pc \in [Actors -> {"idle", "claimed", "loaded", "owner", "prepared", "resumed",
                          "setup", "engine", "emitted", "working", "cancelled", "blocked",
                          "failed", "finishing", "release", "settle", "done", "crashed"}]
    /\ fences \in [Actors -> [command : Nat, session : Nat]]
    /\ steps \in [Activations -> Nat] /\ \A h \in Activations : steps[h] <= MaxSteps[h]
    /\ answer \in [Activations -> {None, "ok", "refused", "error", "stream"}]

\* The run rows and the snapshot agree: at most one run is running, and it is
\* the one the session is executing, after any sequence of crashes, takeovers
\* and reconciliations.
OneRunningRun ==
    \A h \in Activations :
        runs[h].status = "running" <=> sess.run = h /\ sess.runStatus = "running"

\* A command that settled has exactly one run, and that run has ended the way
\* the command says.
SettledMeansEnded ==
    \A k \in Commands :
        LET its == {h \in Activations : CommandOf[h] = k /\ runs[h].status # "absent"}
        IN  /\ Cardinality(its) <= 1
            /\ row[k].status = "succeeded" =>
                \E h \in its : runs[h].status \in {"complete", "failed", "cancelled"}
            /\ row[k].status = "blocked" => \E h \in its : runs[h].status = "blocked"

\* A plain run is cancelled only if its own cancellation was requested.
CancelledWasAsked ==
    \A h \in Activations :
        runs[h].status = "cancelled" /\ ~IsStream(h) => runs[h].cancel

\* A run that a successor or the reconciler has closed, or whose command has
\* settled, is never rewritten by the worker that was replaced.
ClosedRunsStayClosed ==
    [][\A h \in Activations :
        (\/ runs[h].status = "interrupted"
         \/ runs[h].status \in Ended /\ row[CommandOf[h]].status \in {"succeeded", "blocked"})
        => runs'[h].status = runs[h].status]_vars

\* A command whose lease has lapsed when its run is interrupted is made
\* uncertain with it: no retry of the key executes it again.
InterruptionReachesCommand ==
    [][\A h \in Activations :
        /\ runs[h].status = "running" /\ runs'[h].status = "interrupted"
        /\ sess'.run = h /\ Abandonable(Row(h))
        => row'[CommandOf[h]].status = "uncertain"]_vars

\* contract.md:173, a command's "definitive outcome must commit with the
\* corresponding terminal state": what is recorded as refused did not run.
RefusedDidNotRun ==
    \A h \in Activations :
        Row(h).response = "refused" => runs[h].status # "complete"

\* contract.md:234, a command is replayed "without duplicated
\* session/message/run/effect": resume appends its content once.
ResumeInputOnce == \A k \in Commands : inputs[k] <= 1

\* contract.md:89, "Cancellation preserves known outcomes and halts scheduling
\* at a boundary": a committed completion is not turned into a cancellation.
CompletionIsKept ==
    [][\A h \in Activations :
        runs[h].status = "complete" => runs'[h].status = "complete"]_vars
=============================================================================
