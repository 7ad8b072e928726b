---------------------------- MODULE DecisionLoop ----------------------------
(***************************************************************************)
(* The engine of agent-rust/src/engine.rs: the loop of Engine::run over    *)
(* one session, with the workflow, the pending tool batch, the counters    *)
(* that stop it and the checkpoints it commits.                            *)
(*                                                                         *)
(* s is the engine's copy of the session and db the one PostgreSQL has:    *)
(* a checkpoint is db' = s'.  What a step changes after its last           *)
(* checkpoint is in s alone and is lost by a crash, as are the engine's    *)
(* locals.  SessionStore has how a checkpoint commits, ActionLedger what a *)
(* dispatch does, RunLifecycle who may start a run; Conversation has the   *)
(* messages.  A message, an argument or an output is a model value: the    *)
(* outputs of a tool are what the evidence, the result checks and the      *)
(* bindings tell apart.                                                    *)
(***************************************************************************)
EXTENDS Integers, Sequences, FiniteSets

CONSTANTS Tools,          \* registered functions
          Outputs,        \* what a tool may return
          ErrorOutputs,   \* the outputs that start with ERROR:
          Phases,         \* phase ids; empty for a task without a workflow
          Entry,          \* entry_phase
          Phase,          \* per phase: allowed, completion, edges
          Checks,         \* result checks: label -> tool and wanted output
          Bindings,       \* argument bindings: set of [tool, label]
          ToolPolicy,     \* "auto" or "none"
          MaxInvalid,     \* max_consecutive_invalid_responses
          MaxIdle,        \* max_no_progress_steps; 0 stands for null
          Requested,      \* the max_steps a request may carry; 0 is none
          RunMaxSteps,    \* memory.run_max_steps; 0 is none
          DefaultSteps,   \* memory.max_steps
          SeenCap,        \* the 64 of record_progress_output
          Requests,       \* the calls the model may ask for
          MaxBatch,       \* bound: calls in one decision
          MaxDecisions,   \* bound: decisions after which no run starts
          MaxCrashes,     \* bound: crashes of the process
          Interruptible,  \* whether cancellation and blocked actions happen
          None

Evidence == [tool : Tools, out : Outputs, required : BOOLEAN]
Edge == [to : Phases \cup {"complete"},
         when : {"always", "phase_complete", "evidence"}, evidence : Seq(Evidence)]

\* validate_config: the limits of a run.
ValidLimits ==
    /\ ToolPolicy \in {"auto", "none"} /\ DefaultSteps \in Nat \ {0}
    /\ MaxInvalid \in 1..50 /\ MaxIdle \in Nat \ {1}

\* validate_config: checks and bindings name what is declared; an argument (a
\* call has one here) has one binding.
ValidChecks ==
    /\ \A k \in DOMAIN Checks : Checks[k] \in [tool : Tools, outs : SUBSET Outputs]
    /\ Bindings \subseteq [tool : Tools, label : DOMAIN Checks]
    /\ \A b, c \in Bindings : b.tool = c.tool => b = c

\* validate_config: the workflow.
ValidWorkflow ==
    Phases # {} =>
      /\ Entry \in Phases
      /\ \A p \in Phases :
            /\ Phase[p].allowed = None \/ Phase[p].allowed \subseteq Tools
            /\ Phase[p].completion \in Seq(Evidence) /\ Phase[p].edges \in Seq(Edge)
            /\ \A n \in DOMAIN Phase[p].edges :
                  Phase[p].edges[n].when = "evidence" => Phase[p].edges[n].evidence # <<>>

\* The configuration has passed validate_config; a phase named "complete",
\* which it does not refuse, is left out.
ASSUME ConfigAssumption ==
    /\ ValidLimits /\ ValidChecks /\ ValidWorkflow
    /\ ErrorOutputs \subseteq Outputs /\ RunMaxSteps \in Nat /\ Requested \subseteq Nat
    /\ SeenCap \in Nat \ {0} /\ {MaxBatch, MaxDecisions, MaxCrashes} \subseteq Nat
    /\ Requests \subseteq [tool : Tools, arg : Outputs \cup {None}, wellFormed : BOOLEAN]
    /\ Interruptible \in BOOLEAN
    /\ None \notin Phases \cup Outputs /\ "complete" \notin Phases /\ "unset" \notin Phases

Labels == DOMAIN Checks
HasWorkflow == Phases # {}

VARIABLES s,        \* the engine's session
          db,       \* the committed session
          pc,       \* where the engine is; "idle" when no run is going on
          limit,    \* step_count at which this run stops
          before,   \* progress_before of the decision
          rejected, \* batch_rejected of settle_pending
          crashes   \* crashes so far

(* History, read by the properties only: what tools have returned; the     *)
(* responses refused in a row since the last good one, and whether the     *)
(* present batch is one of them; the decisions in a row after which        *)
(* nothing new was known.                                                  *)
VARIABLES ran, refused, stale

vars == <<s, db, pc, limit, before, rejected, crashes, ran, refused, stale>>

NoSession ==
    [status |-> "active", run |-> "idle", step |-> 0,
     phase |-> "unset", done |-> {}, ev |-> {}, art |-> [k \in Labels |-> None],
     invalid |-> 0, idle |-> 0, seen |-> <<>>,
     pending |-> <<>>, pendingPhase |-> None, answer |-> None]

----------------------------------------------------------------------------
(* The workflow *)

Complete(t) == ~HasWorkflow \/ t.phase = None
ActivePhase(t) == IF t.phase \in Phases THEN t.phase ELSE None

Key(p, group, i) == <<p, group, i>>

\* Indexes of the required completion evidence not observed yet.
Missing(t, p) ==
    {i \in DOMAIN Phase[p].completion :
        Phase[p].completion[i].required /\ Key(p, 0, i) \notin t.ev}

EdgeOpen(t, p, n) ==
    LET e == Phase[p].edges[n]
    IN CASE e.when = "always" -> TRUE
         [] e.when = "phase_complete" -> Missing(t, p) = {}
         [] OTHER -> \A i \in DOMAIN e.evidence : Key(p, n, i) \in t.ev

OpenEdges(t, p) == {n \in DOMAIN Phase[p].edges : EdgeOpen(t, p, n)}

\* The session after advance: the first open edge of the active phase.
Advanced(t) ==
    IF ~HasWorkflow THEN t
    ELSE LET u == IF t.phase = "unset" THEN [t EXCEPT !.phase = Entry] ELSE t
             open == IF u.phase = None THEN {} ELSE OpenEdges(u, u.phase)
         IN IF open = {} THEN u
            ELSE LET n == CHOOSE m \in open : \A o \in open : m <= o
                     to == Phase[u.phase].edges[n].to
                 IN [u EXCEPT !.done = @ \cup {u.phase},
                              !.phase = IF to = "complete" THEN None ELSE to]

AllowedInPhase(p, tool) ==
    IF Phase[p].allowed = None
    THEN \E i \in DOMAIN Phase[p].completion : Phase[p].completion[i].tool = tool
    ELSE tool \in Phase[p].allowed

\* Evidence of a group that this call and this output establish.
Matching(items, p, group, call, out) ==
    {Key(p, group, i) : i \in {j \in DOMAIN items :
                                 items[j].tool = call.tool /\ items[j].out = out}}

\* record: evidence goes to the phase that is active now.
Recorded(t, call, out) ==
    IF t.phase \notin Phases THEN t.ev
    ELSE t.ev \cup Matching(Phase[t.phase].completion, t.phase, 0, call, out)
              \cup UNION {Matching(Phase[t.phase].edges[n].evidence, t.phase, n, call, out) :
                            n \in DOMAIN Phase[t.phase].edges}

----------------------------------------------------------------------------
(* Artifacts, bindings and progress *)

\* capture_artifacts: the artifact keeps the step and the call it came from.
Captured(t, call, out) ==
    [k \in Labels |->
        IF out \notin ErrorOutputs /\ Checks[k].tool = call.tool /\ out \in Checks[k].outs
        THEN [value |-> out, step |-> t.step, left |-> Len(t.pending)]
        ELSE t.art[k]]

\* binding_error
BindingBroken(t, call) ==
    \E b \in Bindings :
        /\ b.tool = call.tool
        /\ t.art[b.label] # None => call.arg \notin {None, t.art[b.label].value}

\* action_rejection, with the phase the batch was scheduled in.
ActionRejected(t, fixedPhase, call) ==
    \/ ~call.wellFormed
    \/ ToolPolicy = "none"
    \/ IF fixedPhase = None THEN HasWorkflow ELSE ~AllowedInPhase(fixedPhase, call.tool)
    \/ BindingBroken(t, call)

\* record_progress_output: the newest SeenCap distinct outputs, without a workflow.
Seen(t, call, out) ==
    LET x == <<call.tool, call.arg, out>>
        all == IF \E i \in DOMAIN t.seen : t.seen[i] = x THEN t.seen ELSE Append(t.seen, x)
    IN IF t.phase # "unset" \/ out \in ErrorOutputs THEN t.seen
       ELSE IF Len(all) > SeenCap THEN SubSeq(all, Len(all) - SeenCap + 1, Len(all)) ELSE all

\* progress_fingerprint: of the workflow (which no decision advances), the
\* artifacts and, without a workflow, the outputs seen.
Fingerprint(t) == [phase |-> t.phase, done |-> t.done, ev |-> t.ev, art |-> t.art,
                   seen |-> IF HasWorkflow THEN <<>> ELSE t.seen]

\* The same without the call an artifact came from: what is known.
Known(f) == [f EXCEPT !.art = [k \in Labels |-> IF f.art[k] = None THEN None ELSE f.art[k].value],
                      !.seen = {f.seen[i] : i \in DOMAIN f.seen}]

\* Mutant: the open workflow does not hold the answer back.
AnswerAcceptedEarly(t, answer) ==
    answer.presentable /\ \A k \in Labels : t.art[k] # None /\ answer.says[k] = t.art[k].value

\* completion_errors of an answer: what it says of each check, and whether the
\* exact, pattern, schema and forbidden-content rules accept it.
AnswerAccepted(t, answer) ==
    /\ Complete(t) /\ answer.presentable
    /\ \A k \in Labels : t.art[k] # None /\ answer.says[k] = t.art[k].value

\* run_allowance
Allowance(requested) ==
    IF requested > 0 THEN requested ELSE IF RunMaxSteps > 0 THEN RunMaxSteps ELSE DefaultSteps

Failed(t) == [t EXCEPT !.status = "failed", !.run = "failed"]

\* increment_invalid
CountInvalid(t) ==
    LET u == [t EXCEPT !.invalid = @ + 1]
    IN IF u.invalid < MaxInvalid THEN u ELSE Failed(u)

----------------------------------------------------------------------------
NoneRefused == [count |-> 0, batch |-> FALSE]

Init ==
    /\ s = NoSession /\ db = NoSession
    /\ pc = "idle" /\ limit = 0 /\ before = Fingerprint(NoSession) /\ rejected = FALSE
    /\ crashes = 0
    /\ ran = {} /\ refused = NoneRefused /\ stale = 0

Checkpoint(t) == s' = t /\ db' = t
Memory(t) == s' = t /\ UNCHANGED db

\* The run and stream handlers: an active session, whose abandoned run is
\* interrupted first (one save).
StartRun ==
    /\ pc = "idle" /\ db.status = "active" /\ db.step < MaxDecisions
    /\ Checkpoint(IF db.run = "running" THEN [db EXCEPT !.run = "interrupted"] ELSE db)
    /\ pc' = "begin"
    /\ UNCHANGED <<limit, before, rejected, crashes, ran, refused, stale>>

\* The resume handler: any session, reset_resume_counters, session_resumed.
Resume ==
    /\ pc = "idle" /\ db.step < MaxDecisions
    /\ Checkpoint([db EXCEPT !.run = IF @ = "running" THEN "interrupted" ELSE @,
                             !.status = "active", !.answer = None,
                             !.invalid = 0, !.idle = 0])
    /\ pc' = "begin" /\ refused' = NoneRefused /\ stale' = 0
    /\ UNCHANGED <<limit, before, rejected, crashes, ran>>

\* Mutant: a batch left by an earlier run waits for the next decision.
BeginWithoutSettle ==
    /\ pc = "begin"
    /\ \E r \in Requested : limit' = s.step + Allowance(r)
    /\ Checkpoint([s EXCEPT !.run = "running"])
    /\ pc' = "loop"
    /\ before' = Fingerprint(s) /\ rejected' = FALSE
    /\ UNCHANGED <<crashes, ran, refused, stale>>

\* Engine::run up to its loop: a pending batch is settled before anything else.
Begin ==
    /\ pc = "begin"
    /\ \E r \in Requested : limit' = s.step + Allowance(r)
    /\ Checkpoint([s EXCEPT !.run = "running"])
    /\ pc' = IF s.pending # <<>> THEN "settle" ELSE "loop"
    /\ before' = Fingerprint(s) /\ rejected' = FALSE
    /\ UNCHANGED <<crashes, ran, refused, stale>>

\* advance, committed when a transition was taken.
Advance ==
    /\ pc = "loop" /\ s.status = "active" /\ s.step < limit
    /\ LET t == Advanced(s)
       IN IF t.done # s.done \/ (s.phase \in Phases /\ t.phase # s.phase)
          THEN Checkpoint(t) ELSE Memory(t)
    /\ pc' = "compact"
    /\ UNCHANGED <<limit, before, rejected, crashes, ran, refused, stale>>

\* compact, then the checkpoint before the model is asked.
Compact ==
    /\ pc = "compact"
    /\ \/ Checkpoint(s) /\ pc' = "decide"
       \/ Checkpoint(Failed(s)) /\ pc' = "loop"     \* the request cannot be sent
    /\ before' = Fingerprint(s)
    /\ UNCHANGED <<limit, rejected, crashes, ran, refused, stale>>

Stepped(t) == [t EXCEPT !.step = @ + 1]

\* Mutant: a provider failure is reported but not counted.
DecideInvalidUncounted ==
    /\ pc = "decide"
    /\ Checkpoint(Stepped(s))
    /\ refused' = [refused EXCEPT !.count = @ + 1] /\ pc' = "observe"
    /\ UNCHANGED <<limit, before, rejected, crashes, ran, stale>>

\* No usable response: a provider failure or an unusable message.
DecideInvalid ==
    /\ pc = "decide"
    /\ Checkpoint(CountInvalid(Stepped(s)))
    /\ refused' = [refused EXCEPT !.count = @ + 1] /\ pc' = "observe"
    /\ UNCHANGED <<limit, before, rejected, crashes, ran, stale>>

Answers == [presentable : BOOLEAN, says : [Labels -> Outputs]]

\* A final answer that completion_errors refuses: the rejection is committed
\* first and counted afterwards.
DecideRefusedFinal ==
    /\ pc = "decide" /\ \E a \in Answers : ~AnswerAccepted(s, a)
    /\ Checkpoint(Stepped(s))
    /\ refused' = [refused EXCEPT !.count = @ + 1] /\ pc' = "count"
    /\ UNCHANGED <<limit, before, rejected, crashes, ran, stale>>

CountRefusedFinal ==
    /\ pc = "count"
    /\ LET t == CountInvalid(s)
       IN IF t.status = "failed" THEN Checkpoint(t) ELSE Memory(t)
    /\ pc' = "observe"
    /\ UNCHANGED <<limit, before, rejected, crashes, ran, refused, stale>>

DecideFinal ==
    /\ pc = "decide"
    /\ \E a \in Answers :
          /\ AnswerAccepted(s, a)
          /\ Checkpoint([Stepped(s) EXCEPT !.status = "complete", !.run = "complete",
                                           !.answer = a.says, !.invalid = 0, !.idle = 0])
    /\ pc' = "loop" /\ refused' = NoneRefused
    /\ UNCHANGED <<limit, before, rejected, crashes, ran, stale>>

\* parse_decision keeps every call of a response, and marks one that is malformed.
Batches == UNION {[1..n -> Requests] : n \in 1..MaxBatch}

\* A batch is scheduled: the phase it may act in is fixed now.
DecideTools ==
    /\ pc = "decide"
    /\ \E calls \in Batches :
          Checkpoint([Stepped(s) EXCEPT !.pending = calls, !.pendingPhase = ActivePhase(s)])
    /\ pc' = "settle" /\ rejected' = FALSE
    /\ refused' = [refused EXCEPT !.batch = FALSE]
    /\ UNCHANGED <<limit, before, crashes, ran, stale>>

----------------------------------------------------------------------------
(* settle_pending *)

\* The first call leaves the batch with its result.
CallDone(t) ==
    [t EXCEPT !.pending = Tail(@),
              !.pendingPhase = IF Len(t.pending) = 1 THEN None ELSE @]

SettleRejected ==
    /\ pc = "settle" /\ s.pending # <<>>
    /\ ActionRejected(s, s.pendingPhase, Head(s.pending))
    /\ Checkpoint(CallDone(s))
    /\ rejected' = TRUE
    /\ refused' = [count |-> refused.count + (IF refused.batch THEN 0 ELSE 1), batch |-> TRUE]
    /\ UNCHANGED <<pc, limit, before, crashes, ran, stale>>

\* Mutant: the guard trusts the registered tools, not the phase of the batch.
SettleExecutedAnyPhase(out) ==
    LET call == Head(s.pending)
    IN /\ pc = "settle" /\ s.pending # <<>> /\ call.wellFormed
       /\ Checkpoint(CallDone([s EXCEPT !.art = Captured(s, call, out),
                                        !.seen = Seen(s, call, out),
                                        !.ev = Recorded(s, call, out)]))
       /\ ran' = ran \cup {<<call.tool, out>>}
       /\ UNCHANGED <<pc, limit, before, rejected, crashes, refused, stale>>

SettleExecuted(out) ==
    LET call == Head(s.pending)
    IN /\ pc = "settle" /\ s.pending # <<>>
       /\ ~ActionRejected(s, s.pendingPhase, call)
       /\ Checkpoint(CallDone([s EXCEPT !.art = Captured(s, call, out),
                                        !.seen = Seen(s, call, out),
                                        !.ev = Recorded(s, call, out)]))
       /\ ran' = ran \cup {<<call.tool, out>>}
       /\ UNCHANGED <<pc, limit, before, rejected, crashes, refused, stale>>

\* dispatch ended with recovery_required: the handler blocks the session.
SettleBlocked ==
    /\ pc = "settle" /\ s.pending # <<>> /\ Interruptible
    /\ ~ActionRejected(s, s.pendingPhase, Head(s.pending))
    /\ Checkpoint([s EXCEPT !.status = "failed", !.run = "blocked"])
    /\ pc' = "idle"
    /\ UNCHANGED <<limit, before, rejected, crashes, ran, refused, stale>>

\* The end of the batch: a rejected call makes it one invalid response.
SettleEnd ==
    /\ pc = "settle" /\ s.pending = <<>>
    /\ IF rejected THEN Checkpoint(CountInvalid(s)) ELSE Memory([s EXCEPT !.invalid = 0])
    /\ refused' = IF refused.batch THEN refused ELSE NoneRefused
    /\ pc' = "observe"
    /\ UNCHANGED <<limit, before, rejected, crashes, ran, stale>>

----------------------------------------------------------------------------
\* observe_progress: the warning is committed, and so is the end of the run;
\* otherwise the count waits for the next checkpoint.
Observe ==
    /\ pc = "observe"
    /\ LET moved == Fingerprint(s) # before
           idle == IF moved THEN 0 ELSE s.idle + 1
           t == [s EXCEPT !.idle = idle]
           warn == idle = IF MaxIdle \div 2 > 1 THEN MaxIdle \div 2 ELSE 1
       IN IF moved \/ MaxIdle = 0 THEN Memory(t)
          ELSE IF idle >= MaxIdle THEN Checkpoint(Failed(t))
          ELSE IF warn THEN Checkpoint(t) ELSE Memory(t)
    /\ stale' = IF Known(Fingerprint(s)) = Known(before) THEN stale + 1 ELSE 0
    /\ pc' = "loop"
    /\ UNCHANGED <<limit, before, rejected, crashes, ran, refused>>

\* Mutant: the step limit leaves the task active and the run open.
FinishTerminalOnly ==
    /\ pc = "loop" /\ s.status # "active"
    /\ Checkpoint(s)
    /\ pc' = "idle"
    /\ UNCHANGED <<limit, before, rejected, crashes, ran, refused, stale>>

\* The loop is over; the step limit is a failure; the handler commits
\* run_finished.
Finish ==
    /\ pc = "loop" /\ (s.status # "active" \/ s.step >= limit)
    /\ Checkpoint(IF s.status = "active" THEN Failed(s) ELSE s)
    /\ pc' = "idle"
    /\ UNCHANGED <<limit, before, rejected, crashes, ran, refused, stale>>

\* emit saw the cancellation after its commit: either handler commits the end.
Cancelled ==
    /\ pc \notin {"idle", "begin"} /\ Interruptible /\ s = db
    /\ Checkpoint([s EXCEPT !.status = "failed", !.run = "cancelled", !.answer = None])
    /\ pc' = "idle"
    /\ UNCHANGED <<limit, before, rejected, crashes, ran, refused, stale>>

\* The engine returns another error to the stream handler (a checkpoint failed,
\* or the query after its commit): the handler saves the engine's session as it
\* is, with what the last checkpoint did not commit, as a failed run.
EngineFails ==
    /\ pc # "idle" /\ Interruptible
    /\ Checkpoint([s EXCEPT !.status = "failed", !.run = "failed", !.answer = None])
    /\ pc' = "idle"
    /\ UNCHANGED <<limit, before, rejected, crashes, ran, refused, stale>>

\* The process dies; or the engine returns an error to the run handler, which
\* then saves nothing; or the save of an error fails as well.
Crash ==
    /\ pc # "idle" /\ crashes < MaxCrashes
    /\ crashes' = crashes + 1
    /\ s' = db /\ pc' = "idle"
    /\ UNCHANGED <<db, limit, before, rejected, ran, refused, stale>>

\* What the engine does by itself, with the model and with PostgreSQL.
EngineStep ==
    \/ Begin \/ Advance \/ Compact
    \/ DecideInvalid \/ DecideRefusedFinal \/ CountRefusedFinal \/ DecideFinal \/ DecideTools
    \/ SettleRejected \/ SettleEnd
    \/ Observe \/ Finish

\* dispatch comes back from the tool it has called, or refuses to call it.
ToolReturns == (\E out \in Outputs : SettleExecuted(out)) \/ SettleBlocked

Next == StartRun \/ Resume \/ EngineStep \/ ToolReturns \/ Cancelled \/ EngineFails \/ Crash

\* The handler's task runs until the engine returns.  Its own steps are fair: a
\* request to the model has a timeout; PostgreSQL is assumed to answer and the
\* client of a stream to read or to leave (EventStream has one that does
\* neither).  A tool has no timeout: nothing makes ToolReturns happen.
Spec == Init /\ [][Next]_vars /\ WF_vars(EngineStep)

----------------------------------------------------------------------------
(* Properties *)

Artifacts == [value : Outputs, step : Nat, left : Nat] \cup {None}
Sessions ==
    [status : {"active", "complete", "failed"},
     run : {"idle", "running", "complete", "failed", "cancelled", "blocked", "interrupted"},
     step : Nat, phase : Phases \cup {None, "unset"}, done : SUBSET Phases,
     ev : SUBSET (Phases \X Nat \X Nat), art : [Labels -> Artifacts],
     invalid : Nat, idle : Nat, seen : Seq(Tools \X (Outputs \cup {None}) \X Outputs),
     pending : Seq(Requests), pendingPhase : Phases \cup {None},
     answer : [Labels -> Outputs] \cup {None}]

\* The session, in the engine and in the database, and the engine's locals.
TypeOK ==
    /\ s \in Sessions /\ db \in Sessions
    /\ pc \in {"idle", "begin", "loop", "compact", "decide", "count", "settle", "observe"}
    /\ limit \in Nat /\ rejected \in BOOLEAN /\ crashes \in 0..MaxCrashes
    /\ ran \subseteq Tools \X Outputs
    /\ refused \in [count : Nat, batch : BOOLEAN] /\ stale \in Nat

\* The phase that settle_pending tests a call against is the phase whose
\* evidence record adds to, whatever crashes, cancellations and resumes lie
\* between the scheduling of the batch and its last call.
PhaseOfBatch ==
    /\ s.pending # <<>> => s.pendingPhase = ActivePhase(s)
    /\ db.pending # <<>> => db.pendingPhase = ActivePhase(db)

\* Once the workflow has taken its terminal edge no tool is invoked, also not
\* for a batch that an earlier run left behind (contract.md, final-only state).
NoToolAfterTerminal == [][HasWorkflow /\ s.phase = None => ran' = ran]_vars

\* Evidence, also that of a session loaded after a crash, comes from a tool
\* that returned the configured output; a completed session has no phase and
\* no call left, and its answer says of every check what a tool returned.
EvidenceOf(key) ==
    IF key[2] = 0 THEN Phase[key[1]].completion[key[3]]
    ELSE Phase[key[1]].edges[key[2]].evidence[key[3]]

CompletionIsEarned ==
    /\ \A key \in s.ev : <<EvidenceOf(key).tool, EvidenceOf(key).out>> \in ran
    /\ db.status = "complete" =>
         /\ Complete(db) /\ db.pending = <<>>
         /\ \A k \in Labels : <<Checks[k].tool, db.answer[k]>> \in ran

\* What the workflow has established in the database is never lost: not by a
\* crash, a cancellation, a failed run or a resume.
EvidenceIsKept == [][db.ev \subseteq db'.ev /\ db.done \subseteq db'.done]_vars

\* A session that is not active has no running run in the database, at every
\* checkpoint and not only when the run is over.
TerminalClosesRun == db.status # "active" => db.run # "running"

\* When the model is asked again, the invalid-response counter is the number of
\* responses refused in a row, and it is below its limit (increment_invalid,
\* settle_pending; contract.md: durable progress/resume accounting must agree).
InvalidAgrees == pc = "decide" => s.invalid = refused.count /\ refused.count < MaxInvalid

\* The same where processes crash: the count and its reset are in memory until
\* the next checkpoint, so only a crash may make them differ, and the model is
\* never asked once the counter is at its limit.
InvalidAgreesUnlessCrash ==
    pc = "decide" => s.invalid < MaxInvalid /\ (crashes = 0 => s.invalid = refused.count)

\* As InvalidAgrees, for decisions after which no output, artifact value or evidence is
\* known that was not known before (observe_progress).
IdleAgrees == pc = "decide" /\ MaxIdle > 0 => s.idle = stale /\ stale < MaxIdle

\* The engine waits for a tool: the next call of the batch was not rejected.
InTool ==
    /\ pc = "settle" /\ s.pending # <<>>
    /\ ~ActionRejected(s, s.pendingPhase, Head(s.pending))

\* Every run that starts ends, or waits for good for one tool that does not
\* return: its allowance and the limits on invalid responses and on decisions
\* without progress stop the loop.
RunEnds == pc # "idle" ~> (pc = "idle" \/ []InTool)
=============================================================================
