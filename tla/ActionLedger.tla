---------------------------- MODULE ActionLedger ----------------------------
(***************************************************************************)
(* One logical action of a session and its dispatch by successive owners   *)
(* (agent-rust/src/actions.rs, and write_tool_executions of main.rs): the  *)
(* frozen intent, the attempts recorded around the external call, and the  *)
(* recovery a successor may perform under the action's policy.             *)
(*                                                                         *)
(* A checkpoint is one step: SessionStore shows that a save commits only   *)
(* for the owner of the session and from the newest state.  A worker that  *)
(* loses the session, the connection or the run (cancellation) stops,      *)
(* before or after the commit of its checkpoint; a worker that was         *)
(* replaced goes on until its next checkpoint, external call included.     *)
(***************************************************************************)
EXTENDS Naturals, Sequences, FiniteSets

CONSTANTS Workers,       \* handler activations that reach the pending call
          Modes,         \* recovery modes to consider
          MaxAttempts,   \* policy.max_attempts
          None

ASSUME ActionAssumption ==
    /\ Modes \subseteq {"read_only", "repeatable", "idempotent", "reconcile"}
    /\ MaxAttempts \in Nat \ {0}
    /\ None \notin Workers

VARIABLES policy,     \* [mode, fixture]: recovery mode, keyed recipient or not
          exec,       \* agent_tool_executions: status, attempts, result
          attempts,   \* agent_action_attempts by attempt_number
          pending,    \* is the call still in Session.pending_tool_calls?
          delivered,  \* tool results appended to the transcript
          owner,      \* the worker that owns the session
          pc, mine, known, got,  \* worker: position, copies of exec and
                                 \* attempts, result of its call
          calls,      \* history: external calls made
          effects     \* history: effects at the recipient

ledger == <<exec, attempts, pending, delivered>>
vars == <<policy, ledger, owner, pc, mine, known, got, calls, effects>>

Terminal == {"succeeded", "failed"}
SafeToRepeat ==
    \/ policy.mode \in {"read_only", "repeatable"}
    \/ policy.mode = "idempotent" /\ policy.fixture

Init ==
    /\ policy \in [mode : Modes, fixture : BOOLEAN]
    /\ exec = [status |-> "absent", attempts |-> 0, result |-> None]
    /\ attempts = <<>> /\ pending = TRUE /\ delivered = <<>>
    /\ owner = None
    /\ pc = [w \in Workers |-> "idle"]
    /\ mine = [w \in Workers |-> exec]
    /\ known = [w \in Workers |-> <<>>]
    /\ got = [w \in Workers |-> None]
    /\ calls = 0 /\ effects = 0

\* A run acquires the session (first, or after its owner's lease expired) and
\* finds the call pending.
TakeOver(w) ==
    /\ pc[w] = "idle" /\ pending
    /\ owner' = w
    /\ mine' = [mine EXCEPT ![w] = exec]
    /\ known' = [known EXCEPT ![w] = attempts]
    /\ pc' = [pc EXCEPT ![w] = IF exec.status = "absent" THEN "intent" ELSE "recover"]
    /\ UNCHANGED <<policy, ledger, got, calls, effects>>

Stop(w) ==
    /\ pc[w] \notin {"idle", "stopped"}
    /\ pc' = [pc EXCEPT ![w] = "stopped"]
    /\ UNCHANGED <<policy, ledger, owner, mine, known, got, calls, effects>>

\* write_tool_executions: bounds, monotone counts, immutable outcomes.
Acceptable(e, recs) ==
    /\ e.attempts <= MaxAttempts /\ e.attempts >= exec.attempts
    /\ exec.status \in Terminal => e.status = exec.status /\ e.result = exec.result
    /\ \A i \in DOMAIN attempts :
        /\ recs[i].kind = attempts[i].kind
        /\ attempts[i].status # "started" => recs[i] = attempts[i]

\* Mutant: a checkpoint that is neither fenced nor validated.
CheckpointUnchecked(w, e, recs, next) ==
    /\ exec' = e /\ attempts' = recs
    /\ mine' = [mine EXCEPT ![w] = e]
    /\ known' = [known EXCEPT ![w] = recs]
    /\ pc' \in {[pc EXCEPT ![w] = next], [pc EXCEPT ![w] = "stopped"]}

\* stage, audit and checkpoint.  The worker may stop right after the commit.
Checkpoint(w, e, recs, next) ==
    /\ owner = w /\ Acceptable(e, recs)
    /\ exec' = e /\ attempts' = recs
    /\ mine' = [mine EXCEPT ![w] = e]
    /\ known' = [known EXCEPT ![w] = recs]
    /\ pc' \in {[pc EXCEPT ![w] = next], [pc EXCEPT ![w] = "stopped"]}

Started(kind) == [kind |-> kind, status |-> "started"]

\* The newest attempt gets its outcome.
SettleLast(recs, status) == [recs EXCEPT ![Len(recs)].status = status]

----------------------------------------------------------------------------
(* dispatch *)

Intent(w) ==
    /\ pc[w] = "intent"
    /\ Checkpoint(w, [mine[w] EXCEPT !.status = "pending"], known[w], "decide")
    /\ UNCHANGED <<policy, pending, delivered, owner, got, calls, effects>>

\* A recorded outcome is reused.
Reuse(w) ==
    /\ pc[w] = "recover" /\ mine[w].status \in Terminal
    /\ got' = [got EXCEPT ![w] = mine[w].result]
    /\ pc' = [pc EXCEPT ![w] = "returned"]
    /\ UNCHANGED <<policy, ledger, owner, mine, known, calls, effects>>

\* Attempts a former owner left open become uncertain before anything else.
CloseOpenAttempts(w) ==
    /\ pc[w] = "recover" /\ mine[w].status \notin Terminal
    /\ IF \E i \in DOMAIN known[w] : known[w][i].status = "started"
       THEN Checkpoint(w, mine[w],
                       [i \in DOMAIN known[w] |->
                            IF known[w][i].status = "started"
                            THEN [known[w][i] EXCEPT !.status = "uncertain"]
                            ELSE known[w][i]], "decide")
       ELSE pc' = [pc EXCEPT ![w] = "decide"] /\ UNCHANGED <<exec, attempts, mine, known>>
    /\ UNCHANGED <<policy, pending, delivered, owner, got, calls, effects>>

MustVerify(w) ==
    mine[w].status # "pending" /\ policy.mode = "reconcile" /\ policy.fixture

VerifyStart(w) ==
    /\ pc[w] = "decide" /\ MustVerify(w)
    /\ Checkpoint(w, mine[w], Append(known[w], Started("verify")), "verify")
    /\ UNCHANGED <<policy, pending, delivered, owner, got, calls, effects>>

\* Mutant: an absent receipt is read as a success as well.
VerifyOptimistic(w) ==
    /\ pc[w] = "verify"
    /\ Checkpoint(w, [mine[w] EXCEPT !.status = "succeeded", !.result = "done"],
                  SettleLast(known[w], "succeeded"), "returned")
    /\ got' = [got EXCEPT ![w] = "done"]
    /\ UNCHANGED <<policy, pending, delivered, owner, calls, effects>>

\* The recipient's receipt proves the outcome; its absence, or a failed read,
\* proves nothing.
VerifyFound(w) ==
    /\ pc[w] = "verify" /\ effects > 0
    /\ Checkpoint(w, [mine[w] EXCEPT !.status = "succeeded", !.result = "done"],
                  SettleLast(known[w], "succeeded"), "returned")
    /\ got' = [got EXCEPT ![w] = "done"]
    /\ UNCHANGED <<policy, pending, delivered, owner, calls, effects>>

VerifyUnknown(w) ==
    /\ pc[w] = "verify"
    /\ Checkpoint(w, mine[w], SettleLast(known[w], "uncertain"), "block")
    /\ UNCHANGED <<policy, pending, delivered, owner, got, calls, effects>>

\* No safe recovery: the execution and the run are blocked.
Block(w) ==
    /\ \/ pc[w] = "block"
       \/ pc[w] = "decide" /\ ~MustVerify(w)
                           /\ mine[w].status # "pending" /\ ~SafeToRepeat
    /\ Checkpoint(w, [mine[w] EXCEPT !.status = "blocked"], known[w], "stopped")
    /\ UNCHANGED <<policy, pending, delivered, owner, got, calls, effects>>

\* Mutant: an uncertain action is repeated whatever its policy says.
MayDispatchAlways(w) == mine[w].attempts < MaxAttempts

MayDispatch(w) ==
    /\ mine[w].status = "pending" \/ SafeToRepeat
    /\ mine[w].attempts < MaxAttempts
    /\ policy.mode = "idempotent" => policy.fixture

\* "dispatch bound reached" or "no trusted recipient guarantee".
RecoveryRequired(w) ==
    /\ pc[w] = "decide" /\ ~MayDispatch(w)
    /\ mine[w].status = "pending" \/ SafeToRepeat
    /\ pc' = [pc EXCEPT ![w] = "stopped"]
    /\ UNCHANGED <<policy, ledger, owner, mine, known, got, calls, effects>>

\* Mutant: the call is made first and recorded afterwards.
StartUnrecorded(w) ==
    /\ pc[w] = "decide" /\ MayDispatch(w)
    /\ pc' = [pc EXCEPT ![w] = "call"]
    /\ mine' = [mine EXCEPT ![w].status = "started", ![w].attempts = @ + 1]
    /\ known' = [known EXCEPT ![w] = Append(@, Started("dispatch"))]
    /\ UNCHANGED <<policy, ledger, owner, got, calls, effects>>

\* The started attempt is durable before the call.
Start(w) ==
    /\ pc[w] = "decide" /\ MayDispatch(w)
    /\ Checkpoint(w, [mine[w] EXCEPT !.status = "started", !.attempts = @ + 1],
                  Append(known[w], Started("dispatch")), "call")
    /\ UNCHANGED <<policy, pending, delivered, owner, got, calls, effects>>

\* recipient inserts its receipt at most once and its answer can be lost; other
\* tools always return text, which may report an error.
Call(w) ==
    /\ pc[w] = "call"
    /\ calls' = calls + 1
    /\ IF policy.fixture
       THEN \/ effects' = 1 /\ got' \in {[got EXCEPT ![w] = "done"], [got EXCEPT ![w] = "lost"]}
            \/ effects' = effects /\ got' = [got EXCEPT ![w] = "lost"]
       ELSE \/ effects' = effects + 1 /\ got' = [got EXCEPT ![w] = "done"]
            \/ effects' \in {effects, effects + 1} /\ got' = [got EXCEPT ![w] = "error"]
    /\ pc' = [pc EXCEPT ![w] = "settle"]
    /\ UNCHANGED <<policy, ledger, owner, mine, known>>

Outcome(w) == CASE got[w] = "done" -> "succeeded"
                [] got[w] = "error" -> "failed"
                [] got[w] = "lost" -> "uncertain"

\* The outcome of the call; a lost answer blocks the run.
Settle(w) ==
    /\ pc[w] = "settle"
    /\ Checkpoint(w, [mine[w] EXCEPT !.status = Outcome(w),
                                     !.result = IF got[w] = "lost" THEN None ELSE got[w]],
                  SettleLast(known[w], Outcome(w)),
                  IF got[w] = "lost" THEN "stopped" ELSE "returned")
    /\ UNCHANGED <<policy, pending, delivered, owner, got, calls, effects>>

\* settle_pending appends the correlated result and drops the call, together.
Deliver(w) ==
    /\ pc[w] = "returned" /\ owner = w
    /\ delivered' = Append(delivered, got[w]) /\ pending' = FALSE
    /\ pc' = [pc EXCEPT ![w] = "stopped"]
    /\ UNCHANGED <<policy, exec, attempts, owner, mine, known, got, calls, effects>>

Next ==
    \E w \in Workers :
        \/ TakeOver(w) \/ Stop(w)
        \/ Intent(w) \/ Reuse(w) \/ CloseOpenAttempts(w)
        \/ VerifyStart(w) \/ VerifyFound(w) \/ VerifyUnknown(w)
        \/ Block(w) \/ RecoveryRequired(w)
        \/ Start(w) \/ Call(w) \/ Settle(w) \/ Deliver(w)

Spec == Init /\ [][Next]_vars

----------------------------------------------------------------------------
(* Properties. *)

ExecStatuses == {"absent", "pending", "started", "succeeded", "failed",
                 "uncertain", "blocked"}
Executions == [status : ExecStatuses, attempts : 0..MaxAttempts,
               result : {None, "done", "error"}]
Attempts == [kind : {"dispatch", "verify"},
             status : {"started", "succeeded", "failed", "uncertain"}]
Dispatches == {i \in DOMAIN attempts : attempts[i].kind = "dispatch"}

\* The shape of the ledger rows and of the workers' copies.
TypeOK ==
    /\ policy \in [mode : Modes, fixture : BOOLEAN]
    /\ exec \in Executions /\ attempts \in Seq(Attempts)
    /\ pending \in BOOLEAN /\ delivered \in Seq({"done", "error"})
    /\ owner \in Workers \cup {None}
    /\ pc \in [Workers -> {"idle", "intent", "recover", "decide", "verify",
                           "block", "call", "settle", "returned", "stopped"}]
    /\ mine \in [Workers -> Executions]
    /\ known \in [Workers -> Seq(Attempts)]
    /\ got \in [Workers -> {None, "done", "error", "lost"}]
    /\ calls \in Nat /\ effects \in Nat

\* No call without a durable started attempt of its own, in whatever order
\* owners replace each other: an action still pending never reached its
\* recipient, and the recorded dispatches bound the calls made.
CallsAreRecorded ==
    /\ exec.status \in {"absent", "pending"} => calls = 0
    /\ calls <= exec.attempts
    /\ exec.attempts = Cardinality(Dispatches)

\* An action that may not be repeated reaches its recipient at most once, any
\* other at most policy.max_attempts times over all owners together, and a keyed
\* recipient applies it at most once.
NoUnsafeRepeat ==
    /\ calls <= IF SafeToRepeat THEN MaxAttempts ELSE 1
    /\ policy.fixture => effects <= 1

\* At most one attempt is open, although former owners may still be calling.
OneOpenAttempt ==
    Cardinality({i \in DOMAIN attempts : attempts[i].status = "started"}) <= 1

\* A recorded success is a real effect, also when a successor learned of it.
SuccessIsReal ==
    /\ exec.status = "succeeded" => effects > 0 /\ exec.result = "done"
    /\ \A i \in DOMAIN attempts : attempts[i].status = "succeeded" => effects > 0

\* The model sees one result for the call, and it is the recorded one.
DeliveredOnce ==
    /\ Len(delivered) <= 1
    /\ Len(delivered) = 1 => /\ ~pending /\ exec.status \in Terminal
                             /\ delivered[1] = exec.result

\* What the model is told of the action: one result, the recorded one, and a
\* success only for an effect that happened.
ResultIsReal == DeliveredOnce /\ SuccessIsReal

\* Recorded outcomes, of the action and of its attempts, never change, and
\* attempts are never taken back.
OutcomesStable ==
    [][/\ exec.status \in Terminal => exec' = exec
       /\ Len(attempts') >= Len(attempts)
       /\ \A i \in DOMAIN attempts :
            attempts[i].status # "started" => attempts'[i] = attempts[i]]_vars
=============================================================================
