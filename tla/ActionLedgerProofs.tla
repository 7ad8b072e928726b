------------------------- MODULE ActionLedgerProofs -------------------------
(***************************************************************************)
(* Proofs about ActionLedger, for any set of workers, any recovery modes   *)
(* and any dispatch bound.  IInv is the inductive invariant: beside the    *)
(* properties themselves it says what the copies of the owner have to do   *)
(* with the rows, what each position of the owner presupposes of the       *)
(* action, and that a call in flight has a recorded dispatch of its own.   *)
(***************************************************************************)
EXTENDS ActionLedger, TLAPS, SequenceTheorems, FiniteSetTheorems

\* The owner has not changed since it last looked, so its copies are the rows;
\* a call that is no longer pending leaves its owner nothing to do.
CopyInv ==
    \A w \in Workers : owner = w =>
        /\ mine[w] = exec /\ known[w] = attempts
        /\ pc[w] # "idle"
        /\ ~pending => pc[w] = "stopped"

OpenLast(kind) ==
    Len(attempts) > 0 /\ attempts[Len(attempts)] = Started(kind)

\* What the owner's position presupposes of the action's rows.
PcInv ==
    \A w \in Workers : owner = w =>
        /\ pc[w] = "intent" => exec.status = "absent"
        /\ pc[w] = "decide" => exec.status \notin Terminal \cup {"absent"}
        /\ pc[w] = "recover" => exec.status # "absent"
        /\ pc[w] \in {"verify", "block"} =>
            exec.status \notin Terminal \cup {"absent", "pending"}
        /\ pc[w] = "verify" => OpenLast("verify")
        /\ pc[w] \in {"call", "settle"} => exec.status = "started" /\ OpenLast("dispatch")
        /\ pc[w] = "returned" => exec.status \in Terminal /\ got[w] = exec.result

\* The calls made and the calls about to be made, by the owner or by workers
\* it replaced, are covered by recorded dispatches.
InFlight == {w \in Workers : pc[w] = "call"}
CallInv ==
    /\ exec.attempts = Cardinality(Dispatches)
    /\ IsFiniteSet(InFlight)
    /\ calls + Cardinality(InFlight) <= exec.attempts
    /\ exec.status \in {"absent", "pending"} => exec.attempts = 0
    /\ ~SafeToRepeat => exec.attempts <= 1

\* An answer is the recipient's, and a success an effect at the recipient.
EffectInv ==
    /\ policy.fixture => effects <= 1
    /\ \A w \in Workers : pc[w] = "settle" =>
        got[w] \in {"done", "error", "lost"} /\ (got[w] = "done" => effects > 0)
    /\ exec.status = "failed" => exec.result = "error"
    /\ SuccessIsReal

\* The transcript has the recorded result once the call is no longer pending.
DeliveryInv ==
    /\ pending => delivered = <<>>
    /\ ~pending => exec.status \in Terminal /\ delivered = <<exec.result>>

IInv == TypeOK /\ CopyInv /\ PcInv /\ CallInv /\ EffectInv /\ DeliveryInv

----------------------------------------------------------------------------
(* Facts about the helpers. *)

\* Closing the newest attempt keeps the others, and keeps its kind.
LEMMA SettleLastFact ==
    ASSUME NEW recs \in Seq(Attempts), Len(recs) > 0,
           NEW s \in {"started", "succeeded", "failed", "uncertain"}
    PROVE  /\ SettleLast(recs, s) \in Seq(Attempts)
           /\ Len(SettleLast(recs, s)) = Len(recs)
           /\ DOMAIN SettleLast(recs, s) = DOMAIN recs
           /\ \A i \in DOMAIN recs : i # Len(recs) => SettleLast(recs, s)[i] = recs[i]
           /\ SettleLast(recs, s)[Len(recs)] = [kind |-> recs[Len(recs)].kind, status |-> s]
<1> DEFINE n == Len(recs)
           new == [recs[n] EXCEPT !.status = s]
<1>1. n \in DOMAIN recs /\ recs[n] \in Attempts
  OBVIOUS
<1>2. new \in Attempts /\ new = [kind |-> recs[n].kind, status |-> s]
  BY <1>1 DEF Attempts
<1>3. SettleLast(recs, s) = [recs EXCEPT ![n] = new]
  BY DEF SettleLast
<1> HIDE DEF n, new
<1>4. QED
  BY <1>1, <1>2, <1>3 DEF n

\* A started attempt is appended after the others.
LEMMA AppendFact ==
    ASSUME NEW recs \in Seq(Attempts), NEW kind \in {"dispatch", "verify"}
    PROVE  /\ Append(recs, Started(kind)) \in Seq(Attempts)
           /\ Len(Append(recs, Started(kind))) = Len(recs) + 1
           /\ \A i \in DOMAIN recs : Append(recs, Started(kind))[i] = recs[i]
           /\ Append(recs, Started(kind))[Len(recs) + 1] = Started(kind)
           /\ Started(kind) \in Attempts
  BY DEF Started, Attempts

\* Marking the open attempts uncertain touches nothing else.
Closed(recs) ==
    [i \in DOMAIN recs |-> IF recs[i].status = "started"
                           THEN [recs[i] EXCEPT !.status = "uncertain"]
                           ELSE recs[i]]
LEMMA ClosedFact ==
    ASSUME NEW recs \in Seq(Attempts)
    PROVE  /\ Closed(recs) \in Seq(Attempts)
           /\ Len(Closed(recs)) = Len(recs)
           /\ DOMAIN Closed(recs) = DOMAIN recs
           /\ \A i \in DOMAIN recs :
                /\ Closed(recs)[i].kind = recs[i].kind
                /\ Closed(recs)[i].status # "started"
                /\ recs[i].status # "started" => Closed(recs)[i] = recs[i]
                /\ recs[i].status = "started" => Closed(recs)[i].status = "uncertain"
<1>1. \A i \in DOMAIN recs : recs[i] \in Attempts
  OBVIOUS
<1>2. \A a \in Attempts : [a EXCEPT !.status = "uncertain"]
                           = [kind |-> a.kind, status |-> "uncertain"]
  BY DEF Attempts
<1>3. \A a \in Attempts : [kind |-> a.kind, status |-> "uncertain"] \in Attempts
  BY DEF Attempts
<1>4. \A i \in DOMAIN recs :
        Closed(recs)[i] = IF recs[i].status = "started"
                          THEN [kind |-> recs[i].kind, status |-> "uncertain"] ELSE recs[i]
  BY <1>1, <1>2 DEF Closed
<1>5. DOMAIN Closed(recs) = DOMAIN recs /\ DOMAIN recs = 1 .. Len(recs)
  BY DEF Closed
<1>6. \A i \in DOMAIN recs : Closed(recs)[i] \in Attempts
  BY <1>1, <1>3, <1>4
<1>7. Closed(recs) = [i \in 1 .. Len(recs) |-> Closed(recs)[i]]
  BY <1>5 DEF Closed
<1>8. Closed(recs) \in Seq(Attempts) /\ Len(Closed(recs)) = Len(recs)
  BY <1>5, <1>6, <1>7
<1>9. QED
  BY <1>4, <1>5, <1>8

----------------------------------------------------------------------------
(* What each checkpoint writes.  The owner's copies are the rows, so every  *)
(* commit is a change of the rows themselves.                               *)

\* Worker w commits e and recs and goes on at next, or stops.
Commits(w, e, recs, next) ==
    /\ owner = w /\ pending
    /\ exec' = e /\ attempts' = recs
    /\ mine' = [mine EXCEPT ![w] = e] /\ known' = [known EXCEPT ![w] = recs]
    /\ pc' = [pc EXCEPT ![w] = pc'[w]] /\ pc'[w] \in {next, "stopped"}
    /\ UNCHANGED <<policy, pending, delivered, owner, calls, effects>>

LEMMA CheckpointCommits ==
    ASSUME TypeOK, CopyInv, NEW w \in Workers, NEW e, NEW recs, NEW next,
           Checkpoint(w, e, recs, next), pc[w] # "stopped",
           UNCHANGED <<policy, pending, delivered, owner, calls, effects>>
    PROVE  Commits(w, e, recs, next) /\ mine[w] = exec /\ known[w] = attempts
                                     /\ Acceptable(e, recs)
<1>1. owner = w /\ mine[w] = exec /\ known[w] = attempts /\ pending
  BY DEF Checkpoint, CopyInv, TypeOK
<1>2. pc' = [pc EXCEPT ![w] = pc'[w]] /\ pc'[w] \in {next, "stopped"}
  BY DEF Checkpoint, TypeOK
<1>3. QED
  BY <1>1, <1>2 DEF Checkpoint, Commits

Row(status, n, result) == [status |-> status, attempts |-> n, result |-> result]

LEMMA RowFact == TypeOK => exec = Row(exec.status, exec.attempts, exec.result)
  BY DEF TypeOK, Executions, Row

LEMMA RowAttempts ==
    ASSUME NEW e \in Executions, NEW s, NEW x
    PROVE  [e EXCEPT !.status = s, !.attempts = x] = Row(s, x, e.result)
<1> DEFINE f == [e EXCEPT !.status = s]
<1>1. f = Row(s, e.attempts, e.result)
  BY DEF Executions, Row
<1> HIDE DEF f
<1>2. [f EXCEPT !.attempts = x] = Row(s, x, e.result)
  BY <1>1 DEF Row
<1>3. QED
  BY <1>2 DEF f

LEMMA RowResult ==
    ASSUME NEW e \in Executions, NEW s, NEW x
    PROVE  [e EXCEPT !.status = s, !.result = x] = Row(s, e.attempts, x)
<1> DEFINE f == [e EXCEPT !.status = s]
<1>1. f = Row(s, e.attempts, e.result)
  BY DEF Executions, Row
<1> HIDE DEF f
<1>2. [f EXCEPT !.result = x] = Row(s, e.attempts, x)
  BY <1>1 DEF Row
<1>3. QED
  BY <1>2 DEF f

\* The commit of each action of the owner, in terms of the rows.
LEMMA IntentCommits ==
    ASSUME IInv, NEW w \in Workers, Intent(w)
    PROVE  /\ Commits(w, Row("pending", exec.attempts, exec.result), attempts, "decide")
           /\ exec.status = "absent" /\ got' = got
<1>1. pc[w] # "stopped"
  BY DEF Intent
<1>2. /\ Commits(w, [mine[w] EXCEPT !.status = "pending"], known[w], "decide")
      /\ mine[w] = exec /\ known[w] = attempts
  BY <1>1, CheckpointCommits DEF Intent, IInv
<1>3. [exec EXCEPT !.status = "pending"] = Row("pending", exec.attempts, exec.result)
  BY RowFact DEF IInv, Row
<1>4. exec.status = "absent"
  BY <1>2 DEF Intent, IInv, PcInv, Commits
<1>5. QED
  BY <1>2, <1>3, <1>4 DEF Intent

LEMMA CloseCommits ==
    ASSUME IInv, NEW w \in Workers, CloseOpenAttempts(w)
    PROVE  /\ got' = got
           /\ \/ /\ Commits(w, exec, Closed(attempts), "decide")
                 /\ exec.status \notin Terminal \cup {"absent"}
              \/ /\ pc' = [pc EXCEPT ![w] = "decide"]
                 /\ owner = w => exec.status \notin Terminal \cup {"absent"}
                 /\ UNCHANGED <<policy, ledger, owner, mine, known, calls, effects>>
<1>1. pc[w] = "recover" /\ got' = got /\ mine[w].status \notin Terminal
      /\ UNCHANGED <<policy, pending, delivered, owner, calls, effects>>
  BY DEF CloseOpenAttempts
<1>2. owner = w => exec.status \notin Terminal \cup {"absent"}
  BY <1>1 DEF IInv, CopyInv, PcInv
<1>3. CASE \E i \in DOMAIN known[w] : known[w][i].status = "started"
  <2>1. Checkpoint(w, mine[w], Closed(known[w]), "decide")
    BY <1>3 DEF CloseOpenAttempts, Closed
  <2>2. Commits(w, exec, Closed(attempts), "decide")
    BY <1>1, <2>1, CheckpointCommits DEF IInv
  <2>3. QED
    BY <1>1, <1>2, <2>2 DEF Commits
<1>4. CASE ~ \E i \in DOMAIN known[w] : known[w][i].status = "started"
  <2>1. pc' = [pc EXCEPT ![w] = "decide"] /\ UNCHANGED <<exec, attempts, mine, known>>
    BY <1>4 DEF CloseOpenAttempts
  <2>2. QED
    BY <1>1, <1>2, <2>1 DEF ledger
<1>5. QED
  BY <1>3, <1>4

LEMMA VerifyStartCommits ==
    ASSUME IInv, NEW w \in Workers, VerifyStart(w)
    PROVE  /\ Commits(w, exec, Append(attempts, Started("verify")), "verify")
           /\ exec.status \notin Terminal \cup {"absent", "pending"} /\ got' = got
<1>1. /\ Commits(w, exec, Append(attempts, Started("verify")), "verify")
      /\ mine[w] = exec
  BY CheckpointCommits DEF VerifyStart, IInv
<1>2. QED
  BY <1>1 DEF VerifyStart, MustVerify, IInv, PcInv, Commits

LEMMA VerifyFoundCommits ==
    ASSUME IInv, NEW w \in Workers, VerifyFound(w)
    PROVE  /\ Commits(w, Row("succeeded", exec.attempts, "done"),
                      SettleLast(attempts, "succeeded"), "returned")
           /\ exec.status \notin Terminal \cup {"absent", "pending"} /\ OpenLast("verify")
           /\ effects > 0 /\ got' = [got EXCEPT ![w] = "done"]
<1>1. /\ Commits(w, [mine[w] EXCEPT !.status = "succeeded", !.result = "done"],
                 SettleLast(known[w], "succeeded"), "returned")
      /\ mine[w] = exec /\ known[w] = attempts
  BY CheckpointCommits DEF VerifyFound, IInv
<1>2. [exec EXCEPT !.status = "succeeded", !.result = "done"]
        = Row("succeeded", exec.attempts, "done")
  BY RowResult, Zenon DEF IInv, TypeOK
<1>3. QED
  BY <1>1, <1>2 DEF VerifyFound, IInv, PcInv, Commits

LEMMA VerifyUnknownCommits ==
    ASSUME IInv, NEW w \in Workers, VerifyUnknown(w)
    PROVE  /\ Commits(w, exec, SettleLast(attempts, "uncertain"), "block")
           /\ exec.status \notin Terminal \cup {"absent", "pending"} /\ OpenLast("verify")
           /\ got' = got
<1>1. Commits(w, exec, SettleLast(attempts, "uncertain"), "block")
  BY CheckpointCommits DEF VerifyUnknown, IInv
<1>2. QED
  BY <1>1 DEF VerifyUnknown, IInv, PcInv, Commits

LEMMA BlockCommits ==
    ASSUME IInv, NEW w \in Workers, Block(w)
    PROVE  /\ Commits(w, Row("blocked", exec.attempts, exec.result), attempts, "stopped")
           /\ exec.status \notin Terminal \cup {"absent", "pending"} /\ got' = got
<1>1. /\ Commits(w, [mine[w] EXCEPT !.status = "blocked"], known[w], "stopped")
      /\ mine[w] = exec /\ known[w] = attempts
  BY CheckpointCommits DEF Block, IInv
<1>2. [exec EXCEPT !.status = "blocked"] = Row("blocked", exec.attempts, exec.result)
  BY RowFact DEF IInv, Row
<1>3. QED
  BY <1>1, <1>2 DEF Block, IInv, PcInv, Commits

LEMMA StartCommits ==
    ASSUME IInv, NEW w \in Workers, Start(w)
    PROVE  /\ Commits(w, Row("started", exec.attempts + 1, exec.result),
                      Append(attempts, Started("dispatch")), "call")
           /\ exec.status \notin Terminal /\ got' = got
           /\ exec.status = "pending" \/ SafeToRepeat
           /\ exec.attempts < MaxAttempts /\ pc[w] = "decide"
<1>1. /\ Commits(w, [mine[w] EXCEPT !.status = "started", !.attempts = @ + 1],
                 Append(known[w], Started("dispatch")), "call")
      /\ mine[w] = exec /\ known[w] = attempts
  BY CheckpointCommits DEF Start, IInv
<1>2. [exec EXCEPT !.status = "started", !.attempts = @ + 1]
        = Row("started", exec.attempts + 1, exec.result)
  BY RowAttempts, Zenon DEF IInv, TypeOK
<1>3. QED
  BY <1>1, <1>2 DEF Start, MayDispatch, IInv, PcInv, Commits

LEMMA SettleCommits ==
    ASSUME IInv, NEW w \in Workers, Settle(w)
    PROVE  /\ Commits(w, Row(Outcome(w), exec.attempts,
                             IF got[w] = "lost" THEN None ELSE got[w]),
                      SettleLast(attempts, Outcome(w)),
                      IF got[w] = "lost" THEN "stopped" ELSE "returned")
           /\ exec.status = "started" /\ OpenLast("dispatch")
           /\ \/ got[w] = "done" /\ Outcome(w) = "succeeded" /\ effects > 0
              \/ got[w] = "error" /\ Outcome(w) = "failed"
              \/ got[w] = "lost" /\ Outcome(w) = "uncertain"
           /\ got' = got
<1> DEFINE res == IF got[w] = "lost" THEN None ELSE got[w]
           nxt == IF got[w] = "lost" THEN "stopped" ELSE "returned"
<1>1. /\ Commits(w, [mine[w] EXCEPT !.status = Outcome(w), !.result = res],
                 SettleLast(known[w], Outcome(w)), nxt)
      /\ mine[w] = exec /\ known[w] = attempts
  BY CheckpointCommits DEF Settle, IInv
<1>2. \A s, x : [exec EXCEPT !.status = s, !.result = x] = Row(s, exec.attempts, x)
  BY RowResult, Zenon DEF IInv, TypeOK
<1>3. \/ got[w] = "done" /\ Outcome(w) = "succeeded" /\ effects > 0
      \/ got[w] = "error" /\ Outcome(w) = "failed"
      \/ got[w] = "lost" /\ Outcome(w) = "uncertain"
  BY DEF Settle, Outcome, IInv, EffectInv
<1> HIDE DEF res, nxt
<1>4. Commits(w, Row(Outcome(w), exec.attempts, res), SettleLast(attempts, Outcome(w)), nxt)
  <2>1. [mine[w] EXCEPT !.status = Outcome(w), !.result = res]
          = Row(Outcome(w), exec.attempts, res)
    BY <1>1, <1>2, Zenon
  <2>2. QED
    BY <1>1, <2>1, Zenon
<1>5. QED
  BY <1>3, <1>4 DEF Settle, IInv, PcInv, Commits, res, nxt
----------------------------------------------------------------------------
(* The step lemmas, one per conjunct of IInv.                               *)

Positions == {"idle", "intent", "recover", "decide", "verify", "block", "call",
              "settle", "returned", "stopped"}

\* A commit of well-formed rows keeps the types of everything but got.
LEMMA CommitsType ==
    ASSUME TypeOK, NEW w \in Workers, NEW e \in Executions, NEW recs \in Seq(Attempts),
           NEW next \in Positions, Commits(w, e, recs, next),
           got' \in [Workers -> {None, "done", "error", "lost"}]
    PROVE  TypeOK'
<1>1. pc' \in [Workers -> Positions]
  BY DEF Commits, TypeOK, Positions
<1>2. mine' \in [Workers -> Executions] /\ known' \in [Workers -> Seq(Attempts)]
  BY DEF Commits, TypeOK
<1>3. QED
  BY <1>1, <1>2 DEF Commits, TypeOK, Positions

LEMMA RowType ==
    ASSUME NEW s \in ExecStatuses, NEW n \in 0..MaxAttempts, NEW r \in {None, "done", "error"}
    PROVE  Row(s, n, r) \in Executions
  BY DEF Row, Executions

LEMMA TypeStep == IInv /\ [Next]_vars => TypeOK'
<1> SUFFICES ASSUME IInv, [Next]_vars PROVE TypeOK'
  OBVIOUS
<1> USE ActionAssumption
<1>t. /\ TypeOK /\ exec \in Executions /\ attempts \in Seq(Attempts)
      /\ exec.status \in ExecStatuses /\ exec.attempts \in 0..MaxAttempts
      /\ exec.result \in {None, "done", "error"}
      /\ got \in [Workers -> {None, "done", "error", "lost"}]
  BY DEF IInv, TypeOK, Executions
<1>1. ASSUME NEW w \in Workers, TakeOver(w) PROVE TypeOK'
  BY <1>t, <1>1 DEF TypeOK, TakeOver, ledger
<1>2. ASSUME NEW w \in Workers, Stop(w) PROVE TypeOK'
  BY <1>t, <1>2 DEF TypeOK, Stop, ledger
<1>3. ASSUME NEW w \in Workers, Intent(w) PROVE TypeOK'
  BY <1>t, <1>3, IntentCommits, CommitsType, RowType DEF ExecStatuses, Positions
<1>4. ASSUME NEW w \in Workers, Reuse(w) PROVE TypeOK'
  BY <1>t, <1>4 DEF TypeOK, Reuse, ledger, Executions
<1>5. ASSUME NEW w \in Workers, CloseOpenAttempts(w) PROVE TypeOK'
  <2>1. CASE Commits(w, exec, Closed(attempts), "decide")
    BY <1>t, <1>5, <2>1, CloseCommits, CommitsType, ClosedFact DEF Positions
  <2>2. CASE /\ pc' = [pc EXCEPT ![w] = "decide"]
             /\ UNCHANGED <<policy, ledger, owner, mine, known, calls, effects>>
    BY <1>t, <1>5, <2>2, CloseCommits DEF TypeOK, ledger
  <2>3. QED
    BY <1>5, <2>1, <2>2, CloseCommits
<1>6. ASSUME NEW w \in Workers, VerifyStart(w) PROVE TypeOK'
  BY <1>t, <1>6, VerifyStartCommits, CommitsType, AppendFact DEF Positions
<1>7. ASSUME NEW w \in Workers, VerifyFound(w) PROVE TypeOK'
  <2>1. got' \in [Workers -> {None, "done", "error", "lost"}]
    BY <1>t, <1>7, VerifyFoundCommits
  <2>2. SettleLast(attempts, "succeeded") \in Seq(Attempts)
    BY <1>t, <1>7, VerifyFoundCommits, SettleLastFact DEF OpenLast
  <2>3. Row("succeeded", exec.attempts, "done") \in Executions
    BY <1>t, RowType DEF ExecStatuses
  <2>4. QED
    BY <1>t, <1>7, <2>1, <2>2, <2>3, VerifyFoundCommits, CommitsType DEF Positions
<1>8. ASSUME NEW w \in Workers, VerifyUnknown(w) PROVE TypeOK'
  <2>1. SettleLast(attempts, "uncertain") \in Seq(Attempts)
    BY <1>t, <1>8, VerifyUnknownCommits, SettleLastFact DEF OpenLast
  <2>2. QED
    BY <1>t, <1>8, <2>1, VerifyUnknownCommits, CommitsType DEF Positions
<1>9. ASSUME NEW w \in Workers, Block(w) PROVE TypeOK'
  BY <1>t, <1>9, BlockCommits, CommitsType, RowType DEF ExecStatuses, Positions
<1>10. ASSUME NEW w \in Workers, RecoveryRequired(w) PROVE TypeOK'
  BY <1>t, <1>10 DEF TypeOK, RecoveryRequired, ledger
<1>11. ASSUME NEW w \in Workers, Start(w) PROVE TypeOK'
  <2>1. exec.attempts + 1 \in 0..MaxAttempts
    BY <1>t, <1>11, StartCommits
  <2>2. Row("started", exec.attempts + 1, exec.result) \in Executions
    BY <1>t, <2>1, RowType DEF ExecStatuses
  <2>3. QED
    BY <1>t, <1>11, <2>2, StartCommits, CommitsType, AppendFact DEF Positions
<1>12. ASSUME NEW w \in Workers, Call(w) PROVE TypeOK'
  <2>1. got' \in [Workers -> {None, "done", "error", "lost"}] /\ effects' \in Nat
    <3>1. \E a \in {"done", "error", "lost"} : got' = [got EXCEPT ![w] = a]
      BY <1>12 DEF Call
    <3>2. effects' \in {1, effects, effects + 1}
      BY <1>12 DEF Call
    <3>3. QED
      BY <1>t, <3>1, <3>2 DEF TypeOK
  <2>2. QED
    BY <1>t, <1>12, <2>1 DEF TypeOK, Call, ledger
<1>13. ASSUME NEW w \in Workers, Settle(w) PROVE TypeOK'
  <2> DEFINE res == IF got[w] = "lost" THEN None ELSE got[w]
             nxt == IF got[w] = "lost" THEN "stopped" ELSE "returned"
  <2>1. /\ Outcome(w) \in {"succeeded", "failed", "uncertain"}
        /\ res \in {None, "done", "error"} /\ nxt \in Positions
    BY <1>t, <1>13, SettleCommits DEF Positions
  <2>2. SettleLast(attempts, Outcome(w)) \in Seq(Attempts)
    BY <1>t, <1>13, <2>1, SettleCommits, SettleLastFact DEF OpenLast
  <2>3. Row(Outcome(w), exec.attempts, res) \in Executions
    BY <1>t, <2>1, RowType DEF ExecStatuses
  <2>4. QED
    BY <1>t, <1>13, <2>1, <2>2, <2>3, SettleCommits, CommitsType
<1>14. ASSUME NEW w \in Workers, Deliver(w) PROVE TypeOK'
  <2>1. got[w] \in {"done", "error"}
    BY <1>14 DEF Deliver, IInv, PcInv, EffectInv, SuccessIsReal, Terminal
  <2>2. delivered' \in Seq({"done", "error"})
    BY <1>t, <1>14, <2>1 DEF Deliver, TypeOK
  <2>3. QED
    BY <1>t, <1>14, <2>2 DEF TypeOK, Deliver
<1>15. CASE UNCHANGED vars
  BY <1>t, <1>15 DEF TypeOK, vars, ledger
<1>16. QED
  BY <1>1, <1>2, <1>3, <1>4, <1>5, <1>6, <1>7, <1>8, <1>9, <1>10, <1>11, <1>12,
     <1>13, <1>14, <1>15 DEF Next
\* A worker that only moves keeps the rows and every copy.
Moves(w, next) ==
    /\ pc' = [pc EXCEPT ![w] = next]
    /\ UNCHANGED <<policy, ledger, owner, mine, known, got, calls, effects>>

\* The steps of the system: commits, moves, and four steps of their own.
LEMMA Steps ==
    ASSUME IInv, [Next]_vars
    PROVE  \/ \E w \in Workers : \E e, recs, next : Commits(w, e, recs, next) /\ next # "idle"
           \/ \E w \in Workers : Stop(w) \/ Reuse(w) \/ RecoveryRequired(w) \/ Call(w)
                                \/ TakeOver(w) \/ Deliver(w)
           \/ \E w \in Workers : pc[w] = "recover" /\ Moves(w, "decide")
           \/ UNCHANGED vars
<1>1. ASSUME NEW w \in Workers, Intent(w)
      PROVE  \E e, recs, next : Commits(w, e, recs, next) /\ next # "idle"
  BY <1>1, IntentCommits
<1>2. ASSUME NEW w \in Workers, CloseOpenAttempts(w)
      PROVE  \/ \E e, recs, next : Commits(w, e, recs, next) /\ next # "idle"
             \/ pc[w] = "recover" /\ Moves(w, "decide")
  BY <1>2, CloseCommits DEF Moves, CloseOpenAttempts
<1>3. ASSUME NEW w \in Workers, VerifyStart(w)
      PROVE  \E e, recs, next : Commits(w, e, recs, next) /\ next # "idle"
  BY <1>3, VerifyStartCommits
<1>4. ASSUME NEW w \in Workers, VerifyFound(w)
      PROVE  \E e, recs, next : Commits(w, e, recs, next) /\ next # "idle"
  BY <1>4, VerifyFoundCommits
<1>5. ASSUME NEW w \in Workers, VerifyUnknown(w)
      PROVE  \E e, recs, next : Commits(w, e, recs, next) /\ next # "idle"
  BY <1>5, VerifyUnknownCommits
<1>6. ASSUME NEW w \in Workers, Block(w)
      PROVE  \E e, recs, next : Commits(w, e, recs, next) /\ next # "idle"
  BY <1>6, BlockCommits
<1>7. ASSUME NEW w \in Workers, Start(w)
      PROVE  \E e, recs, next : Commits(w, e, recs, next) /\ next # "idle"
  BY <1>7, StartCommits
<1>8. ASSUME NEW w \in Workers, Settle(w)
      PROVE  \E e, recs, next : Commits(w, e, recs, next) /\ next # "idle"
  <2> DEFINE nxt == IF got[w] = "lost" THEN "stopped" ELSE "returned"
  <2>1. nxt # "idle"
    OBVIOUS
  <2> HIDE DEF nxt
  <2>2. QED
    BY <1>8, <2>1, SettleCommits DEF nxt
<1>9. QED
  BY <1>1, <1>2, <1>3, <1>4, <1>5, <1>6, <1>7, <1>8 DEF Next

LEMMA CopyStep == IInv /\ [Next]_vars => CopyInv'
<1> SUFFICES ASSUME IInv, [Next]_vars PROVE CopyInv'
  OBVIOUS
<1>t. TypeOK /\ CopyInv
  BY DEF IInv
<1>1. ASSUME NEW w \in Workers, NEW e, NEW recs, NEW next,
             Commits(w, e, recs, next), next # "idle"
      PROVE  CopyInv'
  BY <1>t, <1>1 DEF Commits, CopyInv, TypeOK
<1>2. ASSUME NEW w \in Workers, TakeOver(w) PROVE CopyInv'
  BY <1>t, <1>2 DEF TakeOver, ledger, CopyInv, TypeOK
<1>3. ASSUME NEW w \in Workers, Stop(w) PROVE CopyInv'
  BY <1>t, <1>3 DEF Stop, ledger, CopyInv, TypeOK
<1>4. ASSUME NEW w \in Workers, Reuse(w) PROVE CopyInv'
  BY <1>t, <1>4 DEF Reuse, ledger, CopyInv, TypeOK
<1>5. ASSUME NEW w \in Workers, RecoveryRequired(w) PROVE CopyInv'
  BY <1>t, <1>5 DEF RecoveryRequired, ledger, CopyInv, TypeOK
<1>6. ASSUME NEW w \in Workers, Call(w) PROVE CopyInv'
  BY <1>t, <1>6 DEF Call, ledger, CopyInv, TypeOK
<1>7. ASSUME NEW w \in Workers, Deliver(w) PROVE CopyInv'
  BY <1>t, <1>7 DEF Deliver, CopyInv, TypeOK
<1>8. ASSUME NEW w \in Workers, pc[w] = "recover", Moves(w, "decide") PROVE CopyInv'
  BY <1>t, <1>8 DEF Moves, ledger, CopyInv, TypeOK
<1>9. CASE UNCHANGED vars
  BY <1>t, <1>9 DEF vars, ledger, CopyInv
<1>10. QED
  BY <1>1, <1>2, <1>3, <1>4, <1>5, <1>6, <1>7, <1>8, <1>9, Steps

\* Only the position and the answer of the worker that commits change.
LEMMA CommitsPc ==
    ASSUME TypeOK, NEW w \in Workers, NEW e, NEW recs, NEW next, Commits(w, e, recs, next),
           NEW v \in Workers
    PROVE  /\ v # w => pc'[v] = pc[v] /\ owner' # v
           /\ v = w => pc'[v] \in {next, "stopped"}
           /\ owner' = w
  BY DEF Commits, TypeOK

LEMMA PcStep == IInv /\ [Next]_vars => PcInv'
<1> SUFFICES ASSUME IInv, [Next]_vars PROVE PcInv'
  OBVIOUS
<1>t. TypeOK /\ CopyInv /\ PcInv /\ attempts \in Seq(Attempts)
  BY DEF IInv, TypeOK
<1>1. ASSUME NEW w \in Workers, TakeOver(w) PROVE PcInv'
  BY <1>t, <1>1 DEF TakeOver, ledger, PcInv, TypeOK, OpenLast
<1>2. ASSUME NEW w \in Workers, Stop(w) PROVE PcInv'
  BY <1>t, <1>2 DEF Stop, ledger, PcInv, TypeOK, OpenLast
<1>3. ASSUME NEW w \in Workers, Intent(w) PROVE PcInv'
  BY <1>t, <1>3, IntentCommits, CommitsPc DEF PcInv, Commits, Row, Terminal
<1>4. ASSUME NEW w \in Workers, Reuse(w) PROVE PcInv'
  BY <1>t, <1>4 DEF Reuse, ledger, CopyInv, PcInv, TypeOK, OpenLast
<1>5. ASSUME NEW w \in Workers, CloseOpenAttempts(w) PROVE PcInv'
  <2>1. CASE Commits(w, exec, Closed(attempts), "decide")
    BY <1>t, <1>5, <2>1, CloseCommits, CommitsPc DEF PcInv, Commits
  <2>2. CASE /\ pc' = [pc EXCEPT ![w] = "decide"]
             /\ owner = w => exec.status \notin Terminal \cup {"absent"}
             /\ UNCHANGED <<policy, ledger, owner, mine, known, calls, effects>>
    BY <1>t, <1>5, <2>2, CloseCommits DEF PcInv, ledger, TypeOK, OpenLast
  <2>3. QED
    BY <1>5, <2>1, <2>2, CloseCommits
<1>6. ASSUME NEW w \in Workers, VerifyStart(w) PROVE PcInv'
  <2>1. Len(attempts') > 0 /\ attempts'[Len(attempts')] = Started("verify")
    BY <1>t, <1>6, VerifyStartCommits, AppendFact DEF Commits
  <2>2. QED
    BY <1>t, <1>6, <2>1, VerifyStartCommits, CommitsPc DEF PcInv, Commits, OpenLast
<1>7. ASSUME NEW w \in Workers, VerifyFound(w) PROVE PcInv'
  <2>1. got'[w] = "done"
    BY <1>t, <1>7, VerifyFoundCommits DEF TypeOK
  <2>2. QED
    BY <1>t, <1>7, <2>1, VerifyFoundCommits, CommitsPc DEF PcInv, Commits, Row, Terminal
<1>8. ASSUME NEW w \in Workers, VerifyUnknown(w) PROVE PcInv'
  BY <1>t, <1>8, VerifyUnknownCommits, CommitsPc DEF PcInv, Commits
<1>9. ASSUME NEW w \in Workers, Block(w) PROVE PcInv'
  BY <1>t, <1>9, BlockCommits, CommitsPc DEF PcInv, Commits
<1>10. ASSUME NEW w \in Workers, RecoveryRequired(w) PROVE PcInv'
  BY <1>t, <1>10 DEF RecoveryRequired, ledger, PcInv, TypeOK, OpenLast
<1>11. ASSUME NEW w \in Workers, Start(w) PROVE PcInv'
  <2>1. Len(attempts') > 0 /\ attempts'[Len(attempts')] = Started("dispatch")
    BY <1>t, <1>11, StartCommits, AppendFact DEF Commits
  <2>2. QED
    BY <1>t, <1>11, <2>1, StartCommits, CommitsPc DEF PcInv, Commits, OpenLast, Row
<1>12. ASSUME NEW w \in Workers, Call(w) PROVE PcInv'
  <2>1. \A v \in Workers : v # w => got'[v] = got[v]
    BY <1>t, <1>12 DEF Call, TypeOK
  <2>2. QED
    BY <1>t, <1>12, <2>1 DEF Call, ledger, PcInv, TypeOK, OpenLast
<1>13. ASSUME NEW w \in Workers, Settle(w) PROVE PcInv'
  <2>1. CASE got[w] = "lost"
    BY <1>t, <1>13, <2>1, SettleCommits, CommitsPc DEF PcInv, Commits
  <2>2. CASE got[w] # "lost"
    BY <1>t, <1>13, <2>2, SettleCommits, CommitsPc DEF PcInv, Commits, Row, Terminal
  <2>3. QED
    BY <2>1, <2>2
<1>14. ASSUME NEW w \in Workers, Deliver(w) PROVE PcInv'
  BY <1>t, <1>14 DEF Deliver, PcInv, TypeOK, OpenLast
<1>15. CASE UNCHANGED vars
  BY <1>t, <1>15 DEF PcInv, vars, ledger, OpenLast
<1>16. QED
  BY <1>1, <1>2, <1>3, <1>4, <1>5, <1>6, <1>7, <1>8, <1>9, <1>10, <1>11, <1>12,
     <1>13, <1>14, <1>15 DEF Next
\* The recorded dispatches are finitely many; the count follows the ledger.
LEMMA DispatchesFinite ==
    ASSUME attempts \in Seq(Attempts)
    PROVE  IsFiniteSet(Dispatches) /\ Cardinality(Dispatches) \in Nat
           /\ Len(attempts) + 1 \notin Dispatches
<1>1. Dispatches \subseteq 1 .. Len(attempts) /\ Len(attempts) \in Nat
  BY DEF Dispatches
<1>2. IsFiniteSet(1 .. Len(attempts))
  BY <1>1, FS_Interval
<1>3. IsFiniteSet(Dispatches)
  BY <1>1, <1>2, FS_Subset
<1>4. Cardinality(Dispatches) \in Nat
  BY <1>3, FS_CardinalityType
<1>5. QED
  BY <1>1, <1>3, <1>4

LEMMA DispatchesKept ==
    ASSUME DOMAIN attempts' = DOMAIN attempts,
           \A i \in DOMAIN attempts : attempts'[i].kind = attempts[i].kind
    PROVE  Dispatches' = Dispatches
  BY DEF Dispatches

\* A new attempt counts when it is a dispatch.
LEMMA DispatchesAppended ==
    ASSUME attempts \in Seq(Attempts), NEW kind \in {"dispatch", "verify"},
           attempts' = Append(attempts, Started(kind))
    PROVE  Dispatches' = IF kind = "dispatch" THEN Dispatches \cup {Len(attempts) + 1}
                         ELSE Dispatches
<1>1. DOMAIN attempts' = DOMAIN attempts \cup {Len(attempts) + 1}
  BY AppendFact
<1>2. /\ \A i \in DOMAIN attempts : attempts'[i] = attempts[i]
      /\ attempts'[Len(attempts) + 1].kind = kind
  BY AppendFact DEF Started
<1>3. QED
  BY <1>1, <1>2 DEF Dispatches

\* A worker that enters the call is the only new one in flight.
LEMMA InFlightStep ==
    ASSUME TypeOK, IsFiniteSet(InFlight), NEW w \in Workers, NEW p \in Positions,
           pc' = [pc EXCEPT ![w] = p]
    PROVE  /\ IsFiniteSet(InFlight') /\ Cardinality(InFlight) \in Nat
           /\ Cardinality(InFlight') \in Nat
           /\ p # "call" => Cardinality(InFlight') <= Cardinality(InFlight)
           /\ p # "call" /\ pc[w] = "call" =>
                Cardinality(InFlight') = Cardinality(InFlight) - 1
           /\ Cardinality(InFlight') <= Cardinality(InFlight) + 1
<1>1. CASE p = "call"
  <2>1. InFlight' = InFlight \cup {w}
    BY <1>1 DEF InFlight, TypeOK
  <2>2. IsFiniteSet(InFlight') /\ Cardinality(InFlight) \in Nat
    BY <2>1, FS_AddElement, FS_CardinalityType
  <2>3. Cardinality(InFlight') = IF w \in InFlight THEN Cardinality(InFlight)
                                                  ELSE Cardinality(InFlight) + 1
    BY <2>1, FS_AddElement
  <2>4. QED
    BY <1>1, <2>2, <2>3
<1>2. CASE p # "call"
  <2>1. InFlight' = InFlight \ {w}
    BY <1>2 DEF InFlight, TypeOK
  <2>2. pc[w] = "call" => w \in InFlight
    BY DEF InFlight
  <2>3. /\ IsFiniteSet(InFlight') /\ Cardinality(InFlight) \in Nat
        /\ Cardinality(InFlight') \in Nat
    BY <2>1, FS_RemoveElement, FS_CardinalityType
  <2>4. Cardinality(InFlight') = IF w \in InFlight THEN Cardinality(InFlight) - 1
                                                  ELSE Cardinality(InFlight)
    BY <2>1, FS_RemoveElement
  <2>5. QED
    BY <1>2, <2>2, <2>3, <2>4
<1>3. QED
  BY <1>1, <1>2

LEMMA KindsKept ==
    ASSUME NEW recs \in Seq(Attempts), Len(recs) > 0,
           NEW s \in {"started", "succeeded", "failed", "uncertain"}
    PROVE  /\ DOMAIN SettleLast(recs, s) = DOMAIN recs
           /\ \A i \in DOMAIN recs : SettleLast(recs, s)[i].kind = recs[i].kind
<1>1. SettleLast(recs, s)[Len(recs)] = [kind |-> recs[Len(recs)].kind, status |-> s]
  BY SettleLastFact
<1>2. SettleLast(recs, s)[Len(recs)].kind = recs[Len(recs)].kind
  BY <1>1
<1>3. QED
  BY <1>2, SettleLastFact

\* A commit that keeps the count and starts no call keeps the bound.
LEMMA CommitsCall ==
    ASSUME TypeOK, CallInv, NEW w \in Workers, NEW e, NEW recs, NEW next \in Positions,
           Commits(w, e, recs, next), next # "call",
           e.attempts = exec.attempts, e.status \in {"absent", "pending"} => exec.attempts = 0,
           DOMAIN recs = DOMAIN attempts,
           \A i \in DOMAIN attempts : recs[i].kind = attempts[i].kind
    PROVE  CallInv'
<1>1. Dispatches' = Dispatches
  BY DispatchesKept DEF Commits
<1>2. /\ IsFiniteSet(InFlight') /\ Cardinality(InFlight') \in Nat /\ Cardinality(InFlight) \in Nat
      /\ Cardinality(InFlight') <= Cardinality(InFlight)
  BY InFlightStep DEF Commits, CallInv, Positions
<1>3. calls' + Cardinality(InFlight') <= exec'.attempts
  BY <1>2 DEF Commits, CallInv, TypeOK, Executions
<1>4. QED
  BY <1>1, <1>2, <1>3 DEF Commits, CallInv, SafeToRepeat

\* So does a step that only moves a worker somewhere else than to the call.
LEMMA MoveCall ==
    ASSUME TypeOK, CallInv, NEW w \in Workers, NEW p \in Positions \ {"call"},
           pc' = [pc EXCEPT ![w] = p], UNCHANGED <<policy, exec, attempts, calls>>
    PROVE  CallInv'
<1>1. /\ IsFiniteSet(InFlight') /\ Cardinality(InFlight') \in Nat /\ Cardinality(InFlight) \in Nat
      /\ Cardinality(InFlight') <= Cardinality(InFlight)
  BY InFlightStep DEF CallInv
<1>2. calls' + Cardinality(InFlight') <= exec'.attempts
  BY <1>1 DEF CallInv, TypeOK, Executions
<1>3. Dispatches' = Dispatches
  BY DEF Dispatches
<1>4. QED
  BY <1>1, <1>2, <1>3 DEF CallInv, SafeToRepeat

LEMMA CallStep == IInv /\ [Next]_vars => CallInv'
<1> SUFFICES ASSUME IInv, [Next]_vars PROVE CallInv'
  OBVIOUS
<1>t. TypeOK /\ CopyInv /\ PcInv /\ CallInv /\ attempts \in Seq(Attempts)
  BY DEF IInv, TypeOK
<1>1. ASSUME NEW w \in Workers, TakeOver(w) PROVE CallInv'
  <2>1. \E p \in Positions \ {"call"} : pc' = [pc EXCEPT ![w] = p]
    BY <1>1 DEF TakeOver, Positions
  <2>2. UNCHANGED <<policy, exec, attempts, calls>>
    BY <1>1 DEF TakeOver, ledger
  <2>3. QED
    BY <1>t, <2>1, <2>2, MoveCall
<1>2. ASSUME NEW w \in Workers, Stop(w) PROVE CallInv'
  BY <1>t, <1>2, MoveCall DEF Stop, ledger, Positions
<1>3. ASSUME NEW w \in Workers, Intent(w) PROVE CallInv'
  BY <1>t, <1>3, IntentCommits, CommitsCall DEF Row, Positions, CallInv
<1>4. ASSUME NEW w \in Workers, Reuse(w) PROVE CallInv'
  BY <1>t, <1>4, MoveCall DEF Reuse, ledger, Positions
<1>5. ASSUME NEW w \in Workers, CloseOpenAttempts(w) PROVE CallInv'
  <2>1. CASE Commits(w, exec, Closed(attempts), "decide")
    BY <1>t, <2>1, CommitsCall, ClosedFact DEF Positions, CallInv
  <2>2. CASE /\ pc' = [pc EXCEPT ![w] = "decide"]
             /\ UNCHANGED <<policy, ledger, owner, mine, known, calls, effects>>
    BY <1>t, <2>2, MoveCall DEF ledger, Positions
  <2>3. QED
    BY <1>5, <2>1, <2>2, CloseCommits
<1>6. ASSUME NEW w \in Workers, VerifyStart(w) PROVE CallInv'
  <2>1. Dispatches' = Dispatches
    BY <1>t, <1>6, VerifyStartCommits, DispatchesAppended DEF Commits
  <2>2. /\ IsFiniteSet(InFlight') /\ Cardinality(InFlight') \in Nat
        /\ Cardinality(InFlight) \in Nat /\ Cardinality(InFlight') <= Cardinality(InFlight)
    BY <1>t, <1>6, VerifyStartCommits, InFlightStep DEF Commits, Positions, CallInv
  <2>3. UNCHANGED <<policy, exec, calls>>
    BY <1>6, VerifyStartCommits DEF Commits
  <2>4. QED
    BY <1>t, <2>1, <2>2, <2>3 DEF CallInv, SafeToRepeat, TypeOK, Executions
<1>7. ASSUME NEW w \in Workers, VerifyFound(w) PROVE CallInv'
  BY <1>t, <1>7, VerifyFoundCommits, CommitsCall, KindsKept DEF Row, Positions, OpenLast
<1>8. ASSUME NEW w \in Workers, VerifyUnknown(w) PROVE CallInv'
  BY <1>t, <1>8, VerifyUnknownCommits, CommitsCall, KindsKept DEF Positions, OpenLast
<1>9. ASSUME NEW w \in Workers, Block(w) PROVE CallInv'
  BY <1>t, <1>9, BlockCommits, CommitsCall DEF Row, Positions
<1>10. ASSUME NEW w \in Workers, RecoveryRequired(w) PROVE CallInv'
  BY <1>t, <1>10, MoveCall DEF RecoveryRequired, ledger, Positions
<1>11. ASSUME NEW w \in Workers, Start(w) PROVE CallInv'
  <2>1. Dispatches' = Dispatches \cup {Len(attempts) + 1}
    BY <1>t, <1>11, StartCommits, DispatchesAppended DEF Commits
  <2>2. Cardinality(Dispatches') = Cardinality(Dispatches) + 1
    BY <1>t, <2>1, DispatchesFinite, FS_AddElement
  <2>3. /\ IsFiniteSet(InFlight') /\ Cardinality(InFlight') \in Nat
        /\ Cardinality(InFlight) \in Nat /\ Cardinality(InFlight') <= Cardinality(InFlight) + 1
    BY <1>t, <1>11, StartCommits, InFlightStep DEF Commits, Positions, CallInv
  <2>4. UNCHANGED <<policy, calls>> /\ exec'.attempts = exec.attempts + 1
        /\ exec'.status = "started"
    BY <1>11, StartCommits DEF Commits, Row
  <2>5. ~SafeToRepeat => exec.attempts = 0
    BY <1>t, <1>11, StartCommits DEF CallInv
  <2>6. QED
    BY <1>t, <2>2, <2>3, <2>4, <2>5 DEF CallInv, SafeToRepeat, TypeOK, Executions
<1>12. ASSUME NEW w \in Workers, Call(w) PROVE CallInv'
  <2>1. pc[w] = "call" /\ pc' = [pc EXCEPT ![w] = "settle"] /\ calls' = calls + 1
        /\ UNCHANGED <<policy, exec, attempts>>
    BY <1>12 DEF Call, ledger
  <2>2. /\ IsFiniteSet(InFlight') /\ Cardinality(InFlight) \in Nat
        /\ Cardinality(InFlight') = Cardinality(InFlight) - 1
    BY <1>t, <2>1, InFlightStep DEF Positions, CallInv
  <2>3. Dispatches' = Dispatches
    BY <2>1 DEF Dispatches
  <2>4. QED
    BY <1>t, <2>1, <2>2, <2>3 DEF CallInv, SafeToRepeat, TypeOK, Executions
<1>13. ASSUME NEW w \in Workers, Settle(w) PROVE CallInv'
  <2> DEFINE res == IF got[w] = "lost" THEN None ELSE got[w]
             nxt == IF got[w] = "lost" THEN "stopped" ELSE "returned"
  <2>1. /\ nxt \in Positions /\ nxt # "call"
        /\ Outcome(w) \in {"succeeded", "failed", "uncertain"} /\ Len(attempts) > 0
    BY <1>13, SettleCommits DEF Positions, OpenLast
  <2>2. Commits(w, Row(Outcome(w), exec.attempts, res), SettleLast(attempts, Outcome(w)), nxt)
    BY <1>13, SettleCommits
  <2> HIDE DEF res, nxt
  <2>3. QED
    BY <1>t, <2>1, <2>2, CommitsCall, KindsKept DEF Row
<1>14. ASSUME NEW w \in Workers, Deliver(w) PROVE CallInv'
  BY <1>t, <1>14, MoveCall DEF Deliver, Positions
<1>15. CASE UNCHANGED vars
  BY <1>t, <1>15 DEF CallInv, vars, ledger, Dispatches, InFlight, SafeToRepeat
<1>16. QED
  BY <1>1, <1>2, <1>3, <1>4, <1>5, <1>6, <1>7, <1>8, <1>9, <1>10, <1>11, <1>12,
     <1>13, <1>14, <1>15 DEF Next
\* Effects are never taken back.
LEMMA EffectsGrow ==
    ASSUME IInv, [Next]_vars
    PROVE  effects' >= effects
<1>t. effects \in Nat /\ (policy.fixture => effects <= 1) /\ policy.fixture \in BOOLEAN
  BY DEF IInv, TypeOK, EffectInv
<1>1. ASSUME NEW w \in Workers, Call(w) PROVE effects' >= effects
  BY <1>t, <1>1 DEF Call
<1>2. ASSUME effects' = effects PROVE effects' >= effects
  BY <1>t, <1>2
<1>3. QED
  BY <1>1, <1>2, Steps DEF Commits, Stop, Reuse, RecoveryRequired, TakeOver, Deliver, Moves, vars

\* A commit that settles nothing, or settles the newest attempt as stated.
LEMMA CommitsEffect ==
    ASSUME TypeOK, EffectInv, NEW w \in Workers, NEW e, NEW recs, NEW next,
           Commits(w, e, recs, next), next # "settle",
           \A v \in Workers : v # w => got'[v] = got[v],
           e.status = "succeeded" => effects > 0 /\ e.result = "done",
           e.status = "failed" => e.result = "error",
           \A i \in DOMAIN recs : recs[i].status = "succeeded" => effects > 0
    PROVE  EffectInv'
<1>1. \A v \in Workers : pc'[v] = "settle" =>
            v # w /\ pc[v] = "settle" /\ got'[v] = got[v]
  BY CommitsPc
<1>2. SuccessIsReal'
  BY DEF SuccessIsReal, Commits
<1>3. QED
  BY <1>1, <1>2 DEF EffectInv, Commits

\* The attempts that count as successes after one was settled.
LEMMA SettledSuccess ==
    ASSUME NEW recs \in Seq(Attempts), Len(recs) > 0,
           NEW s \in {"started", "succeeded", "failed", "uncertain"},
           NEW i \in DOMAIN SettleLast(recs, s), SettleLast(recs, s)[i].status = "succeeded"
    PROVE  s = "succeeded" \/ (i \in DOMAIN recs /\ recs[i].status = "succeeded")
<1>1. SettleLast(recs, s)[Len(recs)] = [kind |-> recs[Len(recs)].kind, status |-> s]
  BY SettleLastFact
<1>2. SettleLast(recs, s)[Len(recs)].status = s
  BY <1>1
<1>3. CASE i = Len(recs)
  BY <1>2, <1>3
<1>4. /\ DOMAIN SettleLast(recs, s) = DOMAIN recs
      /\ \A j \in DOMAIN recs : j # Len(recs) => SettleLast(recs, s)[j] = recs[j]
  BY SettleLastFact
<1>5. CASE i # Len(recs)
  BY <1>4, <1>5
<1>6. QED
  BY <1>3, <1>5

LEMMA EffectStep == IInv /\ [Next]_vars => EffectInv'
<1> SUFFICES ASSUME IInv, [Next]_vars PROVE EffectInv'
  OBVIOUS
<1>t. /\ TypeOK /\ CopyInv /\ PcInv /\ EffectInv /\ SuccessIsReal
      /\ attempts \in Seq(Attempts) /\ effects \in Nat
      /\ effects' \in Nat /\ effects' >= effects
  BY EffectsGrow, TypeStep DEF IInv, TypeOK, EffectInv
<1>m. ASSUME NEW w \in Workers, NEW p \in Positions \ {"settle"}, pc' = [pc EXCEPT ![w] = p],
             UNCHANGED <<policy, exec, attempts, effects>>,
             \A v \in Workers : v # w => got'[v] = got[v]
      PROVE  EffectInv'
  BY <1>t, <1>m DEF EffectInv, SuccessIsReal, TypeOK
<1>1. ASSUME NEW w \in Workers, TakeOver(w) PROVE EffectInv'
  <2>1. \E p \in Positions \ {"settle"} : pc' = [pc EXCEPT ![w] = p]
    BY <1>1 DEF TakeOver, Positions
  <2>2. QED
    BY <1>1, <2>1, <1>m DEF TakeOver, ledger
<1>2. ASSUME NEW w \in Workers, Stop(w) PROVE EffectInv'
  BY <1>2, <1>m DEF Stop, ledger, Positions
<1>3. ASSUME NEW w \in Workers, Intent(w) PROVE EffectInv'
  BY <1>t, <1>3, IntentCommits, CommitsEffect DEF Row, SuccessIsReal
<1>4. ASSUME NEW w \in Workers, Reuse(w) PROVE EffectInv'
  BY <1>t, <1>4, <1>m DEF Reuse, ledger, Positions, TypeOK
<1>5. ASSUME NEW w \in Workers, CloseOpenAttempts(w) PROVE EffectInv'
  <2>1. CASE Commits(w, exec, Closed(attempts), "decide")
    BY <1>t, <1>5, <2>1, CloseCommits, CommitsEffect, ClosedFact DEF SuccessIsReal, EffectInv
  <2>2. CASE /\ pc' = [pc EXCEPT ![w] = "decide"]
             /\ UNCHANGED <<policy, ledger, owner, mine, known, calls, effects>>
    BY <1>5, <2>2, <1>m, CloseCommits DEF ledger, Positions
  <2>3. QED
    BY <1>5, <2>1, <2>2, CloseCommits
<1>6. ASSUME NEW w \in Workers, VerifyStart(w) PROVE EffectInv'
  <2>1. \A i \in DOMAIN Append(attempts, Started("verify")) :
            Append(attempts, Started("verify"))[i].status = "succeeded" => effects > 0
    BY <1>t, AppendFact DEF SuccessIsReal, Started
  <2>2. QED
    BY <1>t, <1>6, <2>1, VerifyStartCommits, CommitsEffect DEF SuccessIsReal, EffectInv
<1>7. ASSUME NEW w \in Workers, VerifyFound(w) PROVE EffectInv'
  <2>1. \A v \in Workers : v # w => got'[v] = got[v]
    BY <1>t, <1>7, VerifyFoundCommits DEF TypeOK
  <2>2. QED
    BY <1>t, <1>7, <2>1, VerifyFoundCommits, CommitsEffect DEF Row
<1>8. ASSUME NEW w \in Workers, VerifyUnknown(w) PROVE EffectInv'
  <2>1. \A i \in DOMAIN SettleLast(attempts, "uncertain") :
            SettleLast(attempts, "uncertain")[i].status = "succeeded" => effects > 0
    BY <1>t, <1>8, VerifyUnknownCommits, SettledSuccess DEF SuccessIsReal, OpenLast
  <2>2. QED
    BY <1>t, <1>8, <2>1, VerifyUnknownCommits, CommitsEffect DEF SuccessIsReal, EffectInv
<1>9. ASSUME NEW w \in Workers, Block(w) PROVE EffectInv'
  BY <1>t, <1>9, BlockCommits, CommitsEffect DEF Row, SuccessIsReal
<1>10. ASSUME NEW w \in Workers, RecoveryRequired(w) PROVE EffectInv'
  BY <1>10, <1>m DEF RecoveryRequired, ledger, Positions
<1>11. ASSUME NEW w \in Workers, Start(w) PROVE EffectInv'
  <2>1. \A i \in DOMAIN Append(attempts, Started("dispatch")) :
            Append(attempts, Started("dispatch"))[i].status = "succeeded" => effects > 0
    BY <1>t, AppendFact DEF SuccessIsReal, Started
  <2>2. QED
    BY <1>t, <1>11, <2>1, StartCommits, CommitsEffect DEF SuccessIsReal, Row
<1>12. ASSUME NEW w \in Workers, Call(w) PROVE EffectInv'
  <2>1. /\ \A v \in Workers : v # w => got'[v] = got[v] /\ pc'[v] = pc[v]
        /\ got'[w] \in {"done", "error", "lost"}
    BY <1>t, <1>12 DEF Call, TypeOK
  <2>2. got'[w] = "done" => effects' > 0
    BY <1>t, <1>12 DEF Call, TypeOK
  <2>3. policy'.fixture => effects' <= 1
    BY <1>t, <1>12 DEF Call, TypeOK, EffectInv
  <2>4. SuccessIsReal'
    BY <1>t, <1>12 DEF Call, ledger, SuccessIsReal, TypeOK
  <2>5. \A v \in Workers : pc'[v] = "settle" =>
            got'[v] \in {"done", "error", "lost"} /\ (got'[v] = "done" => effects' > 0)
    <3>1. TAKE v \in Workers
    <3>2. CASE v = w
      BY <2>1, <2>2, <3>2
    <3>3. CASE v # w
      BY <1>t, <2>1, <3>3 DEF EffectInv
    <3>4. QED
      BY <3>2, <3>3
  <2>6. QED
    BY <1>t, <1>12, <2>3, <2>4, <2>5 DEF EffectInv, Call, ledger
<1>13. ASSUME NEW w \in Workers, Settle(w) PROVE EffectInv'
  <2> DEFINE res == IF got[w] = "lost" THEN None ELSE got[w]
             nxt == IF got[w] = "lost" THEN "stopped" ELSE "returned"
             o == Outcome(w)
  <2>1. /\ nxt # "settle" /\ o \in {"succeeded", "failed", "uncertain"}
        /\ Len(attempts) > 0
        /\ o = "succeeded" => effects > 0 /\ res = "done"
        /\ o = "failed" => res = "error"
    BY <1>13, SettleCommits DEF OpenLast
  <2>2. Commits(w, Row(o, exec.attempts, res), SettleLast(attempts, o), nxt) /\ got' = got
    BY <1>13, SettleCommits
  <2> HIDE DEF res, nxt, o
  <2>3. \A i \in DOMAIN SettleLast(attempts, o) :
            SettleLast(attempts, o)[i].status = "succeeded" => effects > 0
    BY <1>t, <2>1, SettledSuccess DEF SuccessIsReal
  <2>4. QED
    BY <1>t, <2>1, <2>2, <2>3, CommitsEffect DEF Row
<1>14. ASSUME NEW w \in Workers, Deliver(w) PROVE EffectInv'
  BY <1>14, <1>m DEF Deliver, Positions
<1>15. CASE UNCHANGED vars
  BY <1>t, <1>15 DEF EffectInv, SuccessIsReal, vars, ledger
<1>16. QED
  BY <1>1, <1>2, <1>3, <1>4, <1>5, <1>6, <1>7, <1>8, <1>9, <1>10, <1>11, <1>12,
     <1>13, <1>14, <1>15 DEF Next
LEMMA DeliveryStep == IInv /\ [Next]_vars => DeliveryInv'
<1> SUFFICES ASSUME IInv, [Next]_vars PROVE DeliveryInv'
  OBVIOUS
<1>t. TypeOK /\ CopyInv /\ PcInv /\ DeliveryInv
  BY DEF IInv
<1>1. ASSUME NEW w \in Workers, NEW e, NEW recs, NEW next, Commits(w, e, recs, next)
      PROVE  DeliveryInv'
  BY <1>t, <1>1 DEF Commits, DeliveryInv
<1>2. ASSUME NEW w \in Workers, Deliver(w) PROVE DeliveryInv'
  <2>1. pending /\ exec.status \in Terminal /\ got[w] = exec.result
    BY <1>t, <1>2 DEF Deliver, CopyInv, PcInv
  <2>2. delivered' = <<exec.result>>
    BY <1>t, <1>2, <2>1 DEF Deliver, DeliveryInv
  <2>3. QED
    BY <1>2, <2>1, <2>2 DEF Deliver, DeliveryInv
<1>3. ASSUME UNCHANGED <<exec, pending, delivered>> PROVE DeliveryInv'
  BY <1>t, <1>3 DEF DeliveryInv
<1>4. QED
  BY <1>1, <1>2, <1>3, Steps
     DEF Stop, Reuse, RecoveryRequired, Call, TakeOver, Moves, vars, ledger

----------------------------------------------------------------------------
(* The theorems. *)

LEMMA InitIInv == Init => IInv
<1> SUFFICES ASSUME Init PROVE IInv
  OBVIOUS
<1> USE ActionAssumption
<1>1. TypeOK
  BY DEF Init, TypeOK, Executions, ExecStatuses
<1>2. CopyInv /\ PcInv
  BY DEF Init, CopyInv, PcInv
<1>3. CallInv
  <2>1. Dispatches = {} /\ InFlight = {}
    BY DEF Init, Dispatches, InFlight
  <2>2. QED
    BY <2>1, FS_EmptySet DEF Init, CallInv
<1>4. EffectInv /\ DeliveryInv
  BY DEF Init, EffectInv, DeliveryInv, SuccessIsReal
<1>5. QED
  BY <1>1, <1>2, <1>3, <1>4 DEF IInv

\* The invariant is inductive: it holds at the first checkpoint and every step
\* of dispatch, recovery, delivery and take-over keeps it.
THEOREM Inductive == Spec => []IInv
<1>1. IInv /\ [Next]_vars => IInv'
  BY TypeStep, CopyStep, PcStep, CallStep, EffectStep, DeliveryStep DEF IInv
<1>2. QED
  BY <1>1, InitIInv, PTL DEF Spec

\* The ledger rows and every worker's copies keep their shape, whatever the
\* order in which owners replace each other (actions.rs, write_tool_executions).
THEOREM TypeCorrect == Spec => []TypeOK
<1>1. IInv => TypeOK
  BY DEF IInv
<1>2. QED
  BY <1>1, Inductive, PTL

\* Every external call has a durable started attempt of its own: dispatch
\* records it before it calls, and a successor never reuses it.
THEOREM CallsRecorded == Spec => []CallsAreRecorded
<1>1. IInv => CallsAreRecorded
  <2>1. IsFiniteSet(InFlight) => Cardinality(InFlight) \in Nat
    BY FS_CardinalityType
  <2>2. QED
    BY <2>1 DEF IInv, CallInv, CallsAreRecorded, TypeOK, Executions
<1>2. QED
  BY <1>1, Inductive, PTL

\* An action that may not be repeated is called at most once, any other at most
\* max_attempts times by all owners together, and a keyed recipient applies an
\* action at most once.
THEOREM UnsafeNeverRepeated == Spec => []NoUnsafeRepeat
<1>1. IInv => NoUnsafeRepeat
  <2> SUFFICES ASSUME IInv PROVE NoUnsafeRepeat
    OBVIOUS
  <2>1. Cardinality(InFlight) \in Nat
    BY FS_CardinalityType DEF IInv, CallInv
  <2>2. exec.attempts \in 0..MaxAttempts /\ calls \in Nat /\ MaxAttempts \in Nat
    BY ActionAssumption DEF IInv, TypeOK, Executions
  <2>3. calls <= exec.attempts
    BY <2>1, <2>2 DEF IInv, CallInv
  <2>4. calls <= MaxAttempts /\ (~SafeToRepeat => calls <= 1)
    BY <2>2, <2>3 DEF IInv, CallInv
  <2>5. QED
    BY <2>4 DEF IInv, EffectInv, NoUnsafeRepeat
<1>2. QED
  BY <1>1, Inductive, PTL

\* The model is told one result of the call, the recorded one, and a success
\* only for an effect that happened.
THEOREM ResultsReal == Spec => []ResultIsReal
<1>1. IInv => ResultIsReal
  <2> SUFFICES ASSUME IInv PROVE ResultIsReal
    OBVIOUS
  <2>1. CASE pending
    BY <2>1 DEF IInv, DeliveryInv, EffectInv, ResultIsReal, DeliveredOnce
  <2>2. CASE ~pending
    <3>1. Len(delivered) = 1 /\ delivered[1] = exec.result
      BY <2>2 DEF IInv, DeliveryInv
    <3>2. QED
      BY <2>2, <3>1 DEF IInv, DeliveryInv, EffectInv, ResultIsReal, DeliveredOnce
  <2>3. QED
    BY <2>1, <2>2
<1>2. QED
  BY <1>1, Inductive, PTL

\* Recorded outcomes are final and attempts are never taken back: what
\* write_tool_executions refuses, no handler ever asks for either.
THEOREM OutcomesAreStable == Spec => OutcomesStable
<1> DEFINE Stable ==
        /\ exec.status \in Terminal => exec' = exec
        /\ Len(attempts') >= Len(attempts)
        /\ \A i \in DOMAIN attempts :
             attempts[i].status # "started" => attempts'[i] = attempts[i]
<1>1. IInv /\ [Next]_vars => [Stable]_vars
  <2> SUFFICES ASSUME IInv, [Next]_vars PROVE Stable
    OBVIOUS
  <2>t. TypeOK /\ attempts \in Seq(Attempts) /\ Len(attempts) \in Nat
    BY DEF IInv, TypeOK
  <2>s. ASSUME UNCHANGED <<exec, attempts>> PROVE Stable
    BY <2>t, <2>s
  <2>k. ASSUME NEW s \in {"succeeded", "failed", "uncertain"}, Len(attempts) > 0,
               attempts[Len(attempts)].status = "started",
               attempts' = SettleLast(attempts, s), exec.status \notin Terminal
        PROVE  Stable
    <3>1. /\ Len(SettleLast(attempts, s)) = Len(attempts)
          /\ \A i \in DOMAIN attempts :
               i # Len(attempts) => SettleLast(attempts, s)[i] = attempts[i]
      <4>1. /\ attempts \in Seq(Attempts) /\ Len(attempts) > 0
            /\ s \in {"started", "succeeded", "failed", "uncertain"}
        BY <2>t, <2>k
      <4>2. QED
        BY <4>1, SettleLastFact, Zenon
    <3>2. QED
      BY <2>t, <2>k, <3>1
  <2>1. ASSUME NEW w \in Workers, Intent(w) PROVE Stable
    BY <2>t, <2>1, IntentCommits DEF Commits, Terminal
  <2>2. ASSUME NEW w \in Workers, CloseOpenAttempts(w) PROVE Stable
    <3>1. CASE Commits(w, exec, Closed(attempts), "decide")
      BY <2>t, <3>1, ClosedFact DEF Commits
    <3>2. QED
      BY <2>2, <2>s, <3>1, CloseCommits DEF ledger
  <2>3. ASSUME NEW w \in Workers, VerifyStart(w) PROVE Stable
    BY <2>t, <2>3, VerifyStartCommits, AppendFact DEF Commits
  <2>4. ASSUME NEW w \in Workers, VerifyFound(w) PROVE Stable
    BY <2>4, <2>k, VerifyFoundCommits DEF Commits, OpenLast, Started
  <2>5. ASSUME NEW w \in Workers, VerifyUnknown(w) PROVE Stable
    BY <2>5, <2>k, VerifyUnknownCommits DEF Commits, OpenLast, Started
  <2>6. ASSUME NEW w \in Workers, Block(w) PROVE Stable
    BY <2>t, <2>6, BlockCommits DEF Commits
  <2>7. ASSUME NEW w \in Workers, Start(w) PROVE Stable
    BY <2>t, <2>7, StartCommits, AppendFact DEF Commits
  <2>8. ASSUME NEW w \in Workers, Settle(w) PROVE Stable
    <3>1. /\ Outcome(w) \in {"succeeded", "failed", "uncertain"}
          /\ attempts' = SettleLast(attempts, Outcome(w))
          /\ exec.status \notin Terminal /\ OpenLast("dispatch")
      BY <2>8, SettleCommits DEF Commits, Terminal
    <3>2. QED
      BY <3>1, <2>k DEF OpenLast, Started
  <2>9. QED
    BY <2>s, <2>1, <2>2, <2>3, <2>4, <2>5, <2>6, <2>7, <2>8
       DEF Next, TakeOver, Stop, Reuse, RecoveryRequired, Call, Deliver, vars, ledger
<1>2. QED
  BY <1>1, Inductive, PTL DEF Spec, OutcomesStable
=============================================================================
