------------------------- MODULE RunLifecycleProofs -------------------------
(***************************************************************************)
(* Proofs about RunLifecycle, for any activations, commands, kinds of      *)
(* command, lease lengths and bounds.                                      *)
(*                                                                         *)
(* The argument is about revisions: a handler whose copy has the revision  *)
(* of the session row has the row's content, but for what it has changed   *)
(* in memory itself, and only such a handler saves.                        *)
(***************************************************************************)
EXTENDS RunLifecycle, FiniteSetTheorems, TLAPS

\* The session row and the run rows: the run that the snapshot names has the
\* status the snapshot gives, and no other run is running.
SessInv ==
    /\ sess.run = None <=> sess.runStatus = "none"
    /\ sess.run # None => runs[sess.run].status = sess.runStatus
    /\ \A h \in Activations : runs[h].status = "running" => sess.run = h

\* Positions of a handler whose run exists, or is about to.
InRun == {"emitted", "working", "cancelled", "blocked", "failed", "finishing"}
Before == {"prepared", "resumed", "setup", "engine"}
Over == {"release", "settle", "done", "crashed"}

\* A run row belongs to a handler that started a run, and no command has two.
RunInv ==
    /\ \A h \in Activations : runs[h].status # "absent" => pc[h] \in InRun \cup Over
    /\ \A g, h \in Activations :
        /\ CommandOf[g] = CommandOf[h]
        /\ runs[g].status # "absent" /\ runs[h].status # "absent"
        => g = h

\* What a handler's copy says when it has the revision of the session row.
MemOK(h) ==
    /\ pc[h] \in {"loaded", "owner"} \cup Before \cup {"emitted", "working", "cancelled"} =>
        my[h] = sess
    /\ pc[h] \in {"loaded", "owner", "prepared"} /\ Kind[CommandOf[h]] # "resume" =>
        sess.status = "active"
    /\ pc[h] \in Before => sess.runStatus # "running"
    /\ pc[h] \in Before \ {"prepared"} => sess.status = "active"
    /\ pc[h] \in InRun =>
        /\ sess.run = h => sess.runStatus # "interrupted"
        /\ my[h].run = h
    /\ pc[h] \in InRun \ {"failed"} => sess.run = h
    /\ pc[h] = "emitted" =>
        IF sess.status = "active" THEN sess.runStatus = "running"
        ELSE sess.runStatus \in {"complete", "failed", "blocked"}
    /\ pc[h] = "working" => sess.status = "active" /\ sess.runStatus = "running"
    /\ pc[h] = "failed" =>
        /\ IsStream(h)
        /\ sess.run = h \/ (sess.runStatus # "running" /\ runs[h].status = "absent")
    /\ pc[h] = "finishing" => my[h].runStatus \in {"complete", "failed", "cancelled", "blocked"}

MemInv ==
    /\ \A h \in Actors : my[h].revision <= sess.revision
    /\ \A h \in Activations : my[h].revision = sess.revision => MemOK(h)
    /\ my[Reconciler].revision = sess.revision /\ pc[Reconciler] = "working" =>
        my[Reconciler] = sess /\ sess.runStatus = "running"

\* A definitive answer is on its way only from a command that has settled, and
\* a settled command has a run that ended as its status says.
SettleInv ==
    /\ \A h \in Activations :
        /\ pc[h] = "release" => answer[h] \in {"ok", "refused", "error", "stream"}
        /\ pc[h] = "settle" => answer[h] \in {"ok", "refused", "error"}
        /\ pc[h] \in {"release", "settle"} /\ answer[h] = "ok" =>
            Row(h).status \in {"succeeded", "blocked"}
    /\ \A k \in Commands :
        /\ row[k].status = "succeeded" =>
            \E h \in Activations : CommandOf[h] = k
                /\ runs[h].status \in {"complete", "failed", "cancelled"}
        /\ row[k].status = "blocked" =>
            \E h \in Activations : CommandOf[h] = k /\ runs[h].status = "blocked"

IInv == TypeOK /\ SessInv /\ RunInv /\ MemInv /\ SettleInv

----------------------------------------------------------------------------
(* What the SQL statements of CommandRow make of a row, field by field. *)

Fields(s, o, f, t, p, a) ==
    [status |-> s, owner |-> o, fence |-> f, ttl |-> t, response |-> p, admission |-> a]

IsRow(x) == x = Fields(x.status, x.owner, x.fence, x.ttl, x.response, x.admission)

LEMMA PendingFact ==
    ASSUME NEW a
    PROVE  PendingRow(a) = Fields("pending", None, 0, 0, None, a)
  BY DEF PendingRow, Fields

LEMMA ClaimedFact ==
    ASSUME NEW old, NEW o
    PROVE  ClaimedBy(old, o)
             = Fields("started", o, old.fence + 1, CommandTicks, old.response, old.admission)
  BY DEF ClaimedBy, Fields

LEMMA ReleasedFact ==
    ASSUME NEW old, NEW s
    PROVE  Released(old, s) = Fields(s, None, old.fence, 0, old.response, old.admission)
  BY DEF Released, Fields

LEMMA FinishedFact ==
    ASSUME NEW old, NEW p
    PROVE  Finished(old, p) = Fields(IF p = "ok" THEN "succeeded" ELSE "failed",
                                     None, old.fence, 0, p, old.admission)
  BY DEF Finished, Fields

LEMMA TickFact ==
    ASSUME NEW old, IsRow(old)
    PROVE  [old EXCEPT !.ttl = @ - 1]
             = Fields(old.status, old.owner, old.fence, old.ttl - 1,
                      old.response, old.admission)
  BY DEF IsRow, Fields

\* The status of a row after each statement.
LEMMA StatusFact ==
    ASSUME NEW old, IsRow(old), NEW o, NEW s, NEW p
    PROVE  /\ ClaimedBy(old, o).status = "started"
           /\ Released(old, s).status = s
           /\ Finished(old, p).status = IF p = "ok" THEN "succeeded" ELSE "failed"
           /\ [old EXCEPT !.ttl = @ - 1].status = old.status
<1>1. ClaimedBy(old, o).status = "started"
  BY ClaimedFact DEF Fields
<1>2. Released(old, s).status = s
  BY ReleasedFact DEF Fields
<1>3. Finished(old, p).status = IF p = "ok" THEN "succeeded" ELSE "failed"
  BY FinishedFact DEF Fields
<1>4. [old EXCEPT !.ttl = @ - 1].status = old.status
  BY TickFact DEF Fields
<1>5. QED
  BY <1>1, <1>2, <1>3, <1>4

----------------------------------------------------------------------------
(* Rows and snapshots. *)

Rows == [status : Statuses, owner : Activations \cup {None}, fence : Nat,
         ttl : 0..CommandTicks, response : Responses \cup {None}, admission : Commands]
RunStatuses == Ended \cup {"none", "running"}
Snapshots == [revision : Nat, status : {"active", "complete", "failed"},
              run : Activations \cup {None}, runStatus : RunStatuses]
RunRows == [status : Ended \cup {"absent", "running"}, cancel : BOOLEAN]

Snap(v, st, r, x) == [revision |-> v, status |-> st, run |-> r, runStatus |-> x]

LEMMA RowFields == ASSUME NEW x \in Rows PROVE IsRow(x)
  BY DEF IsRow, Fields, Rows

LEMMA SnapType ==
    ASSUME NEW v \in Nat, NEW st \in {"active", "complete", "failed"},
           NEW r \in Activations \cup {None}, NEW x \in RunStatuses
    PROVE  Snap(v, st, r, x) \in Snapshots
  BY DEF Snap, Snapshots

LEMMA SnapFields ==
    ASSUME NEW s \in Snapshots
    PROVE  /\ s = Snap(s.revision, s.status, s.run, s.runStatus)
           /\ s.revision \in Nat /\ s.status \in {"active", "complete", "failed"}
           /\ s.run \in Activations \cup {None} /\ s.runStatus \in RunStatuses
  BY DEF Snap, Snapshots

\* The changes a handler makes to its copy before it saves it.
LEMMA SnapStatus ==
    ASSUME NEW s \in Snapshots, NEW x
    PROVE  /\ [s EXCEPT !.status = x] = Snap(s.revision, x, s.run, s.runStatus)
           /\ [s EXCEPT !.runStatus = x] = Snap(s.revision, s.status, s.run, x)
           /\ [s EXCEPT !.run = x] = Snap(s.revision, s.status, x, s.runStatus)
           /\ [s EXCEPT !.revision = x] = Snap(x, s.status, s.run, s.runStatus)
<1>1. [s EXCEPT !.status = x] = Snap(s.revision, x, s.run, s.runStatus)
  BY DEF Snap, Snapshots
<1>2. [s EXCEPT !.runStatus = x] = Snap(s.revision, s.status, s.run, x)
  BY DEF Snap, Snapshots
<1>3. [s EXCEPT !.run = x] = Snap(s.revision, s.status, x, s.runStatus)
  BY DEF Snap, Snapshots
<1>4. [s EXCEPT !.revision = x] = Snap(x, s.status, s.run, s.runStatus)
  BY DEF Snap, Snapshots
<1>5. QED
  BY <1>1, <1>2, <1>3, <1>4

LEMMA SnapConcluded ==
    ASSUME NEW s \in Snapshots, NEW x, NEW y
    PROVE  [s EXCEPT !.runStatus = x, !.status = y] = Snap(s.revision, y, s.run, x)
<1> DEFINE t == [s EXCEPT !.runStatus = x]
<1>1. t = Snap(s.revision, s.status, s.run, x)
  BY SnapStatus
<1> HIDE DEF t
<1>2. [t EXCEPT !.status = y] = Snap(s.revision, y, s.run, x)
  BY <1>1 DEF Snap
<1>3. QED
  BY <1>2 DEF t

LEMMA SnapStopped ==
    ASSUME NEW s \in Snapshots, NEW x, NEW y
    PROVE  [s EXCEPT !.status = y, !.runStatus = x] = Snap(s.revision, y, s.run, x)
<1> DEFINE t == [s EXCEPT !.status = y]
<1>1. t = Snap(s.revision, y, s.run, s.runStatus)
  BY SnapStatus
<1> HIDE DEF t
<1>2. [t EXCEPT !.runStatus = x] = Snap(s.revision, y, s.run, x)
  BY <1>1 DEF Snap
<1>3. QED
  BY <1>2 DEF t

LEMMA SnapStarted ==
    ASSUME NEW s \in Snapshots, NEW r, NEW x
    PROVE  [s EXCEPT !.run = r, !.runStatus = x] = Snap(s.revision, s.status, r, x)
<1> DEFINE t == [s EXCEPT !.run = r]
<1>1. t = Snap(s.revision, s.status, r, s.runStatus)
  BY SnapStatus
<1> HIDE DEF t
<1>2. [t EXCEPT !.runStatus = x] = Snap(s.revision, s.status, r, x)
  BY <1>1 DEF Snap
<1>3. QED
  BY <1>2 DEF t

LEMMA Types ==
    TypeOK =>
        /\ row \in [Commands -> Rows] /\ sess \in Snapshots /\ my \in [Actors -> Snapshots]
        /\ runs \in [Activations -> RunRows]
        /\ \A h \in Activations : /\ h \in Actors /\ h # Reconciler /\ h # None
                                  /\ CommandOf[h] \in Commands /\ Row(h) \in Rows
        /\ Reconciler \in Actors
  BY LifecycleAssumption, ReconcilerAssumption
     DEF TypeOK, Rows, Snapshots, RunStatuses, RunRows, Actors, Row

----------------------------------------------------------------------------
(* Saves. *)

\* The actor h saves a snapshot with status st that names the run r with
\* status x, from the current revision.
Writes(h, st, r, x) ==
    /\ my[h].revision = sess.revision
    /\ sess' = Snap(sess.revision + 1, st, r, x)
    /\ my' = [my EXCEPT ![h] = sess']
    /\ runs' \in [Activations -> RunRows]
    /\ \A o \in Activations : runs'[o].status = IF o = r THEN x ELSE runs[o].status

LEMMA WriteFact ==
    ASSUME TypeOK, NEW h \in Actors, NEW v, NEW st \in {"active", "complete", "failed"},
           NEW r \in Activations \cup {None}, NEW x \in RunStatuses, r # None => x # "none",
           v = my[h].revision,
           WriteSession(h, Snap(v, st, r, x)), my[h].revision = sess.revision
    PROVE  Writes(h, st, r, x)
<1> DEFINE s == Snap(v, st, r, x)
<1>t. sess \in Snapshots /\ my \in [Actors -> Snapshots] /\ runs \in [Activations -> RunRows]
      /\ sess.revision \in Nat /\ v \in Nat
  BY Types, SnapFields
<1>1. s \in Snapshots /\ s.run = r /\ s.runStatus = x /\ s.status = st
  BY <1>t, SnapType DEF Snap
<1>2. [s EXCEPT !.revision = sess.revision + 1] = Snap(sess.revision + 1, st, r, x)
  BY <1>1, SnapStatus
<1>3. WriteSession(h, s)
  OBVIOUS
<1> HIDE DEF s
<1>4. sess' = Snap(sess.revision + 1, st, r, x) /\ my' = [my EXCEPT ![h] = sess']
  BY <1>2, <1>3 DEF WriteSession
<1>5. runs' = IF r = None THEN runs ELSE [runs EXCEPT ![r].status = x]
  BY <1>1, <1>3 DEF WriteSession
<1>6. CASE r = None
  <2>1. runs' = runs
    BY <1>5, <1>6
  <2>2. \A o \in Activations : o # r
    BY <1>6, LifecycleAssumption
  <2>3. QED
    BY <1>t, <1>4, <2>1, <2>2 DEF Writes
<1>7. CASE r # None
  <2>1. r \in Activations /\ runs[r] \in RunRows /\ x \in Ended \cup {"running"}
    BY <1>t, <1>7 DEF RunStatuses
  <2> DEFINE new == [runs[r] EXCEPT !.status = x]
  <2>2. new \in RunRows /\ new.status = x
    BY <2>1 DEF RunRows
  <2>3. runs' = [runs EXCEPT ![r] = new]
    BY <1>5, <1>7
  <2> HIDE DEF new
  <2>4. runs' \in [Activations -> RunRows]
    BY <1>t, <2>1, <2>2, <2>3
  <2>5. \A o \in Activations : runs'[o].status = IF o = r THEN x ELSE runs[o].status
    BY <1>t, <2>1, <2>2, <2>3
  <2>6. QED
    BY <1>4, <2>4, <2>5 DEF Writes
<1>8. QED
  BY <1>6, <1>7
\* What a save of an activation presupposes and does.
LEMMA Saved ==
    ASSUME IInv, NEW h \in Activations, NEW st \in {"active", "complete", "failed"},
           NEW r \in Activations \cup {None}, NEW x \in RunStatuses, r # None => x # "none",
           NEW s, s = Snap(my[h].revision, st, r, x),
           CanSave(h, s), WriteSession(h, s)
    PROVE  /\ Writes(h, st, r, x) /\ MemOK(h) /\ Row(h).status = "started" /\ Row(h).ttl > 0
           /\ r = h => \A o \in Activations \ {h} :
                           CommandOf[o] = CommandOf[h] => runs[o].status = "absent"
<1>1. my[h].revision = sess.revision /\ Row(h).status = "started" /\ Row(h).ttl > 0
  BY DEF CanSave, Guard
<1>2. MemOK(h)
  BY <1>1 DEF IInv, MemInv
<1>3. h \in Actors /\ TypeOK
  BY DEF Actors, IInv
<1>4. Writes(h, st, r, x)
  BY <1>1, <1>3, WriteFact
<1>5. s.run = r
  BY DEF Snap
<1>6. QED
  BY <1>1, <1>2, <1>4, <1>5 DEF CanSave, NewRunAllowed

\* The session changes, the run it names does not.
Rewrites(h) == \E st \in {"active", "complete", "failed"} : Writes(h, st, sess.run, sess.runStatus)

\* The run that was running is closed, and its command with it unless that is
\* live.
Interrupts(h) ==
    /\ sess.runStatus = "running"
    /\ \E st \in {"active", "complete", "failed"} : Writes(h, st, sess.run, "interrupted")
    /\ \/ h \in Activations /\ Row(h).ttl > 0 /\ AbandonOrigin(sess.run, CommandOf[h])
       \/ h = Reconciler /\ AbandonOrigin(sess.run, None)

\* A handler saves its own run, the only one of its command.
Results == {"complete", "failed", "cancelled", "blocked"}
Owns(h, st, x) ==
    /\ Writes(h, st, h, x)
    /\ Row(h).status = "started"
    /\ sess.run = h \/ sess.runStatus # "running"
    /\ runs[h].status # "interrupted"
    /\ \A o \in Activations \ {h} :
            CommandOf[o] = CommandOf[h] => runs[o].status = "absent"

LEMMA CopyFact ==
    ASSUME IInv, NEW h \in Activations
    PROVE  /\ my[h] \in Snapshots /\ sess \in Snapshots
           /\ sess = Snap(sess.revision, sess.status, sess.run, sess.runStatus)
           /\ my[h] = Snap(my[h].revision, my[h].status, my[h].run, my[h].runStatus)
           /\ my[h].revision \in Nat /\ my[h].status \in {"active", "complete", "failed"}
           /\ my[h].run \in Activations \cup {None} /\ my[h].runStatus \in RunStatuses
           /\ sess.revision \in Nat /\ sess.status \in {"active", "complete", "failed"}
           /\ sess.run \in Activations \cup {None} /\ sess.runStatus \in RunStatuses
           /\ sess.run # None <=> sess.runStatus # "none"
           /\ h \in Actors /\ h # None
<1>1. my[h] \in Snapshots /\ sess \in Snapshots /\ h \in Actors /\ h # None
  BY Types DEF IInv
<1>2. QED
  BY <1>1, SnapFields DEF IInv, SessInv

LEMMA InterruptedSaves ==
    ASSUME IInv, NEW h \in Activations, Interrupted(h)
    PROVE  /\ pc[h] = "owner" /\ Goto(h, "prepared")
           /\ \/ /\ my[h].runStatus # "running" /\ UNCHANGED <<row, sess, my, runs>>
              \/ /\ sess.runStatus = "running" /\ MemOK(h) /\ my[h] = sess
                 /\ Writes(h, sess.status, sess.run, "interrupted")
                 /\ AbandonOrigin(sess.run, CommandOf[h]) /\ Row(h).ttl > 0
<1>1. CASE my[h].runStatus # "running"
  BY <1>1 DEF Interrupted
<1>2. CASE my[h].runStatus = "running"
  <2> DEFINE s == [my[h] EXCEPT !.runStatus = "interrupted"]
  <2>1. CanSave(h, s) /\ WriteSession(h, s) /\ AbandonOrigin(s.run, CommandOf[h])
    BY <1>2 DEF Interrupted
  <2>m. my[h] \in Snapshots
    BY CopyFact
  <2>2. s = Snap(my[h].revision, my[h].status, my[h].run, "interrupted")
    BY <2>m, SnapStatus, Zenon
  <2>3. s.run = my[h].run
    BY <2>2 DEF Snap
  <2> HIDE DEF s
  <2>4. "interrupted" \in RunStatuses
    BY DEF RunStatuses, Ended
  <2>5. my[h].revision = sess.revision
    BY <2>1 DEF CanSave
  <2>6. MemOK(h) /\ my[h] = sess
    BY <2>5 DEF IInv, MemInv, MemOK, Interrupted
  <2>7. Writes(h, my[h].status, my[h].run, "interrupted") /\ Row(h).ttl > 0
    BY <2>1, <2>2, <2>4, CopyFact, Saved
  <2>8. QED
    BY <1>2, <2>1, <2>3, <2>6, <2>7 DEF Interrupted
<1>3. QED
  BY <1>1, <1>2 DEF Interrupted

LEMMA ResumedSaves ==
    ASSUME IInv, NEW h \in Activations, Resumed(h)
    PROVE  /\ pc[h] = "prepared" /\ Goto(h, "resumed") /\ row' = row /\ MemOK(h)
           /\ Writes(h, "active", sess.run, sess.runStatus)
<1> DEFINE s == [my[h] EXCEPT !.status = "active"]
<1>1. CanSave(h, s) /\ WriteSession(h, s) /\ pc[h] = "prepared" /\ Goto(h, "resumed") /\ row' = row
  BY DEF Resumed, Save
<1>2. s = Snap(my[h].revision, "active", my[h].run, my[h].runStatus)
  BY CopyFact, SnapStatus
<1> HIDE DEF s
<1>3. my[h].revision = sess.revision
  BY <1>1 DEF CanSave
<1>4. MemOK(h) /\ my[h] = sess
  BY <1>1, <1>3 DEF IInv, MemInv, MemOK, Before
<1>5. Writes(h, "active", my[h].run, my[h].runStatus)
  BY <1>1, <1>2, <1>4, CopyFact, Saved
<1>6. QED
  BY <1>1, <1>4, <1>5

\* A checkpoint of the unchanged copy.
LEMMA CheckpointSaves ==
    ASSUME IInv, NEW h \in Activations, Save(h, my[h]),
           pc[h] \in Before \cup {"emitted", "working", "cancelled"}
    PROVE  /\ row' = row /\ MemOK(h) /\ my[h] = sess
           /\ Writes(h, sess.status, sess.run, sess.runStatus)
<1>1. my[h].revision = sess.revision /\ CanSave(h, my[h]) /\ WriteSession(h, my[h]) /\ row' = row
  BY DEF Save, CanSave
<1>2. MemOK(h) /\ my[h] = sess
  BY <1>1 DEF IInv, MemInv, MemOK
<1>3. Writes(h, my[h].status, my[h].run, my[h].runStatus)
  BY <1>1, <1>2, CopyFact, Saved
<1>4. QED
  BY <1>1, <1>2, <1>3

\* The run row of a handler that has not started its run.
LEMMA NotStarted ==
    ASSUME IInv, NEW h \in Activations, pc[h] \in Before
    PROVE  runs[h].status = "absent" /\ sess.run # h
<1>1. runs[h].status = "absent"
  BY DEF IInv, RunInv, Before, InRun, Over
<1>2. sess.run = h => runs[h].status = sess.runStatus
  BY CopyFact DEF IInv, SessInv
<1>3. sess.runStatus # "absent"
  BY CopyFact DEF RunStatuses, Ended
<1>4. QED
  BY <1>1, <1>2, <1>3

LEMMA StartedSaves ==
    ASSUME IInv, NEW h \in Activations, Started(h)
    PROVE  /\ pc[h] \in Before /\ Goto(h, "emitted") /\ row' = row /\ sess.status = "active"
           /\ Owns(h, "active", "running")
<1> DEFINE s == [my[h] EXCEPT !.run = h, !.runStatus = "running"]
<1>1. /\ CanSave(h, s) /\ WriteSession(h, s) /\ Goto(h, "emitted") /\ row' = row
      /\ pc[h] = "engine" \/ (pc[h] = "prepared" /\ Kind[CommandOf[h]] # "resume")
  BY DEF Started, Save
<1>m. my[h] \in Snapshots
  BY CopyFact
<1>2. s = Snap(my[h].revision, my[h].status, h, "running")
  BY <1>m, SnapStarted, Zenon
<1> HIDE DEF s
<1>3. my[h].revision = sess.revision
  BY <1>1 DEF CanSave
<1>4. MemOK(h) /\ my[h] = sess /\ sess.status = "active" /\ sess.runStatus # "running"
  BY <1>1, <1>3 DEF IInv, MemInv, MemOK, Before
<1>5. "running" \in RunStatuses /\ "active" \in {"active", "complete", "failed"}
  BY DEF RunStatuses
<1>6. /\ Writes(h, "active", h, "running") /\ Row(h).status = "started"
      /\ \A o \in Activations \ {h} :
            CommandOf[o] = CommandOf[h] => runs[o].status = "absent"
  BY <1>1, <1>2, <1>4, <1>5, CopyFact, Saved
<1>7. runs[h].status = "absent"
  BY <1>1, NotStarted DEF Before
<1>8. QED
  BY <1>1, <1>4, <1>6, <1>7 DEF Owns, Before

\* A run row that its own handler may still write is not interrupted.
LEMMA OwnRun ==
    ASSUME IInv, NEW h \in Activations, MemOK(h), pc[h] \in InRun
    PROVE  /\ runs[h].status # "interrupted"
           /\ sess.run = h \/ sess.runStatus # "running"
<1>1. sess.run = h => runs[h].status = sess.runStatus /\ sess.runStatus # "interrupted"
  BY CopyFact DEF IInv, SessInv, MemOK
<1>2. sess.run # h => runs[h].status = "absent" /\ sess.runStatus # "running"
  BY DEF MemOK, InRun
<1>3. QED
  BY <1>1, <1>2

LEMMA ConcludedSaves ==
    ASSUME IInv, NEW h \in Activations, Concluded(h)
    PROVE  /\ pc[h] = "working" /\ Goto(h, "emitted") /\ row' = row
           /\ \/ Owns(h, "complete", "complete")
              \/ Owns(h, "failed", "failed")
              \/ Owns(h, "failed", "blocked")
<1>1. PICK result \in {"complete", "failed", "blocked"} :
           Save(h, [my[h] EXCEPT !.runStatus = result,
                                 !.status = IF result = "complete" THEN result ELSE "failed"])
  BY DEF Concluded
<1> DEFINE st == IF result = "complete" THEN result ELSE "failed"
           s == [my[h] EXCEPT !.runStatus = result, !.status = st]
<1>2. st \in {"active", "complete", "failed"} /\ result \in RunStatuses /\ result # "none"
  BY DEF RunStatuses, Ended
<1>m. my[h] \in Snapshots
  BY CopyFact
<1>3. \A y : [my[h] EXCEPT !.runStatus = result, !.status = y]
            = Snap(my[h].revision, y, my[h].run, result)
  BY <1>m, SnapConcluded, Zenon
<1>4. CanSave(h, s) /\ WriteSession(h, s) /\ row' = row
  BY <1>1 DEF Save
<1> HIDE DEF st
<1>5. s = Snap(my[h].revision, st, my[h].run, result)
  BY <1>3, Zenon
<1> HIDE DEF s
<1>6. my[h].revision = sess.revision /\ pc[h] = "working"
  BY <1>4 DEF CanSave, Concluded
<1>7. MemOK(h) /\ my[h] = sess /\ my[h].run = h
  BY <1>6 DEF IInv, MemInv, MemOK, InRun
<1>8. /\ Writes(h, st, h, result) /\ Row(h).status = "started"
      /\ \A o \in Activations \ {h} :
            CommandOf[o] = CommandOf[h] => runs[o].status = "absent"
  BY <1>2, <1>4, <1>5, <1>7, CopyFact, Saved
<1>9. Owns(h, st, result)
  BY <1>6, <1>7, <1>8, OwnRun DEF Owns, InRun
<1>10. QED
  BY <1>4, <1>6, <1>9 DEF st, Concluded
LEMMA StoppedSaves ==
    ASSUME IInv, NEW h \in Activations, RunStopped(h)
    PROVE  /\ pc[h] \in {"cancelled", "blocked", "failed"} /\ Goto(h, "finishing") /\ row' = row
           /\ \/ Owns(h, "failed", pc[h])
              \/ /\ my' = [my EXCEPT ![h] = Snap(my[h].revision, "failed", my[h].run, pc[h])]
                 /\ ~IsStream(h) /\ UNCHANGED <<sess, runs>>
<1> DEFINE s == [my[h] EXCEPT !.status = "failed", !.runStatus = pc[h]]
<1>0. pc[h] \in {"cancelled", "blocked", "failed"} /\ Goto(h, "finishing")
  BY DEF RunStopped
<1>m. my[h] \in Snapshots
  BY CopyFact
<1>1. s = Snap(my[h].revision, "failed", my[h].run, pc[h])
  BY <1>m, SnapStopped, Zenon
<1>2. CASE ~IsStream(h)
  <2>1. my' = [my EXCEPT ![h] = s] /\ UNCHANGED <<row, sess, runs>>
    BY <1>2 DEF RunStopped
  <2> HIDE DEF s
  <2>2. QED
    BY <1>0, <1>1, <1>2, <2>1
<1>3. CASE IsStream(h)
  <2>1. CanSave(h, s) /\ WriteSession(h, s) /\ row' = row
    BY <1>3 DEF RunStopped, Save
  <2> HIDE DEF s
  <2>2. my[h].revision = sess.revision
    BY <2>1 DEF CanSave
  <2>3. MemOK(h) /\ my[h].run = h
    BY <1>0, <2>2 DEF IInv, MemInv, MemOK, InRun
  <2>4. pc[h] \in RunStatuses /\ pc[h] # "none"
    BY <1>0 DEF RunStatuses, Ended
  <2>5. /\ Writes(h, "failed", h, pc[h]) /\ Row(h).status = "started"
        /\ \A o \in Activations \ {h} :
              CommandOf[o] = CommandOf[h] => runs[o].status = "absent"
    BY <1>1, <2>1, <2>3, <2>4, CopyFact, Saved
  <2>6. Owns(h, "failed", pc[h])
    BY <1>0, <2>3, <2>5, OwnRun DEF Owns, InRun
  <2>7. QED
    BY <1>0, <2>1, <2>6
<1>4. QED
  BY <1>2, <1>3

LEMMA FinishedSaves ==
    ASSUME IInv, NEW h \in Activations, RunFinished(h)
    PROVE  /\ pc[h] = "finishing" /\ Goto(h, "release") /\ my[h].runStatus \in Results
           /\ Owns(h, my[h].status, my[h].runStatus)
<1>1. my[h].revision = sess.revision /\ pc[h] = "finishing" /\ Goto(h, "release")
      /\ CanSave(h, my[h]) /\ WriteSession(h, my[h])
  BY DEF RunFinished, CanSave
<1>2. MemOK(h) /\ my[h].run = h /\ my[h].runStatus \in Results
  BY <1>1 DEF IInv, MemInv, MemOK, InRun, Results
<1>3. my[h].runStatus # "none"
  BY <1>2 DEF Results
<1>4. /\ Writes(h, my[h].status, h, my[h].runStatus) /\ Row(h).status = "started"
      /\ \A o \in Activations \ {h} :
            CommandOf[o] = CommandOf[h] => runs[o].status = "absent"
  BY <1>1, <1>2, <1>3, CopyFact, Saved
<1>5. QED
  BY <1>1, <1>2, <1>4, OwnRun DEF Owns, InRun

LEMMA ReconciledSaves ==
    ASSUME IInv, RunReconciled
    PROVE  /\ pc[Reconciler] = "working" /\ Goto(Reconciler, "release")
           /\ sess.runStatus = "running" /\ sess.run # None
           /\ Writes(Reconciler, "failed", sess.run, "interrupted")
           /\ AbandonOrigin(sess.run, None)
<1> DEFINE s == [my[Reconciler] EXCEPT !.status = "failed", !.runStatus = "interrupted"]
<1>t. TypeOK /\ my[Reconciler] \in Snapshots /\ Reconciler \in Actors
  BY Types DEF IInv
<1>1. /\ WriteSession(Reconciler, s) /\ AbandonOrigin(s.run, None)
      /\ pc[Reconciler] = "working" /\ Goto(Reconciler, "release")
      /\ my[Reconciler].revision = sess.revision
  BY DEF RunReconciled
<1>2. s = Snap(my[Reconciler].revision, "failed", my[Reconciler].run, "interrupted")
  BY <1>t, SnapStopped, Zenon
<1>3. s.run = my[Reconciler].run
  BY <1>2 DEF Snap
<1> HIDE DEF s
<1>4. my[Reconciler] = sess /\ sess.runStatus = "running"
  BY <1>1 DEF IInv, MemInv
<1>5. "interrupted" \in RunStatuses /\ my[Reconciler].run \in Activations \cup {None}
  BY <1>t, SnapFields DEF RunStatuses, Ended
<1>6. Writes(Reconciler, "failed", my[Reconciler].run, "interrupted")
  BY <1>t, <1>1, <1>2, <1>5, WriteFact
<1>7. sess.run # None
  BY <1>4 DEF IInv, SessInv
<1>8. QED
  BY <1>1, <1>3, <1>4, <1>6, <1>7

----------------------------------------------------------------------------
(* The steps of the system, as changes of the session and of the run rows.  *)

\* Neither changes, but for a request to cancel.
Still ==
    /\ sess' = sess /\ runs' \in [Activations -> RunRows]
    /\ \A o \in Activations : runs'[o].status = runs[o].status

OwnStatuses == Results \cup {"running"}
Kinds ==
    \/ Still
    \/ \E h \in Actors : Rewrites(h) \/ Interrupts(h)
    \/ \E h \in Activations, st \in {"active", "complete", "failed"}, x \in OwnStatuses :
            Owns(h, st, x) /\ pc'[h] \in InRun \cup Over

LEMMA GotoFact ==
    ASSUME TypeOK, NEW h \in Actors, NEW l, Goto(h, l)
    PROVE  pc'[h] = l /\ \A g \in Actors \ {h} : pc'[g] = pc[g]
  BY DEF Goto, TypeOK

LEMMA ProgressKinds ==
    ASSUME IInv, NEW h \in Activations, Progress(h)
    PROVE  Kinds
<1>t. TypeOK /\ h \in Actors /\ runs \in [Activations -> RunRows]
      /\ sess.status \in {"active", "complete", "failed"}
  BY Types, CopyFact DEF IInv
<1>s. ASSUME UNCHANGED <<sess, runs>> PROVE Kinds
  BY <1>t, <1>s DEF Kinds, Still
<1>o. ASSUME NEW st \in {"active", "complete", "failed"}, NEW x \in OwnStatuses,
             Owns(h, st, x), NEW l \in InRun \cup Over, Goto(h, l)
      PROVE  Kinds
  BY <1>t, <1>o, GotoFact DEF Kinds
<1>1. CASE Claim(h) \/ Load(h) \/ Acquire(h)
  BY <1>1, <1>s DEF Claim, Load, Acquire
<1>2. CASE Interrupted(h)
  BY <1>t, <1>s, <1>2, InterruptedSaves DEF Kinds, Interrupts
<1>3. CASE Resumed(h)
  BY <1>t, <1>3, ResumedSaves DEF Kinds, Rewrites
<1>4. CASE Restored(h)
  BY <1>t, <1>4, CheckpointSaves DEF Restored, Kinds, Rewrites, Before
<1>5. CASE Setup(h)
  <2>1. pc[h] \in Before
    BY <1>5 DEF Setup, Before
  <2>2. QED
    BY <1>t, <1>s, <1>5, <2>1, CheckpointSaves DEF Setup, Kinds, Rewrites
<1>6. CASE Started(h)
  BY <1>o, <1>6, StartedSaves DEF InRun, OwnStatuses
<1>7. CASE CheckCancel(h) \/ EngineStops(h) \/ CommitUnresolved(h) \/ Broken(h)
           \/ Release(h) \/ Settle(h)
  BY <1>7, <1>s DEF CheckCancel, EngineStops, CommitUnresolved, Broken, Release, Settle
<1>8. CASE SendFails(h)
  <2>1. sess' = sess /\ runs' = [runs EXCEPT ![h].cancel = @ \/ runs[h].status = "running"]
    BY <1>8 DEF SendFails
  <2> DEFINE new == [runs[h] EXCEPT !.cancel = @ \/ runs[h].status = "running"]
  <2>2. runs[h] \in RunRows
    BY <1>t
  <2>3. new \in RunRows /\ new.status = runs[h].status
    BY <2>2 DEF RunRows
  <2>4. runs' = [runs EXCEPT ![h] = new]
    BY <2>1
  <2> HIDE DEF new
  <2>5. QED
    BY <1>t, <2>1, <2>3, <2>4 DEF Kinds, Still
<1>9. CASE Step(h)
  BY <1>t, <1>9, CheckpointSaves DEF Step, Kinds, Rewrites
<1>10. CASE Concluded(h)
  BY <1>o, <1>10, ConcludedSaves DEF InRun, OwnStatuses, Results
<1>11. CASE RunStopped(h)
  BY <1>o, <1>s, <1>11, StoppedSaves DEF InRun, OwnStatuses, Results
<1>12. CASE RunFinished(h)
  BY <1>o, <1>12, FinishedSaves, CopyFact DEF Over, OwnStatuses
<1>13. QED
  BY <1>1, <1>2, <1>3, <1>4, <1>5, <1>6, <1>7, <1>8, <1>9, <1>10, <1>11, <1>12 DEF Progress

\* Every step leaves the runs alone, rewrites the session around the run it
\* names, interrupts that run, or is a save of a handler's own run.
LEMMA Steps ==
    ASSUME IInv, [Next]_vars
    PROVE  Kinds
<1>t. TypeOK /\ runs \in [Activations -> RunRows] /\ Reconciler \in Actors
  BY Types DEF IInv
<1>s. ASSUME UNCHANGED <<sess, runs>> PROVE Kinds
  BY <1>t, <1>s DEF Kinds, Still
<1>1. ASSUME NEW h \in Activations, Cancel(h) PROVE Kinds
  <2> DEFINE new == [runs[h] EXCEPT !.cancel = TRUE]
  <2>1. sess' = sess /\ runs' = [runs EXCEPT ![h] = new] /\ runs[h] \in RunRows
    BY <1>t, <1>1 DEF Cancel
  <2>2. new \in RunRows /\ new.status = runs[h].status
    BY <2>1 DEF RunRows
  <2> HIDE DEF new
  <2>3. QED
    BY <1>t, <2>1, <2>2 DEF Kinds, Still
<1>2. ASSUME NEW h \in Activations, Crash(h) PROVE Kinds
  BY <1>s, <1>2 DEF Crash
<1>3. CASE Reconcile
  <2>1. CASE RunReconciled
    BY <1>t, <2>1, ReconciledSaves DEF Kinds, Interrupts
  <2>2. CASE ~RunReconciled
    BY <1>s, <1>3, <2>2 DEF Reconcile, ReconcileSelect, ReconcileAcquire, ReconcileLoad,
                            ReconcileBroken, Release
  <2>3. QED
    BY <2>1, <2>2
<1>4. CASE ExpireSession \/ \E k \in Commands : ExpireCommand(k)
  BY <1>s, <1>4 DEF ExpireSession, ExpireCommand
<1>5. CASE UNCHANGED vars
  BY <1>s, <1>5 DEF vars
<1>6. QED
  BY <1>1, <1>2, <1>3, <1>4, <1>5, ProgressKinds DEF Next

----------------------------------------------------------------------------
(* The session and the run rows. *)

\* What a save leaves behind.
LEMMA WrittenFact ==
    ASSUME IInv, NEW h \in Actors, NEW st \in {"active", "complete", "failed"},
           NEW r \in Activations \cup {None}, NEW x \in RunStatuses, Writes(h, st, r, x)
    PROVE  /\ sess' \in Snapshots /\ my' \in [Actors -> Snapshots] /\ my'[h] = sess'
           /\ \A g \in Actors \ {h} : my'[g] = my[g]
           /\ sess'.revision = sess.revision + 1 /\ sess'.status = st
           /\ sess'.run = r /\ sess'.runStatus = x
<1>1. sess \in Snapshots /\ my \in [Actors -> Snapshots] /\ sess.revision \in Nat
  BY Types, SnapFields DEF IInv
<1>2. sess' = Snap(sess.revision + 1, st, r, x) /\ my' = [my EXCEPT ![h] = sess']
  BY DEF Writes
<1>3. sess' \in Snapshots
  BY <1>1, <1>2, SnapType
<1>4. sess'.revision = sess.revision + 1 /\ sess'.status = st /\ sess'.run = r /\ sess'.runStatus = x
  BY <1>2 DEF Snap
<1>5. my' \in [Actors -> Snapshots] /\ my'[h] = sess' /\ \A g \in Actors \ {h} : my'[g] = my[g]
  BY <1>1, <1>2, <1>3
<1>6. QED
  BY <1>3, <1>4, <1>5

\* The session row keeps its revision and its content, or gains a revision.
LEMMA SessionStep ==
    ASSUME IInv, Kinds
    PROVE  /\ sess' \in Snapshots /\ runs' \in [Activations -> RunRows]
           /\ Still \/ sess'.revision = sess.revision + 1
<1>1. /\ sess \in Snapshots /\ sess.run \in Activations \cup {None}
      /\ sess.runStatus \in RunStatuses /\ "interrupted" \in RunStatuses
      /\ \A x \in OwnStatuses : x \in RunStatuses
      /\ \A h \in Activations : h \in Actors
  BY Types, SnapFields DEF IInv, RunStatuses, OwnStatuses, Results, Ended
<1>2. CASE Still
  BY <1>1, <1>2 DEF Still
<1>3. ASSUME NEW h \in Actors, NEW st \in {"active", "complete", "failed"},
             NEW r \in Activations \cup {None}, NEW x \in RunStatuses, Writes(h, st, r, x)
      PROVE  /\ sess' \in Snapshots /\ runs' \in [Activations -> RunRows]
             /\ sess'.revision = sess.revision + 1
  BY <1>3, WrittenFact DEF Writes
<1>4. CASE \E h \in Actors : Rewrites(h) \/ Interrupts(h)
  BY <1>1, <1>3, <1>4 DEF Rewrites, Interrupts
<1>5. CASE \E h \in Activations, st \in {"active", "complete", "failed"}, x \in OwnStatuses :
              Owns(h, st, x)
  BY <1>1, <1>3, <1>5 DEF Owns
<1>6. QED
  BY <1>2, <1>4, <1>5 DEF Kinds

LEMMA SessStep ==
    ASSUME IInv, Kinds
    PROVE  SessInv'
<1>1. /\ sess \in Snapshots /\ sess.run \in Activations \cup {None}
      /\ sess.runStatus \in RunStatuses /\ "interrupted" \in RunStatuses
      /\ \A x \in OwnStatuses : x \in RunStatuses /\ x # "none"
      /\ \A h \in Activations : h \in Actors /\ h # None
      /\ SessInv
  BY Types, SnapFields DEF IInv, RunStatuses, OwnStatuses, Results, Ended
<1>2. CASE Still
  BY <1>1, <1>2 DEF Still, SessInv
<1>3. ASSUME NEW h \in Actors, NEW st \in {"active", "complete", "failed"},
             NEW r \in Activations \cup {None}, NEW x \in RunStatuses, Writes(h, st, r, x),
             r = None <=> x = "none", sess.run = r \/ sess.runStatus # "running"
      PROVE  SessInv'
  <2>1. sess'.run = r /\ sess'.runStatus = x
    BY <1>3, WrittenFact
  <2>2. \A o \in Activations : runs'[o].status = IF o = r THEN x ELSE runs[o].status
    BY <1>3 DEF Writes
  <2>3. \A o \in Activations : runs[o].status = "running" => sess.run = r
    BY <1>1, <1>3 DEF SessInv
  <2>4. \A o \in Activations : runs'[o].status = "running" => o = r
    BY <1>1, <2>2, <2>3 DEF SessInv
  <2>5. QED
    BY <1>1, <1>3, <2>1, <2>2, <2>4 DEF SessInv
<1>4. ASSUME NEW h \in Actors, Rewrites(h) \/ Interrupts(h) PROVE SessInv'
  <2>1. sess.run = None <=> sess.runStatus = "none"
    BY <1>1 DEF SessInv
  <2>2. QED
    BY <1>1, <1>3, <1>4, <2>1 DEF Rewrites, Interrupts
<1>5. CASE \E h \in Activations, st \in {"active", "complete", "failed"}, x \in OwnStatuses :
              Owns(h, st, x)
  BY <1>1, <1>3, <1>5 DEF Owns
<1>6. QED
  BY <1>2, <1>4, <1>5 DEF Kinds

\* The status of a run row changes only when the session interrupts it, or when
\* its own handler saves it.
LEMMA RunChange ==
    ASSUME IInv, Kinds, NEW h \in Activations, runs'[h].status # runs[h].status
    PROVE  \/ runs[h].status = "running" /\ runs'[h].status = "interrupted"
           \/ /\ Row(h).status = "started" /\ runs[h].status # "interrupted"
              /\ pc'[h] \in InRun \cup Over
              /\ \A o \in Activations \ {h} :
                    /\ runs'[o].status = runs[o].status
                    /\ CommandOf[o] = CommandOf[h] => runs[o].status = "absent"
<1>1. sess.run # None => runs[sess.run].status = sess.runStatus
  BY DEF IInv, SessInv
<1>2. h # None
  BY Types DEF IInv
<1>3. ~Still
  BY DEF Still
<1>4. ASSUME NEW g \in Actors, Rewrites(g) PROVE FALSE
  BY <1>1, <1>2, <1>4 DEF Rewrites, Writes
<1>5. ASSUME NEW g \in Actors, Interrupts(g)
      PROVE  runs[h].status = "running" /\ runs'[h].status = "interrupted"
  BY <1>1, <1>2, <1>5 DEF Interrupts, Writes
<1>6. ASSUME NEW g \in Activations, NEW st, NEW x, Owns(g, st, x), pc'[g] \in InRun \cup Over
      PROVE  /\ Row(h).status = "started" /\ runs[h].status # "interrupted"
             /\ pc'[h] \in InRun \cup Over
             /\ \A o \in Activations \ {h} :
                   /\ runs'[o].status = runs[o].status
                   /\ CommandOf[o] = CommandOf[h] => runs[o].status = "absent"
  <2>1. g = h
    BY <1>6 DEF Owns, Writes
  <2>2. QED
    BY <1>6, <2>1 DEF Owns, Writes
<1>7. QED
  BY <1>3, <1>4, <1>5, <1>6 DEF Kinds

\* A run that was interrupted, or whose command has settled, keeps its status.
LEMMA RunKept ==
    ASSUME IInv, [Next]_vars, NEW h \in Activations,
           \/ runs[h].status = "interrupted"
           \/ runs[h].status \in Ended /\ Row(h).status \in {"succeeded", "blocked"}
    PROVE  runs'[h].status = runs[h].status
<1>1. Kinds
  BY Steps
<1>2. "running" \notin Ended
  BY DEF Ended
<1>3. QED
  BY <1>1, <1>2, RunChange

----------------------------------------------------------------------------
(* Positions of the handlers. *)

Positions == {"idle", "claimed", "loaded", "owner"} \cup Before \cup InRun \cup Over

\* A handler moves by Goto, and one that has started its run, or is over,
\* does not go back.
LEMMA ProgressMoves ==
    ASSUME NEW h \in Activations, Progress(h)
    PROVE  \E l \in Positions : Goto(h, l) /\ (pc[h] \in InRun \cup Over => l \in InRun \cup Over)
<1>r. h # Reconciler
  BY ReconcilerAssumption
<1>l. ASSUME NEW l \in Positions, Goto(h, l), pc[h] \in InRun \cup Over => l \in InRun \cup Over
      PROVE  \E m \in Positions : Goto(h, m) /\ (pc[h] \in InRun \cup Over => m \in InRun \cup Over)
  BY <1>l
<1>1. CASE Claim(h)
  BY <1>1 DEF Claim, Positions, InRun, Over
<1>2. CASE Load(h)
  BY <1>2 DEF Load, Respond, Positions, InRun, Over
<1>3. CASE Acquire(h)
  BY <1>3 DEF Acquire, Respond, Positions, InRun, Over
<1>4. CASE Interrupted(h)
  BY <1>4 DEF Interrupted, Positions, Before, InRun, Over
<1>5. CASE Resumed(h) \/ Restored(h) \/ Setup(h)
  BY <1>5 DEF Resumed, Restored, Setup, Positions, Before, InRun, Over
<1>6. CASE Started(h) \/ Step(h) \/ Concluded(h)
  BY <1>6 DEF Started, Step, Concluded, Positions, InRun
<1>7. CASE CheckCancel(h)
  <2> DEFINE l == IF runs[h].cancel THEN "cancelled"
                  ELSE IF my[h].runStatus = "blocked" THEN "blocked"
                  ELSE IF my[h].status # "active" THEN "finishing" ELSE "working"
  <2>1. Goto(h, l)
    BY <1>7 DEF CheckCancel
  <2>2. l \in InRun
    BY DEF InRun
  <2> HIDE DEF l
  <2>3. QED
    BY <2>1, <2>2 DEF Positions
<1>8. CASE SendFails(h) \/ EngineStops(h)
  BY <1>8 DEF SendFails, EngineStops, Positions, InRun
<1>9. CASE CommitUnresolved(h) \/ RunFinished(h) \/ Broken(h)
  BY <1>9 DEF CommitUnresolved, RunFinished, Broken, Positions, Over
<1>10. CASE RunStopped(h)
  BY <1>10 DEF RunStopped, Positions, InRun
<1>11. CASE Release(h) \/ Settle(h)
  BY <1>r, <1>11 DEF Release, Settle, Positions, Over
<1>12. QED
  BY <1>1, <1>2, <1>3, <1>4, <1>5, <1>6, <1>7, <1>8, <1>9, <1>10, <1>11 DEF Progress

LEMMA ReconcileMoves ==
    ASSUME Reconcile
    PROVE  \E l \in Positions : Goto(Reconciler, l)
<1>1. CASE ReconcileLoad
  BY <1>1 DEF ReconcileLoad, Positions, InRun, Over
<1>2. CASE ~ReconcileLoad
  BY <1>2 DEF Reconcile, ReconcileSelect, ReconcileAcquire, RunReconciled, ReconcileBroken,
              Release, Positions, Over
<1>3. QED
  BY <1>1, <1>2

LEMMA PcStep ==
    ASSUME TypeOK, [Next]_vars
    PROVE  /\ pc' \in [Actors -> Positions]
           /\ \A h \in Activations : pc[h] \in InRun \cup Over => pc'[h] \in InRun \cup Over
<1>t. pc \in [Actors -> Positions] /\ \A h \in Activations : h \in Actors /\ h # Reconciler
  BY ReconcilerAssumption DEF TypeOK, Positions, InRun, Before, Over, Actors
<1>g. ASSUME NEW h \in Actors, NEW l \in Positions, Goto(h, l),
             h \in Activations /\ pc[h] \in InRun \cup Over => l \in InRun \cup Over
      PROVE  /\ pc' \in [Actors -> Positions]
             /\ \A g \in Activations : pc[g] \in InRun \cup Over => pc'[g] \in InRun \cup Over
  BY <1>t, <1>g DEF Goto
<1>1. ASSUME NEW h \in Activations, Progress(h)
      PROVE  /\ pc' \in [Actors -> Positions]
             /\ \A g \in Activations : pc[g] \in InRun \cup Over => pc'[g] \in InRun \cup Over
  BY <1>t, <1>g, <1>1, ProgressMoves
<1>2. ASSUME NEW h \in Activations, Crash(h)
      PROVE  /\ pc' \in [Actors -> Positions]
             /\ \A g \in Activations : pc[g] \in InRun \cup Over => pc'[g] \in InRun \cup Over
  <2>1. Goto(h, "crashed") /\ "crashed" \in Positions /\ "crashed" \in Over
    BY <1>2 DEF Crash, Positions, Over
  <2>2. QED
    BY <1>t, <1>g, <2>1
<1>3. CASE Reconcile
  <2>1. Reconciler \in Actors /\ Reconciler \notin Activations
    BY ReconcilerAssumption DEF Actors
  <2>2. QED
    BY <1>g, <1>3, <2>1, ReconcileMoves
<1>4. CASE pc' = pc
  BY <1>t, <1>4
<1>5. QED
  BY <1>1, <1>2, <1>3, <1>4 DEF Next, Cancel, ExpireSession, ExpireCommand, vars

LEMMA RunStep ==
    ASSUME IInv, [Next]_vars
    PROVE  RunInv'
<1>k. Kinds /\ RunInv /\ TypeOK
  BY Steps DEF IInv
<1>1. ASSUME NEW h \in Activations, runs'[h].status # "absent"
      PROVE  pc'[h] \in InRun \cup Over
  <2>1. CASE runs[h].status # "absent"
    BY <1>k, <2>1, PcStep DEF RunInv
  <2>2. CASE runs[h].status = "absent"
    BY <1>k, <1>1, <2>2, RunChange
  <2>3. QED
    BY <2>1, <2>2
<1>2. ASSUME NEW g \in Activations, NEW h \in Activations, CommandOf[g] = CommandOf[h], g # h,
             runs'[g].status # "absent", runs'[h].status # "absent"
      PROVE  FALSE
  <2>1. runs[g].status = "absent" \/ runs[h].status = "absent"
    BY <1>k, <1>2 DEF RunInv
  <2>2. CASE runs[g].status = "absent"
    BY <1>k, <1>2, <2>2, RunChange
  <2>3. CASE runs[h].status = "absent"
    BY <1>k, <1>2, <2>3, RunChange
  <2>4. QED
    BY <2>1, <2>2, <2>3
<1>3. QED
  BY <1>1, <1>2 DEF RunInv

----------------------------------------------------------------------------
(* The copies the handlers work on. *)

\* What a step of the actor h does to the copies.
MemStep(h) ==
    /\ my' \in [Actors -> Snapshots]
    /\ \A g \in Actors \ {h} : my'[g] = my[g] /\ pc'[g] = pc[g]
    /\ my'[h].revision <= sess'.revision
    /\ h \in Activations /\ my'[h].revision = sess'.revision => MemOK(h)'

\* A handler that is over, or has not loaded, has no copy.
LEMMA MemOver ==
    ASSUME NEW h \in Activations, pc'[h] \in Over \cup {"idle", "claimed"}
    PROVE  MemOK(h)'
  BY DEF MemOK, Over, Before, InRun

LEMMA MemForget ==
    ASSUME IInv, NEW h \in Actors, Forget(h), NEW l \in Over \cup {"idle"}, Goto(h, l),
           sess' = sess
    PROVE  MemStep(h)
<1>1. TypeOK /\ my \in [Actors -> Snapshots] /\ sess.revision \in Nat
  BY Types, SnapFields DEF IInv
<1>2. Fresh \in Snapshots /\ Fresh.revision = 0
  BY DEF Fresh, Snapshots, RunStatuses
<1>3. my' = [my EXCEPT ![h] = Fresh]
  BY DEF Forget
<1>4. my' \in [Actors -> Snapshots] /\ my'[h].revision = 0 /\ \A g \in Actors \ {h} : my'[g] = my[g]
  BY <1>1, <1>2, <1>3
<1>5. pc'[h] = l /\ \A g \in Actors \ {h} : pc'[g] = pc[g]
  BY <1>1, GotoFact
<1>6. h \in Activations => MemOK(h)'
  BY <1>5, MemOver
<1>7. QED
  BY <1>1, <1>4, <1>5, <1>6 DEF MemStep

\* A handler moves and keeps its copy, and nothing is saved.
LEMMA MemKept ==
    ASSUME IInv, NEW h \in Activations, NEW l, Goto(h, l), my' = my, sess' = sess,
           MemOK(h) => MemOK(h)'
    PROVE  MemStep(h)
<1>1. TypeOK /\ h \in Actors /\ my \in [Actors -> Snapshots] /\ my[h].revision <= sess.revision
      /\ (my[h].revision = sess.revision => MemOK(h))
  BY Types DEF IInv, MemInv
<1>2. \A g \in Actors \ {h} : pc'[g] = pc[g]
  BY <1>1, GotoFact
<1>3. QED
  BY <1>1, <1>2 DEF MemStep

\* A handler saves: its copy is the row.
LEMMA MemSaved ==
    ASSUME IInv, NEW h \in Activations, NEW st \in {"active", "complete", "failed"},
           NEW r \in Activations \cup {None}, NEW x \in RunStatuses, Writes(h, st, r, x),
           NEW l, Goto(h, l),
           my'[h] = sess' /\ sess'.status = st /\ sess'.run = r /\ sess'.runStatus = x /\ pc'[h] = l
             => MemOK(h)'
    PROVE  MemStep(h)
<1>1. TypeOK /\ h \in Actors
  BY Types DEF IInv
<1>2. pc'[h] = l /\ \A g \in Actors \ {h} : pc'[g] = pc[g]
  BY <1>1, GotoFact
<1>3. /\ my' \in [Actors -> Snapshots] /\ my'[h] = sess' /\ sess' \in Snapshots
      /\ \A g \in Actors \ {h} : my'[g] = my[g]
      /\ sess'.status = st /\ sess'.run = r /\ sess'.runStatus = x
  BY <1>1, WrittenFact
<1>4. sess'.revision \in Nat
  BY <1>3, SnapFields
<1>5. my'[h].revision <= sess'.revision
  BY <1>3, <1>4
<1>6. QED
  BY <1>2, <1>3, <1>5 DEF MemStep

LEMMA LoadMem ==
    ASSUME IInv, NEW h \in Activations, Load(h)
    PROVE  MemStep(h)
<1>1. TypeOK /\ h \in Actors /\ my \in [Actors -> Snapshots] /\ sess \in Snapshots
      /\ sess.revision \in Nat
  BY Types, SnapFields DEF IInv
<1>2. sess' = sess
  BY DEF Load
<1>3. CASE sess.status # "active" /\ Kind[CommandOf[h]] # "resume"
  <2>1. Goto(h, "settle") /\ my' = my
    BY <1>3 DEF Load, Respond
  <2>2. MemOK(h)'
    BY <1>1, <2>1, GotoFact, MemOver DEF Over
  <2>3. QED
    BY <1>2, <2>1, <2>2, MemKept
<1>4. CASE ~(sess.status # "active" /\ Kind[CommandOf[h]] # "resume")
  <2>1. Goto(h, "loaded") /\ my' = [my EXCEPT ![h] = sess]
    BY <1>4 DEF Load
  <2>2. pc'[h] = "loaded" /\ \A g \in Actors \ {h} : pc'[g] = pc[g]
    BY <1>1, <2>1, GotoFact
  <2>3. my' \in [Actors -> Snapshots] /\ my'[h] = sess /\ \A g \in Actors \ {h} : my'[g] = my[g]
    BY <1>1, <2>1
  <2>4. MemOK(h)'
    BY <1>2, <1>4, <2>2, <2>3 DEF MemOK, Before, InRun
  <2>5. my'[h].revision <= sess'.revision
    BY <1>1, <1>2, <2>3
  <2>6. QED
    BY <2>2, <2>3, <2>4, <2>5 DEF MemStep
<1>5. QED
  BY <1>3, <1>4

\* A handler that cannot load, own or save any more keeps its copy and leaves.
LEMMA MemLeave ==
    ASSUME IInv, NEW h \in Activations, NEW l \in Over, Goto(h, l), my' = my, sess' = sess
    PROVE  MemStep(h)
<1>1. pc'[h] = l
  BY GotoFact, Types DEF IInv
<1>2. MemOK(h)'
  BY <1>1, MemOver
<1>3. QED
  BY <1>2, MemKept

LEMMA EngineStopsMem ==
    ASSUME IInv, NEW h \in Activations, EngineStops(h)
    PROVE  MemStep(h)
<1>1. TypeOK /\ h \in Actors /\ my \in [Actors -> Snapshots] /\ my[h] \in Snapshots
      /\ my[h].revision <= sess.revision /\ (my[h].revision = sess.revision => MemOK(h))
  BY Types DEF IInv, MemInv
<1>2. sess' = sess /\ runs' = runs /\ my' = [my EXCEPT ![h] = [my[h] EXCEPT !.run = h]]
  BY DEF EngineStops
<1> DEFINE new == [my[h] EXCEPT !.run = h]
<1>3. new = Snap(my[h].revision, my[h].status, h, my[h].runStatus)
  BY <1>1, SnapStatus, Zenon
<1>4. new \in Snapshots /\ new.revision = my[h].revision /\ new.run = h
  BY <1>1, <1>3, SnapType, SnapFields DEF Snap
<1>n. my' = [my EXCEPT ![h] = new]
  BY <1>2
<1> HIDE DEF new
<1>5. my' \in [Actors -> Snapshots] /\ my'[h] = new /\ \A g \in Actors \ {h} : my'[g] = my[g]
  BY <1>1, <1>4, <1>n
<1>6. \/ pc[h] = "working" /\ pc'[h] = "blocked"
      \/ pc[h] \in {"engine", "emitted", "working"} /\ pc'[h] = "failed" /\ IsStream(h)
  BY <1>1, GotoFact DEF EngineStops
<1>7. \A g \in Actors \ {h} : pc'[g] = pc[g]
  BY <1>1, GotoFact DEF EngineStops
<1>8. ASSUME MemOK(h) PROVE MemOK(h)'
  <2>1. /\ pc[h] \in {"emitted", "working"} => sess.run = h /\ (sess.run = h => sess.runStatus # "interrupted")
        /\ pc[h] = "engine" => sess.runStatus # "running"
    BY <1>8 DEF MemOK, InRun, Before
  <2>2. pc[h] = "engine" => sess.run # h /\ runs[h].status = "absent"
    BY NotStarted DEF Before
  <2>3. IsStream(h)' = IsStream(h)
    BY DEF IsStream
  <2>4. QED
    BY <1>2, <1>4, <1>5, <1>6, <2>1, <2>2, <2>3 DEF MemOK, InRun, Before
<1>9. QED
  BY <1>1, <1>2, <1>4, <1>5, <1>7, <1>8 DEF MemStep

LEMMA StoppedMem ==
    ASSUME IInv, NEW h \in Activations, RunStopped(h)
    PROVE  MemStep(h)
<1>1. TypeOK /\ h \in Actors /\ my \in [Actors -> Snapshots] /\ my[h] \in Snapshots
      /\ my[h].revision <= sess.revision /\ (my[h].revision = sess.revision => MemOK(h))
  BY Types DEF IInv, MemInv
<1>2. pc[h] \in {"cancelled", "blocked", "failed"} /\ Goto(h, "finishing") /\ pc[h] \in RunStatuses
  BY StoppedSaves DEF RunStatuses, Ended
<1>3. pc'[h] = "finishing" /\ \A g \in Actors \ {h} : pc'[g] = pc[g]
  BY <1>1, <1>2, GotoFact
<1>4. CASE Owns(h, "failed", pc[h])
  <2>1. Writes(h, "failed", h, pc[h])
    BY <1>4 DEF Owns
  <2>2. ASSUME my'[h] = sess', sess'.run = h, sess'.runStatus = pc[h], sess'.status = "failed"
        PROVE  MemOK(h)'
    BY <1>2, <1>3, <2>2 DEF MemOK, InRun, Before
  <2>3. QED
    BY <1>2, <1>3, <2>1, <2>2, MemSaved
<1>5. CASE ~Owns(h, "failed", pc[h])
  <2> DEFINE new == Snap(my[h].revision, "failed", my[h].run, pc[h])
  <2>1. my' = [my EXCEPT ![h] = new] /\ ~IsStream(h) /\ UNCHANGED <<sess, runs>>
    BY <1>5, StoppedSaves
  <2>2. new \in Snapshots /\ new.revision = my[h].revision /\ new.run = my[h].run
        /\ new.runStatus = pc[h]
    BY <1>1, <1>2, SnapType, SnapFields DEF Snap
  <2> HIDE DEF new
  <2>3. my' \in [Actors -> Snapshots] /\ my'[h] = new /\ \A g \in Actors \ {h} : my'[g] = my[g]
    BY <1>1, <2>1, <2>2
  <2>4. ASSUME MemOK(h) PROVE MemOK(h)'
    <3>1. sess.run = h /\ sess.runStatus # "interrupted" /\ my[h].run = h
      BY <1>2, <2>1, <2>4 DEF MemOK, InRun
    <3>2. my'[h].run = h /\ my'[h].runStatus \in {"complete", "failed", "cancelled", "blocked"}
      BY <1>2, <2>2, <2>3, <3>1
    <3>3. QED
      BY <1>3, <2>1, <3>1, <3>2 DEF MemOK, InRun, Before
  <2>5. QED
    BY <1>1, <1>3, <2>1, <2>2, <2>3, <2>4 DEF MemStep
<1>6. QED
  BY <1>4, <1>5

LEMMA OwnerMem ==
    ASSUME IInv, NEW h \in Activations, Acquire(h) \/ Interrupted(h)
    PROVE  MemStep(h)
<1>t. TypeOK /\ h \in Actors
  BY Types DEF IInv
<1>1. CASE Acquire(h)
  <2>1. sess' = sess /\ my' = my /\ (Goto(h, "owner") \/ Goto(h, "settle")) /\ pc[h] = "loaded"
    BY <1>1 DEF Acquire, Respond
  <2>2. CASE Goto(h, "owner")
    <3>1. pc'[h] = "owner"
      BY <1>t, <2>2, GotoFact
    <3>2. MemOK(h) => MemOK(h)'
      BY <2>1, <3>1 DEF MemOK, Before, InRun
    <3>3. QED
      BY <2>1, <2>2, <3>2, MemKept
  <2>3. CASE Goto(h, "settle")
    BY <2>1, <2>3, MemLeave DEF Over
  <2>4. QED
    BY <2>1, <2>2, <2>3
<1>2. CASE Interrupted(h) /\ my[h].runStatus # "running" /\ UNCHANGED <<row, sess, my, runs>>
  <2>1. pc[h] = "owner" /\ Goto(h, "prepared") /\ sess' = sess /\ my' = my
    BY <1>2 DEF Interrupted
  <2>2. pc'[h] = "prepared"
    BY <1>t, <2>1, GotoFact
  <2>3. MemOK(h) => MemOK(h)'
    BY <1>2, <2>1, <2>2 DEF MemOK, Before, InRun
  <2>4. QED
    BY <2>1, <2>3, MemKept
<1>3. CASE Interrupted(h) /\ Writes(h, sess.status, sess.run, "interrupted") /\ MemOK(h)
  <2>1. pc[h] = "owner" /\ Goto(h, "prepared")
    BY <1>3 DEF Interrupted
  <2>2. ASSUME my'[h] = sess', sess'.status = sess.status, sess'.runStatus = "interrupted",
               pc'[h] = "prepared"
        PROVE  MemOK(h)'
    BY <1>3, <2>1, <2>2 DEF MemOK, Before, InRun
  <2>3. "interrupted" \in RunStatuses
    BY DEF RunStatuses, Ended
  <2>4. QED
    BY <1>3, <2>1, <2>2, <2>3, CopyFact, MemSaved
<1>4. QED
  BY <1>1, <1>2, <1>3, InterruptedSaves

\* The saves before the engine starts the run.
LEMMA PreparedMem ==
    ASSUME IInv, NEW h \in Activations, Resumed(h) \/ Restored(h) \/ Setup(h)
    PROVE  MemStep(h)
<1>t. TypeOK /\ h \in Actors
  BY Types DEF IInv
<1>1. CASE Resumed(h)
  <2>1. /\ pc[h] = "prepared" /\ Goto(h, "resumed") /\ MemOK(h)
        /\ Writes(h, "active", sess.run, sess.runStatus)
    BY <1>1, ResumedSaves
  <2>2. sess.runStatus # "running"
    BY <2>1 DEF MemOK, Before
  <2>3. ASSUME my'[h] = sess', sess'.status = "active", sess'.runStatus = sess.runStatus,
               pc'[h] = "resumed"
        PROVE  MemOK(h)'
    BY <2>2, <2>3 DEF MemOK, Before, InRun
  <2>4. QED
    BY <2>1, <2>3, CopyFact, MemSaved
<1>2. ASSUME Save(h, my[h]), NEW l \in {"setup", "engine"}, Goto(h, l), pc[h] \in Before,
             pc[h] = "prepared" => Kind[CommandOf[h]] # "resume"
      PROVE  MemStep(h)
  <2>1. /\ MemOK(h) /\ Writes(h, sess.status, sess.run, sess.runStatus)
    BY <1>2, CheckpointSaves
  <2>2. sess.runStatus # "running" /\ sess.status = "active"
    BY <1>2, <2>1 DEF MemOK, Before
  <2>3. ASSUME my'[h] = sess', sess'.status = sess.status, sess'.runStatus = sess.runStatus,
               pc'[h] = l
        PROVE  MemOK(h)'
    BY <1>2, <2>2, <2>3 DEF MemOK, Before, InRun
  <2>4. QED
    BY <1>2, <2>1, <2>3, CopyFact, MemSaved
<1>3. CASE Restored(h)
  BY <1>2, <1>3 DEF Restored, Before
<1>4. CASE Setup(h)
  <2>1. /\ pc[h] \in Before /\ (pc[h] = "prepared" => Kind[CommandOf[h]] # "resume")
        /\ Goto(h, "engine")
    BY <1>4 DEF Setup, Before
  <2>2. CASE Save(h, my[h])
    BY <1>2, <2>1, <2>2
  <2>3. CASE UNCHANGED <<row, sess, my, runs>>
    <3>1. pc'[h] = "engine"
      BY <1>t, <2>1, GotoFact
    <3>2. MemOK(h) => MemOK(h)'
      BY <2>1, <2>3, <3>1 DEF MemOK, Before, InRun
    <3>3. QED
      BY <2>1, <2>3, <3>2, MemKept
  <2>4. QED
    BY <1>4, <2>2, <2>3 DEF Setup
<1>5. QED
  BY <1>1, <1>3, <1>4

\* The saves of the engine, and its reading of cancel_requested.
LEMMA EngineMem ==
    ASSUME IInv, NEW h \in Activations,
           Started(h) \/ Step(h) \/ Concluded(h) \/ CheckCancel(h) \/ SendFails(h)
    PROVE  MemStep(h)
<1>t. TypeOK /\ h \in Actors
  BY Types DEF IInv
<1>o. ASSUME NEW st \in {"active", "complete", "failed"}, NEW x \in RunStatuses, Owns(h, st, x),
             Goto(h, "emitted"),
             IF st = "active" THEN x = "running" ELSE x \in {"complete", "failed", "blocked"}
      PROVE  MemStep(h)
  <2>1. Writes(h, st, h, x)
    BY <1>o DEF Owns
  <2>2. ASSUME my'[h] = sess', sess'.status = st, sess'.run = h, sess'.runStatus = x,
               pc'[h] = "emitted"
        PROVE  MemOK(h)'
    BY <1>o, <2>2 DEF MemOK, Before, InRun
  <2>3. QED
    BY <1>o, <2>1, <2>2, MemSaved
<1>s. {"running", "complete", "failed", "blocked"} \subseteq RunStatuses
  BY DEF RunStatuses, Ended
<1>1. CASE Started(h)
  BY <1>s, <1>o, <1>1, StartedSaves
<1>2. CASE Concluded(h)
  BY <1>s, <1>o, <1>2, ConcludedSaves
<1>3. CASE Step(h)
  <2>1. pc[h] = "working" /\ Goto(h, "emitted") /\ Save(h, my[h])
    BY <1>3 DEF Step
  <2>2. MemOK(h) /\ Writes(h, sess.status, sess.run, sess.runStatus)
    BY <2>1, CheckpointSaves
  <2>3. sess.status = "active" /\ sess.runStatus = "running" /\ sess.run = h
    BY <2>1, <2>2 DEF MemOK, InRun
  <2>4. ASSUME my'[h] = sess', sess'.status = sess.status, sess'.run = sess.run,
               sess'.runStatus = sess.runStatus, pc'[h] = "emitted"
        PROVE  MemOK(h)'
    BY <2>3, <2>4 DEF MemOK, Before, InRun
  <2>5. QED
    BY <2>1, <2>2, <2>4, CopyFact, MemSaved
<1>4. CASE CheckCancel(h)
  <2> DEFINE l == IF runs[h].cancel THEN "cancelled"
                  ELSE IF my[h].runStatus = "blocked" THEN "blocked"
                  ELSE IF my[h].status # "active" THEN "finishing" ELSE "working"
  <2>1. Goto(h, l) /\ pc[h] = "emitted" /\ sess' = sess /\ my' = my
    BY <1>4 DEF CheckCancel
  <2>2. /\ l \in {"cancelled", "blocked", "finishing", "working"}
        /\ l = "finishing" => my[h].status # "active"
        /\ l = "working" => my[h].status = "active"
    OBVIOUS
  <2> HIDE DEF l
  <2>3. pc'[h] = l
    BY <1>t, <2>1, GotoFact
  <2>4. MemOK(h) => MemOK(h)'
    BY <2>1, <2>2, <2>3 DEF MemOK, Before, InRun
  <2>5. QED
    BY <2>1, <2>4, MemKept
<1>5. CASE SendFails(h)
  <2>1. pc[h] = "emitted" /\ Goto(h, "cancelled") /\ sess' = sess /\ my' = my
    BY <1>5 DEF SendFails
  <2>2. pc'[h] = "cancelled"
    BY <1>t, <2>1, GotoFact
  <2>3. MemOK(h) => MemOK(h)'
    BY <2>1, <2>2 DEF MemOK, Before, InRun
  <2>4. QED
    BY <2>1, <2>3, MemKept
<1>6. QED
  BY <1>1, <1>2, <1>3, <1>4, <1>5

LEMMA ProgressMem ==
    ASSUME IInv, NEW h \in Activations, Progress(h)
    PROVE  MemStep(h)
<1>t. TypeOK /\ h \in Actors /\ h # Reconciler
  BY Types DEF IInv
<1>1. CASE Claim(h)
  <2>1. Goto(h, "claimed") /\ sess' = sess /\ my' = my
    BY <1>1 DEF Claim
  <2>2. MemOK(h)'
    BY <1>t, <2>1, GotoFact, MemOver
  <2>3. QED
    BY <2>1, <2>2, MemKept
<1>2. CASE CommitUnresolved(h) \/ Broken(h)
  BY <1>2, MemLeave DEF CommitUnresolved, Broken, Over
<1>3. CASE RunFinished(h)
  <2>1. Goto(h, "release") /\ Writes(h, my[h].status, h, my[h].runStatus)
    BY <1>3, FinishedSaves DEF Owns
  <2>2. pc'[h] = "release" => MemOK(h)'
    BY MemOver DEF Over
  <2>3. QED
    BY <2>1, <2>2, CopyFact, MemSaved
<1>4. CASE Release(h)
  <2>1. sess' = sess
    BY <1>4 DEF Release
  <2>2. CASE answer[h] = "stream"
    BY <1>t, <1>4, <2>1, <2>2, MemForget DEF Release, Over
  <2>3. CASE answer[h] # "stream"
    BY <1>t, <1>4, <2>1, <2>3, MemLeave DEF Release, Over
  <2>4. QED
    BY <2>2, <2>3
<1>5. CASE Settle(h)
  BY <1>t, <1>5, MemForget DEF Settle, Over
<1>6. QED
  BY <1>1, <1>2, <1>3, <1>4, <1>5, LoadMem, OwnerMem, PreparedMem, EngineMem, EngineStopsMem,
     StoppedMem DEF Progress

ReconcilerOK ==
    my[Reconciler].revision = sess.revision /\ pc[Reconciler] = "working" =>
        my[Reconciler] = sess /\ sess.runStatus = "running"

\* The save of another actor makes a copy stale; any other step leaves it right.
LEMMA OthersMem ==
    ASSUME IInv, Kinds, NEW g \in Actors, my'[g] = my[g], pc'[g] = pc[g]
    PROVE  /\ my'[g].revision <= sess'.revision
           /\ g \in Activations /\ my'[g].revision = sess'.revision => MemOK(g)'
           /\ g = Reconciler => ReconcilerOK'
<1>1. /\ my[g] \in Snapshots /\ my[g].revision \in Nat /\ sess.revision \in Nat
      /\ my[g].revision <= sess.revision
  BY Types, SnapFields DEF IInv, MemInv
<1>2. CASE Still
  <2>1. sess' = sess /\ \A o \in Activations : runs'[o].status = runs[o].status
    BY <1>2 DEF Still
  <2>2. g \in Activations /\ my[g].revision = sess.revision => MemOK(g)
    BY DEF IInv, MemInv
  <2>3. g \in Activations /\ MemOK(g) => MemOK(g)'
    BY <2>1 DEF MemOK, IsStream
  <2>4. g = Reconciler => ReconcilerOK
    BY DEF IInv, MemInv, ReconcilerOK
  <2>5. g = Reconciler => ReconcilerOK'
    BY <2>1, <2>4 DEF ReconcilerOK
  <2>6. QED
    BY <1>1, <2>1, <2>2, <2>3, <2>5
<1>3. CASE sess'.revision = sess.revision + 1
  <2>1. my'[g].revision < sess'.revision
    BY <1>1, <1>3
  <2>2. my'[g].revision # sess'.revision
    BY <1>1, <1>3
  <2>3. g = Reconciler => ReconcilerOK'
    BY <2>2 DEF ReconcilerOK
  <2>4. QED
    BY <1>1, <1>3, <2>2, <2>3
<1>4. QED
  BY <1>2, <1>3, SessionStep

LEMMA ReconcileMem ==
    ASSUME IInv, Reconcile
    PROVE  MemStep(Reconciler) /\ ReconcilerOK'
<1>t. /\ TypeOK /\ Reconciler \in Actors /\ Reconciler \notin Activations
      /\ my \in [Actors -> Snapshots] /\ my[Reconciler] \in Snapshots /\ sess \in Snapshots
      /\ my[Reconciler].revision <= sess.revision /\ sess.revision \in Nat /\ sess.revision <= sess.revision
  BY Types, SnapFields, ReconcilerAssumption DEF IInv, MemInv
<1>1. CASE ReconcileSelect
  <2>1. PICK h \in Activations : my' = [my EXCEPT ![Reconciler] = [my[Reconciler] EXCEPT !.run = h]]
    BY <1>1 DEF ReconcileSelect
  <2>2. sess' = sess /\ Goto(Reconciler, "loaded")
    BY <1>1 DEF ReconcileSelect
  <2>3. pc'[Reconciler] = "loaded" /\ \A g \in Actors \ {Reconciler} : pc'[g] = pc[g]
    BY <1>t, <2>2, GotoFact
  <2> DEFINE new == [my[Reconciler] EXCEPT !.run = h]
  <2>4. new = Snap(my[Reconciler].revision, my[Reconciler].status, h, my[Reconciler].runStatus)
    BY <1>t, SnapStatus, Zenon
  <2>5. new \in Snapshots /\ new.revision = my[Reconciler].revision
    BY <1>t, <2>4, SnapType, SnapFields DEF Snap
  <2>6. my' = [my EXCEPT ![Reconciler] = new]
    BY <2>1
  <2> HIDE DEF new
  <2>7. /\ my' \in [Actors -> Snapshots] /\ my'[Reconciler].revision = my[Reconciler].revision
        /\ \A g \in Actors \ {Reconciler} : my'[g] = my[g]
    BY <1>t, <2>5, <2>6
  <2>8. QED
    BY <1>t, <2>2, <2>3, <2>7 DEF MemStep, ReconcilerOK
<1>2. CASE ReconcileAcquire \/ ReconcileBroken
  <2>1. /\ sess' = sess /\ my' = my
        /\ Goto(Reconciler, "owner") \/ Goto(Reconciler, "idle") \/ Goto(Reconciler, "release")
    BY <1>2 DEF ReconcileAcquire, ReconcileBroken
  <2>2. pc'[Reconciler] # "working" /\ \A g \in Actors \ {Reconciler} : pc'[g] = pc[g]
    BY <1>t, <2>1, GotoFact
  <2>3. QED
    BY <1>t, <2>1, <2>2 DEF MemStep, ReconcilerOK
<1>3. CASE ReconcileLoad
  <2> DEFINE l == IF sess.run = my[Reconciler].run /\ sess.runStatus = "running"
                  THEN "working" ELSE "release"
  <2>1. sess' = sess /\ my' = [my EXCEPT ![Reconciler] = sess] /\ Goto(Reconciler, l)
    BY <1>3 DEF ReconcileLoad
  <2>2. l = "working" => sess.runStatus = "running"
    OBVIOUS
  <2> HIDE DEF l
  <2>3. pc'[Reconciler] = l /\ \A g \in Actors \ {Reconciler} : pc'[g] = pc[g]
    BY <1>t, <2>1, GotoFact
  <2>4. /\ my' \in [Actors -> Snapshots] /\ my'[Reconciler] = sess
        /\ \A g \in Actors \ {Reconciler} : my'[g] = my[g]
    BY <1>t, <2>1
  <2>5. QED
    BY <1>t, <2>1, <2>2, <2>3, <2>4 DEF MemStep, ReconcilerOK
<1>4. CASE RunReconciled
  <2>1. Goto(Reconciler, "release") /\ Writes(Reconciler, "failed", sess.run, "interrupted")
    BY <1>4, ReconciledSaves
  <2>2. pc'[Reconciler] = "release" /\ \A g \in Actors \ {Reconciler} : pc'[g] = pc[g]
    BY <1>t, <2>1, GotoFact
  <2>3. sess.run \in Activations \cup {None} /\ "interrupted" \in RunStatuses
    BY <1>t, SnapFields DEF RunStatuses, Ended
  <2>4. /\ my' \in [Actors -> Snapshots] /\ my'[Reconciler] = sess' /\ sess' \in Snapshots
        /\ \A g \in Actors \ {Reconciler} : my'[g] = my[g]
    BY <1>t, <2>1, <2>3, WrittenFact
  <2>5. sess'.revision <= sess'.revision
    BY <2>4, SnapFields
  <2>6. QED
    BY <1>t, <2>2, <2>4, <2>5 DEF MemStep, ReconcilerOK
<1>5. CASE Release(Reconciler)
  <2>1. sess' = sess /\ Goto(Reconciler, "idle") /\ Forget(Reconciler)
    BY <1>5 DEF Release
  <2>2. MemStep(Reconciler)
    BY <1>t, <2>1, MemForget
  <2>3. pc'[Reconciler] = "idle"
    BY <1>t, <2>1, GotoFact
  <2>4. QED
    BY <2>2, <2>3 DEF ReconcilerOK
<1>6. QED
  BY <1>1, <1>2, <1>3, <1>4, <1>5 DEF Reconcile

LEMMA MemoryStep ==
    ASSUME IInv, [Next]_vars
    PROVE  MemInv' /\ my' \in [Actors -> Snapshots]
<1>t. /\ Kinds /\ TypeOK /\ my \in [Actors -> Snapshots] /\ Reconciler \in Actors
      /\ \A h \in Activations : h \in Actors /\ h # Reconciler
  BY Steps, Types DEF IInv
<1>1. ASSUME NEW h \in Activations, MemStep(h)
      PROVE  MemInv' /\ my' \in [Actors -> Snapshots]
  <2>1. \A g \in Actors \ {h} :
          /\ my'[g].revision <= sess'.revision
          /\ g \in Activations /\ my'[g].revision = sess'.revision => MemOK(g)'
          /\ g = Reconciler => ReconcilerOK'
    BY <1>t, <1>1, OthersMem DEF MemStep
  <2>2. ReconcilerOK'
    BY <1>t, <2>1
  <2>3. QED
    BY <1>t, <1>1, <2>1, <2>2 DEF MemStep, MemInv, ReconcilerOK
<1>2. CASE Reconcile
  <2>1. MemStep(Reconciler) /\ ReconcilerOK'
    BY <1>2, ReconcileMem
  <2>2. \A g \in Activations :
          /\ my'[g].revision <= sess'.revision
          /\ my'[g].revision = sess'.revision => MemOK(g)'
    BY <1>t, <2>1, OthersMem DEF MemStep
  <2>3. QED
    BY <1>t, <2>1, <2>2 DEF MemStep, MemInv, ReconcilerOK, Actors
<1>3. CASE my' = my /\ pc' = pc
  <2>1. \A g \in Actors :
          /\ my'[g].revision <= sess'.revision
          /\ g \in Activations /\ my'[g].revision = sess'.revision => MemOK(g)'
          /\ g = Reconciler => ReconcilerOK'
    BY <1>t, <1>3, OthersMem
  <2>2. ReconcilerOK'
    BY <1>t, <2>1
  <2>3. QED
    BY <1>t, <1>3, <2>1, <2>2 DEF MemInv, ReconcilerOK
<1>4. ASSUME NEW h \in Activations, Crash(h) PROVE MemStep(h)
  BY <1>t, <1>4, MemForget DEF Crash, Over
<1>5. QED
  BY <1>1, <1>2, <1>3, <1>4, ProgressMem DEF Next, Cancel, ExpireSession, ExpireCommand, vars

----------------------------------------------------------------------------
(* The command rows. *)

Open == {"pending", "started"}

\* What a step may do to the status of a command: leave it, claim it or release
\* it while it is open, or settle it with the terminal save of its run.
RowMove(k) ==
    \/ row'[k].status = row[k].status
    \/ row[k].status \in Open /\ row'[k].status \in {"started", "uncertain", "failed"}
    \/ \E h \in Activations :
            /\ CommandOf[h] = k /\ RunFinished(h)
            /\ row'[k].status = IF my[h].runStatus = "blocked" THEN "blocked" ELSE "succeeded"

RowStep == row' \in [Commands -> Rows] /\ \A k \in Commands : RowMove(k)

LEMMA RowTypes ==
    ASSUME NEW old \in Rows, NEW s \in Statuses, NEW o \in Activations,
           NEW p \in Responses \cup {None}
    PROVE  /\ IsRow(old) /\ old.status \in Statuses
           /\ ClaimedBy(old, o) \in Rows /\ Released(old, s) \in Rows
           /\ Finished(old, p) \in Rows
           /\ old.ttl > 0 => [old EXCEPT !.ttl = @ - 1] \in Rows
<1>1. /\ IsRow(old) /\ old.status \in Statuses /\ old.owner \in Activations \cup {None}
      /\ old.fence \in Nat /\ old.ttl \in 0..CommandTicks
      /\ old.response \in Responses \cup {None} /\ old.admission \in Commands
  BY RowFields DEF Rows
<1>2. ASSUME NEW st \in Statuses, NEW ow \in Activations \cup {None}, NEW f \in Nat,
             NEW t \in 0..CommandTicks, NEW r \in Responses \cup {None}, NEW a \in Commands
      PROVE  Fields(st, ow, f, t, r, a) \in Rows
  BY DEF Fields, Rows
<1>3. /\ 0 \in 0..CommandTicks /\ CommandTicks \in 0..CommandTicks /\ old.fence + 1 \in Nat
      /\ None \in Activations \cup {None}
  BY <1>1, CommandTicksAssumption
<1>4. {"started", "succeeded", "failed"} \subseteq Statuses
  BY DEF Statuses
<1>5. ClaimedBy(old, o) \in Rows
  BY <1>1, <1>2, <1>3, <1>4, ClaimedFact
<1>6. Released(old, s) \in Rows
  <2>1. Fields(s, None, old.fence, 0, old.response, old.admission) \in Rows
    BY <1>1, <1>2, <1>3, Zenon
  <2>2. QED
    BY <1>1, <2>1, ReleasedFact
<1>7. Finished(old, p) \in Rows
  <2> DEFINE st == IF p = "ok" THEN "succeeded" ELSE "failed"
  <2>1. Finished(old, p) = Fields(st, None, old.fence, 0, p, old.admission)
    BY <1>1, FinishedFact
  <2>2. st \in Statuses
    BY <1>4
  <2> HIDE DEF st
  <2>3. Fields(st, None, old.fence, 0, p, old.admission) \in Rows
    BY <1>1, <1>2, <1>3, <2>2, Zenon
  <2>4. QED
    BY <2>1, <2>3
<1>8. old.ttl > 0 => [old EXCEPT !.ttl = @ - 1] \in Rows
  <2>1. old.ttl > 0 => old.ttl - 1 \in 0..CommandTicks
    BY <1>1, CommandTicksAssumption
  <2>2. [old EXCEPT !.ttl = @ - 1]
          = Fields(old.status, old.owner, old.fence, old.ttl - 1, old.response, old.admission)
    BY <1>1, TickFact
  <2> DEFINE less == old.ttl - 1
  <2>3. less \in 0..CommandTicks =>
          Fields(old.status, old.owner, old.fence, less, old.response, old.admission) \in Rows
    <3> HIDE DEF less
    <3>1. QED
      BY <1>1, <1>2, Zenon
  <2>4. QED
    BY <2>1, <2>2, <2>3
<1>9. QED
  BY <1>1, <1>5, <1>6, <1>7, <1>8

LEMMA RowUnchanged == ASSUME IInv, row' = row PROVE RowStep
  BY Types DEF IInv, RowStep, RowMove

LEMMA RowUpdate ==
    ASSUME IInv, NEW k \in Commands, NEW new \in Rows, row' = [row EXCEPT ![k] = new],
           row'[k] = new => RowMove(k)
    PROVE  RowStep
<1>1. row \in [Commands -> Rows]
  BY Types DEF IInv
<1>2. row' \in [Commands -> Rows] /\ row'[k] = new /\ \A c \in Commands \ {k} : row'[c] = row[c]
  BY <1>1
<1>3. QED
  BY <1>2 DEF RowStep, RowMove

LEMMA RowAbandon ==
    ASSUME IInv, NEW r, NEW k, AbandonOrigin(r, k)
    PROVE  /\ RowStep
           /\ \A c \in Commands : c = CommandOf[r] /\ c # k /\ Abandonable(row[c]) =>
                                      row'[c].status = "uncertain"
<1>1. row \in [Commands -> Rows] /\ "uncertain" \in Statuses
  BY Types DEF IInv, Statuses
<1>2. ASSUME NEW c \in Commands
      PROVE  /\ row'[c] \in Rows /\ RowMove(c)
             /\ c = CommandOf[r] /\ c # k /\ Abandonable(row[c]) => row'[c].status = "uncertain"
  <2> DEFINE hit == c = CommandOf[r] /\ c # k /\ Abandonable(row[c])
  <2>1. row'[c] = IF hit THEN Released(row[c], "uncertain") ELSE row[c]
    BY DEF AbandonOrigin
  <2>2. row[c] \in Rows
    BY <1>1
  <2>3. IsRow(row[c])
    BY <2>2, RowFields
  <2>4. Released(row[c], "uncertain").status = "uncertain"
    BY <2>3, StatusFact
  <2>6. hit => CommandOf[r] \in Commands /\ row[c].status \in Open
    BY DEF Abandonable, Open
  <2>7. Released(row[c], "uncertain") \in Rows
    <3>1. Released(row[c], "uncertain")
            = Fields("uncertain", None, row[c].fence, 0, row[c].response, row[c].admission)
      BY <2>3, ReleasedFact
    <3>2. 0 \in 0..CommandTicks
      BY CommandTicksAssumption
    <3>3. QED
      BY <1>1, <2>2, <3>1, <3>2 DEF Rows, Fields
  <2> HIDE DEF hit
  <2>8. CASE hit
    BY <2>1, <2>4, <2>6, <2>7, <2>8 DEF RowMove
  <2>9. CASE ~hit
    BY <2>1, <2>2, <2>9 DEF RowMove, hit
  <2>10. QED
    BY <2>8, <2>9
<1>3. row' = [c \in Commands |-> row'[c]]
  BY DEF AbandonOrigin
<1>4. row' \in [Commands -> Rows]
  BY <1>2, <1>3
<1>5. QED
  BY <1>2, <1>4 DEF RowStep

LEMMA ProgressRows ==
    ASSUME IInv, NEW h \in Activations, Progress(h)
    PROVE  RowStep
<1> DEFINE k == CommandOf[h]
<1>t. /\ k \in Commands /\ row[k] \in Rows /\ Row(h) = row[k] /\ row \in [Commands -> Rows]
      /\ TypeOK /\ h # Reconciler
  BY Types DEF IInv, Row
<1>s. {"uncertain", "blocked"} \subseteq Statuses
  BY DEF Statuses
<1>r. IsRow(row[k])
  BY <1>t, RowFields
<1>q. \A s : Released(row[k], s).status = s
  BY <1>r, StatusFact
<1>rel. \A s \in Statuses : Released(row[k], s) \in Rows
  BY <1>t, RowTypes
<1>1. CASE Claim(h)
  <2> DEFINE new == ClaimedBy(row[k], h)
  <2>1. row' = [row EXCEPT ![k] = new] /\ row[k].status \in Open
    BY <1>1, <1>t DEF Claim, Claimable, Open
  <2>2. new \in Rows /\ new.status = "started"
    BY <1>t, <1>r, RowTypes, StatusFact DEF Statuses
  <2> HIDE DEF new, k
  <2>3. QED
    BY <1>t, <2>1, <2>2, RowUpdate DEF RowMove
<1>2. CASE Interrupted(h)
  BY <1>2, InterruptedSaves, RowUnchanged, RowAbandon
<1>3. CASE CommitUnresolved(h)
  <2> DEFINE mine == row[k].owner = h /\ row[k].fence = fences[h].command /\ row[k].status = "started"
             new == IF mine THEN Released(row[k], "uncertain") ELSE row[k]
  <2>1. row' = [row EXCEPT ![k] = new]
    BY <1>3, <1>t DEF CommitUnresolved
  <2>2. new \in Rows /\ (new.status = row[k].status \/ (row[k].status \in Open /\ new.status = "uncertain"))
    BY <1>t, <1>s, <1>q, <1>rel DEF Open
  <2> HIDE DEF new, k
  <2>3. QED
    BY <1>t, <2>1, <2>2, RowUpdate DEF RowMove
<1>4. CASE RunFinished(h)
  <2> DEFINE blocked == my[h].runStatus = "blocked"
             new == IF blocked THEN Released(row[k], "blocked") ELSE Finished(row[k], "ok")
  <2>1. row' = [row EXCEPT ![k] = new]
    BY <1>4, <1>t DEF RunFinished
  <2>2. Finished(row[k], "ok") \in Rows
    BY <1>t, RowTypes DEF Statuses, Responses
  <2>3. Finished(row[k], "ok").status = "succeeded"
    BY <1>r, StatusFact
  <2>4. new \in Rows /\ new.status = IF my[h].runStatus = "blocked" THEN "blocked" ELSE "succeeded"
    BY <1>t, <1>s, <1>q, <1>rel, <2>2, <2>3
  <2>k. CommandOf[h] = k
    OBVIOUS
  <2> HIDE DEF new, k
  <2>5. QED
    BY <1>t, <1>4, <2>1, <2>4, <2>k, RowUpdate DEF RowMove
<1>5. CASE Settle(h)
  <2>1. CASE row' = row
    BY <2>1, RowUnchanged
  <2>2. CASE row' # row
    <3> DEFINE new == IF answer[h] = "error" THEN Released(row[k], "uncertain")
                      ELSE Finished(row[k], answer[h])
    <3>1. /\ Row(h).status = "started" /\ row' = [row EXCEPT ![k] = new] /\ pc[h] = "settle"
      BY <1>5, <1>t, <2>2 DEF Settle, Guard
    <3>2. answer[h] \in {"refused", "error"}
      BY <3>1 DEF IInv, SettleInv
    <3>3. Finished(row[k], "refused") \in Rows
      BY <1>t, RowTypes DEF Statuses, Responses
    <3>4. Finished(row[k], "refused").status = "failed"
      BY <1>r, StatusFact
    <3>5. new \in Rows /\ row[k].status \in Open /\ new.status \in {"uncertain", "failed"}
      BY <1>t, <1>s, <1>q, <1>rel, <3>1, <3>2, <3>3, <3>4 DEF Open
    <3> HIDE DEF new, k
    <3>6. QED
      BY <1>t, <3>1, <3>5, RowUpdate DEF RowMove
  <2>3. QED
    BY <2>1, <2>2
<1>6. CASE row' = row
  BY <1>6, RowUnchanged
<1>7. QED
  BY <1>1, <1>2, <1>3, <1>4, <1>5, <1>6
     DEF Progress, Load, Acquire, Resumed, Restored, Setup, Started, CheckCancel, SendFails, Step,
         Concluded, EngineStops, RunStopped, Broken, Release, Save

LEMMA RowSteps ==
    ASSUME IInv, [Next]_vars
    PROVE  RowStep
<1>1. ASSUME NEW k \in Commands, ExpireCommand(k) PROVE RowStep
  <2> DEFINE new == [row[k] EXCEPT !.ttl = @ - 1]
  <2>1. row' = [row EXCEPT ![k] = new] /\ row[k].ttl > 0
    BY <1>1 DEF ExpireCommand
  <2>2. row[k] \in Rows
    BY Types DEF IInv
  <2>3. IsRow(row[k])
    BY <2>2, RowFields
  <2>4. new.status = row[k].status
    BY <2>3, StatusFact
  <2>5. new = Fields(row[k].status, row[k].owner, row[k].fence, row[k].ttl - 1, row[k].response,
                     row[k].admission)
    BY <2>3, TickFact
  <2>6. row[k].ttl - 1 \in 0..CommandTicks
    BY <2>1, <2>2, CommandTicksAssumption DEF Rows
  <2>7. new \in Rows
    BY <2>2, <2>5, <2>6 DEF Rows, Fields
  <2> HIDE DEF new
  <2>8. QED
    BY <2>1, <2>4, <2>7, RowUpdate DEF RowMove
<1>2. CASE Reconcile
  <2>1. CASE RunReconciled
    BY <2>1, ReconciledSaves, RowAbandon
  <2>2. CASE ~RunReconciled
    BY <1>2, <2>2, RowUnchanged DEF Reconcile, ReconcileSelect, ReconcileAcquire, ReconcileLoad,
                                    ReconcileBroken, Release
  <2>3. QED
    BY <2>1, <2>2
<1>3. CASE row' = row
  BY <1>3, RowUnchanged
<1>4. QED
  BY <1>1, <1>2, <1>3, ProgressRows DEF Next, Cancel, Crash, ExpireSession, vars

\* The answers on their way: what Broken and Respond say is never a success.
LEMMA AnswerStep ==
    ASSUME IInv, NEW h \in Activations, Progress(h)
    PROVE  /\ answer' \in [Activations -> {None, "ok", "refused", "error", "stream"}]
           /\ \A g \in Activations \ {h} : answer'[g] = answer[g]
           /\ pc'[h] = "release" => answer'[h] \in {"ok", "refused", "error", "stream"}
           /\ pc'[h] = "settle" => answer'[h] \in {"ok", "refused", "error"}
           /\ pc'[h] \in {"release", "settle"} /\ answer'[h] = "ok" =>
                \/ RunFinished(h)
                \/ pc[h] = "release" /\ answer[h] = "ok"
<1> DEFINE Answers == {None, "ok", "refused", "error", "stream"}
           Goal == /\ answer' \in [Activations -> Answers]
                   /\ \A g \in Activations \ {h} : answer'[g] = answer[g]
                   /\ pc'[h] = "release" => answer'[h] \in {"ok", "refused", "error", "stream"}
                   /\ pc'[h] = "settle" => answer'[h] \in {"ok", "refused", "error"}
                   /\ pc'[h] \in {"release", "settle"} /\ answer'[h] = "ok" =>
                        \/ RunFinished(h)
                        \/ pc[h] = "release" /\ answer[h] = "ok"
<1> SUFFICES Goal
  OBVIOUS
<1>t. /\ TypeOK /\ h \in Actors /\ h # Reconciler /\ answer \in [Activations -> Answers]
      /\ pc[h] = "release" => answer[h] \in {"ok", "refused", "error", "stream"}
  BY Types DEF IInv, TypeOK, SettleInv
<1>1. ASSUME answer' = answer, NEW l, Goto(h, l), l \notin {"release", "settle"} PROVE Goal
  <2>1. pc'[h] = l
    BY <1>t, <1>1, GotoFact
  <2>2. QED
    BY <1>t, <1>1, <2>1
<1>2. ASSUME NEW x \in {"refused", "error", "stream"}, NEW l \in {"release", "settle"}, Goto(h, l),
             answer' = [answer EXCEPT ![h] = x], l = "settle" => x # "stream"
      PROVE  Goal
  <2>1. pc'[h] = l
    BY <1>t, <1>2, GotoFact
  <2>2. answer' \in [Activations -> Answers] /\ answer'[h] = x
        /\ \A g \in Activations \ {h} : answer'[g] = answer[g]
    BY <1>t, <1>2
  <2>3. QED
    BY <1>2, <2>1, <2>2
<1>3. ASSUME Forget(h), Goto(h, "done") PROVE Goal
  <2>1. pc'[h] = "done"
    BY <1>t, <1>3, GotoFact
  <2>2. answer' \in [Activations -> Answers] /\ \A g \in Activations \ {h} : answer'[g] = answer[g]
    BY <1>t, <1>3 DEF Forget
  <2>3. QED
    BY <2>1, <2>2
<1>4. CASE RunFinished(h)
  <2> DEFINE x == IF IsStream(h) THEN "stream" ELSE "ok"
  <2>1. answer' = [answer EXCEPT ![h] = x] /\ Goto(h, "release")
    BY <1>4 DEF RunFinished
  <2>2. x \in {"ok", "stream"}
    OBVIOUS
  <2> HIDE DEF x
  <2>3. pc'[h] = "release" /\ answer' \in [Activations -> Answers] /\ answer'[h] = x
        /\ \A g \in Activations \ {h} : answer'[g] = answer[g]
    BY <1>t, <2>1, <2>2, GotoFact
  <2>4. QED
    BY <1>4, <2>2, <2>3
<1>5. CASE Broken(h)
  <2>1. \E x \in {"refused", "error", "stream"} : answer' = [answer EXCEPT ![h] = x]
    BY <1>5 DEF Broken
  <2>2. QED
    BY <1>2, <1>5, <2>1 DEF Broken
<1>6. CASE Load(h) \/ Acquire(h) \/ CommitUnresolved(h)
  <2>1. Load(h) => Goal
    BY <1>1, <1>2 DEF Load, Respond
  <2>2. Acquire(h) => Goal
    BY <1>1, <1>2 DEF Acquire, Respond
  <2>3. CommitUnresolved(h) => Goal
    BY <1>2 DEF CommitUnresolved
  <2>4. QED
    BY <1>6, <2>1, <2>2, <2>3
<1>7. CASE Release(h)
  <2>1. CASE answer[h] = "stream"
    BY <1>t, <1>3, <1>7, <2>1 DEF Release
  <2>2. CASE answer[h] # "stream"
    <3>1. Goto(h, "settle") /\ answer' = answer /\ pc[h] = "release"
      BY <1>t, <1>7, <2>2 DEF Release
    <3>2. pc'[h] = "settle"
      BY <1>t, <3>1, GotoFact
    <3>3. QED
      BY <1>t, <2>2, <3>1, <3>2
  <2>3. QED
    BY <2>1, <2>2
<1>8. CASE Settle(h)
  BY <1>3, <1>8 DEF Settle
<1>9. CASE CheckCancel(h)
  <2>1. answer' = answer /\ \E l : Goto(h, l) /\ l \notin {"release", "settle"}
    BY <1>9 DEF CheckCancel
  <2>2. QED
    BY <1>1, <2>1
<1>10. CASE Claim(h) \/ Interrupted(h) \/ Resumed(h) \/ Restored(h) \/ Setup(h) \/ Started(h)
            \/ SendFails(h) \/ Step(h) \/ Concluded(h) \/ EngineStops(h) \/ RunStopped(h)
  <2>1. answer' = answer /\ \E l : Goto(h, l) /\ l \notin {"release", "settle"}
    BY <1>10 DEF Claim, Interrupted, Resumed, Restored, Setup, Started, SendFails, Step, Concluded,
                 EngineStops, RunStopped
  <2>2. QED
    BY <1>1, <2>1
<1> HIDE DEF Goal
<1>11. QED
  BY <1>4, <1>5, <1>6, <1>7, <1>8, <1>9, <1>10 DEF Progress

Settled == {"succeeded", "blocked"}

\* A settled command stays settled.
LEMMA RowKept ==
    ASSUME IInv, [Next]_vars, NEW k \in Commands, row[k].status \in Settled
    PROVE  row'[k].status = row[k].status
<1>1. RowMove(k)
  BY RowSteps DEF RowStep
<1>2. ASSUME NEW h \in Activations, CommandOf[h] = k, RunFinished(h) PROVE FALSE
  BY <1>2 DEF RunFinished, CanSave, Guard, Row, Settled
<1>3. QED
  BY <1>1, <1>2 DEF RowMove, Open, Settled

LEMMA FinishedSettles ==
    ASSUME IInv, NEW h \in Activations, RunFinished(h)
    PROVE  row'[CommandOf[h]].status \in Settled
<1> DEFINE k == CommandOf[h]
           new == IF my[h].runStatus = "blocked" THEN Released(row[k], "blocked")
                  ELSE Finished(row[k], "ok")
<1>1. k \in Commands /\ row[k] \in Rows /\ row \in [Commands -> Rows]
  BY Types DEF IInv, Row
<1>2. row' = [row EXCEPT ![k] = new]
  BY DEF RunFinished
<1>3. IsRow(row[k])
  BY <1>1, RowFields
<1>4. Released(row[k], "blocked").status = "blocked" /\ Finished(row[k], "ok").status = "succeeded"
  BY <1>3, StatusFact
<1>5. new.status \in Settled
  BY <1>4 DEF Settled
<1>6. row'[k] = new
  BY <1>1, <1>2
<1> HIDE DEF new
<1>7. QED
  BY <1>5, <1>6

LEMMA AnswersStep ==
    ASSUME IInv, [Next]_vars
    PROVE  /\ answer' \in [Activations -> {None, "ok", "refused", "error", "stream"}]
           /\ \A h \in Activations :
                /\ pc'[h] = "release" => answer'[h] \in {"ok", "refused", "error", "stream"}
                /\ pc'[h] = "settle" => answer'[h] \in {"ok", "refused", "error"}
                /\ pc'[h] \in {"release", "settle"} /\ answer'[h] = "ok" =>
                    row'[CommandOf[h]].status \in Settled
<1> DEFINE Answers == {None, "ok", "refused", "error", "stream"}
           Good(h) == /\ pc'[h] = "release" => answer'[h] \in {"ok", "refused", "error", "stream"}
                      /\ pc'[h] = "settle" => answer'[h] \in {"ok", "refused", "error"}
                      /\ pc'[h] \in {"release", "settle"} /\ answer'[h] = "ok" =>
                            row'[CommandOf[h]].status \in Settled
           Goal == answer' \in [Activations -> Answers] /\ \A h \in Activations : Good(h)
<1> SUFFICES Goal
  OBVIOUS
<1>t. /\ TypeOK /\ answer \in [Activations -> Answers] /\ Reconciler \in Actors
      /\ \A h \in Activations : CommandOf[h] \in Commands /\ h \in Actors /\ h # Reconciler
  BY Types DEF IInv, TypeOK
<1>s. ASSUME NEW h \in Activations, answer'[h] = answer[h], pc'[h] = pc[h] PROVE Good(h)
  <2>1. /\ pc[h] = "release" => answer[h] \in {"ok", "refused", "error", "stream"}
        /\ pc[h] = "settle" => answer[h] \in {"ok", "refused", "error"}
        /\ pc[h] \in {"release", "settle"} /\ answer[h] = "ok" => row[CommandOf[h]].status \in Settled
    BY DEF IInv, SettleInv, Row, Settled
  <2>2. row[CommandOf[h]].status \in Settled => row'[CommandOf[h]].status \in Settled
    BY <1>t, RowKept
  <2>3. QED
    BY <1>s, <2>1, <2>2
<1>1. ASSUME NEW h \in Activations, Progress(h) PROVE Goal
  <2>1. \A g \in Activations \ {h} : pc'[g] = pc[g] /\ answer'[g] = answer[g]
    BY <1>t, <1>1, ProgressMem, AnswerStep DEF MemStep
  <2>2. \A g \in Activations \ {h} : Good(g)
    BY <1>s, <2>1
  <2>3. /\ answer' \in [Activations -> Answers]
        /\ pc'[h] = "release" => answer'[h] \in {"ok", "refused", "error", "stream"}
        /\ pc'[h] = "settle" => answer'[h] \in {"ok", "refused", "error"}
        /\ pc'[h] \in {"release", "settle"} /\ answer'[h] = "ok" =>
              RunFinished(h) \/ (pc[h] = "release" /\ answer[h] = "ok")
    BY <1>1, AnswerStep
  <2>4. pc[h] = "release" /\ answer[h] = "ok" => row[CommandOf[h]].status \in Settled
    BY DEF IInv, SettleInv, Row, Settled
  <2>5. pc[h] = "release" /\ answer[h] = "ok" => row'[CommandOf[h]].status \in Settled
    BY <1>t, <2>4, RowKept
  <2>6. Good(h)
    BY <2>3, <2>5, FinishedSettles
  <2>7. QED
    BY <2>2, <2>3, <2>6
<1>2. ASSUME NEW h \in Activations, Crash(h) PROVE Goal
  <2>1. Goto(h, "crashed") /\ Forget(h)
    BY <1>2 DEF Crash
  <2>2. pc'[h] = "crashed" /\ \A g \in Activations \ {h} : pc'[g] = pc[g]
    BY <1>t, <2>1, GotoFact
  <2>3. answer' \in [Activations -> Answers] /\ \A g \in Activations \ {h} : answer'[g] = answer[g]
    BY <1>t, <2>1 DEF Forget
  <2>4. \A g \in Activations \ {h} : Good(g)
    BY <1>s, <2>2, <2>3
  <2>5. Good(h)
    BY <2>2
  <2>6. QED
    BY <2>3, <2>4, <2>5
<1>3. CASE Reconcile
  <2>1. \A g \in Activations : pc'[g] = pc[g]
    BY <1>t, <1>3, ReconcileMem DEF MemStep
  <2>2. Forget(Reconciler) => answer' = answer
    BY <1>t DEF Forget
  <2>3. answer' = answer
    BY <1>3, <2>2 DEF Reconcile, ReconcileSelect, ReconcileAcquire, ReconcileLoad, RunReconciled,
                      ReconcileBroken, Release
  <2>4. QED
    BY <1>t, <1>s, <2>1, <2>3
<1>4. CASE answer' = answer /\ pc' = pc
  BY <1>t, <1>s, <1>4
<1> HIDE DEF Goal
<1>5. QED
  BY <1>1, <1>2, <1>3, <1>4 DEF Next, Cancel, ExpireSession, ExpireCommand, vars

LEMMA SettleStep ==
    ASSUME IInv, [Next]_vars
    PROVE  SettleInv'
<1>k. Kinds
  BY Steps
<1>1. \A h \in Activations :
        /\ pc'[h] = "release" => answer'[h] \in {"ok", "refused", "error", "stream"}
        /\ pc'[h] = "settle" => answer'[h] \in {"ok", "refused", "error"}
        /\ pc'[h] \in {"release", "settle"} /\ answer'[h] = "ok" => Row(h)'.status \in Settled
  BY AnswersStep DEF Row
<1>2. ASSUME NEW k \in Commands, row'[k].status \in Settled
      PROVE  \/ row'[k].status = row[k].status
             \/ \E h \in Activations :
                    /\ CommandOf[h] = k /\ runs'[h].status \in Results
                    /\ row'[k].status = IF runs'[h].status = "blocked" THEN "blocked" ELSE "succeeded"
  <2>1. RowMove(k)
    BY RowSteps DEF RowStep
  <2>2. ASSUME NEW h \in Activations, CommandOf[h] = k, RunFinished(h)
        PROVE  runs'[h].status \in Results /\ runs'[h].status = my[h].runStatus
    BY <2>2, FinishedSaves DEF Owns, Writes
  <2>3. QED
    BY <1>2, <2>1, <2>2 DEF RowMove, Settled
<1>3. ASSUME NEW k \in Commands, row[k].status \in Settled, NEW h \in Activations,
             CommandOf[h] = k, runs[h].status \in Results
      PROVE  runs'[h].status = runs[h].status
  BY <1>3, RunKept DEF Row, Settled, Results, Ended
<1>4. ASSUME NEW k \in Commands, row'[k].status = "succeeded"
      PROVE  \E h \in Activations : CommandOf[h] = k
                /\ runs'[h].status \in {"complete", "failed", "cancelled"}
  <2>1. CASE row[k].status = "succeeded"
    <3>1. PICK h \in Activations : CommandOf[h] = k
              /\ runs[h].status \in {"complete", "failed", "cancelled"}
      BY <2>1 DEF IInv, SettleInv
    <3>2. QED
      BY <1>3, <2>1, <3>1 DEF Settled, Results
  <2>2. CASE row[k].status # "succeeded"
    BY <1>2, <1>4, <2>2 DEF Settled, Results
  <2>3. QED
    BY <2>1, <2>2
<1>5. ASSUME NEW k \in Commands, row'[k].status = "blocked"
      PROVE  \E h \in Activations : CommandOf[h] = k /\ runs'[h].status = "blocked"
  <2>1. CASE row[k].status = "blocked"
    <3>1. PICK h \in Activations : CommandOf[h] = k /\ runs[h].status = "blocked"
      BY <2>1 DEF IInv, SettleInv
    <3>2. QED
      BY <1>3, <2>1, <3>1 DEF Settled, Results
  <2>2. CASE row[k].status # "blocked"
    BY <1>2, <1>5, <2>2 DEF Settled, Results
  <2>3. QED
    BY <2>1, <2>2
<1>6. QED
  BY <1>1, <1>4, <1>5 DEF SettleInv, Settled

----------------------------------------------------------------------------
(* Types. *)

Leases == [owner : Actors \cup {None}, fence : Nat, live : BOOLEAN]
Fences == [command : Nat, session : Nat]

LEMMA LeaseStep ==
    ASSUME TypeOK, [Next]_vars
    PROVE  lease' \in Leases /\ fences' \in [Actors -> Fences]
<1>t. /\ lease \in Leases /\ fences \in [Actors -> Fences] /\ row \in [Commands -> Rows]
      /\ Reconciler \in Actors
      /\ \A h \in Activations : h \in Actors /\ h # Reconciler /\ CommandOf[h] \in Commands
                                /\ Row(h) \in Rows
  BY Types DEF TypeOK, Leases, Fences
<1>1. ASSUME NEW h \in Actors, NEW f \in Nat
      PROVE  /\ [fences EXCEPT ![h].command = f] \in [Actors -> Fences]
             /\ [fences EXCEPT ![h].session = f] \in [Actors -> Fences]
             /\ [fences EXCEPT ![h] = NoFences] \in [Actors -> Fences]
  BY <1>t DEF Fences, NoFences
<1>2. ASSUME NEW h \in Actors, TakeLease(h)
      PROVE  lease' \in Leases /\ fences' \in [Actors -> Fences]
  <2>1. lease.fence \in Nat /\ lease.fence + 1 \in Nat
    BY <1>t DEF Leases
  <2>2. lease' \in Leases
    BY <1>2, <2>1 DEF TakeLease, Leases
  <2>3. QED
    BY <1>1, <1>2, <2>1, <2>2 DEF TakeLease
<1>3. [lease EXCEPT !.owner = None, !.live = FALSE] \in Leases /\ [lease EXCEPT !.live = FALSE] \in Leases
  BY <1>t DEF Leases
<1>4. ASSUME NEW h \in Actors, Forget(h) PROVE fences' \in [Actors -> Fences]
  BY <1>1, <1>4 DEF Forget
<1>5. ASSUME NEW h \in Actors, Release(h) PROVE lease' \in Leases /\ fences' \in [Actors -> Fences]
  <2>1. lease' \in Leases
    BY <1>t, <1>3, <1>5 DEF Release
  <2>2. fences' = fences \/ Forget(h)
    BY <1>5 DEF Release
  <2>3. QED
    BY <1>t, <1>4, <2>1, <2>2
<1>6. ASSUME NEW h \in Activations, Claim(h) PROVE lease' \in Leases /\ fences' \in [Actors -> Fences]
  <2>1. Row(h).fence + 1 \in Nat
    BY <1>t DEF Rows
  <2>2. lease' = lease /\ fences' = [fences EXCEPT ![h].command = Row(h).fence + 1]
    BY <1>6 DEF Claim
  <2>3. QED
    BY <1>t, <1>1, <2>1, <2>2
<1>7. ASSUME NEW h \in Activations, Acquire(h) PROVE lease' \in Leases /\ fences' \in [Actors -> Fences]
  BY <1>t, <1>2, <1>7 DEF Acquire
<1>8. ASSUME NEW h \in Activations, Settle(h) \/ Crash(h)
      PROVE  lease' \in Leases /\ fences' \in [Actors -> Fences]
  BY <1>t, <1>4, <1>8 DEF Settle, Crash
<1>9. CASE ReconcileAcquire
  BY <1>t, <1>2, <1>9 DEF ReconcileAcquire
<1>10. CASE ExpireSession
  BY <1>t, <1>3, <1>10 DEF ExpireSession
<1>11. CASE lease' = lease /\ fences' = fences
  BY <1>t, <1>11
<1>12. ASSUME NEW h \in Activations, Progress(h)
       PROVE  lease' \in Leases /\ fences' \in [Actors -> Fences]
  <2>1. CASE Claim(h) \/ Acquire(h) \/ Release(h) \/ Settle(h)
    BY <1>t, <1>5, <1>6, <1>7, <1>8, <2>1
  <2>2. CASE ~(Claim(h) \/ Acquire(h) \/ Release(h) \/ Settle(h))
    <3>1. lease' = lease /\ fences' = fences
      BY <1>12, <2>2
         DEF Progress, Load, Interrupted, Resumed, Restored, Setup, Started, CheckCancel, SendFails,
             Step, Concluded, EngineStops, CommitUnresolved, RunStopped, RunFinished, Broken
    <3>2. QED
      BY <1>11, <3>1
  <2>3. QED
    BY <2>1, <2>2
<1>13. CASE Reconcile
  BY <1>t, <1>5, <1>9, <1>11, <1>13
     DEF Reconcile, ReconcileSelect, ReconcileLoad, RunReconciled, ReconcileBroken
<1>14. QED
  BY <1>8, <1>10, <1>11, <1>12, <1>13 DEF Next, Cancel, ExpireCommand, vars

LEMMA CounterStep ==
    ASSUME TypeOK, [Next]_vars
    PROVE  /\ steps' \in [Activations -> Nat] /\ \A h \in Activations : steps'[h] <= MaxSteps[h]
           /\ inputs' \in [Commands -> Nat]
<1> DEFINE Goal == /\ steps' \in [Activations -> Nat] /\ \A h \in Activations : steps'[h] <= MaxSteps[h]
                   /\ inputs' \in [Commands -> Nat]
<1> SUFFICES Goal
  OBVIOUS
<1>t. /\ steps \in [Activations -> Nat] /\ \A h \in Activations : steps[h] <= MaxSteps[h]
      /\ inputs \in [Commands -> Nat]
      /\ \A h \in Activations : CommandOf[h] \in Commands /\ h # Reconciler /\ MaxSteps[h] \in Nat
  BY Types, LifecycleAssumption DEF TypeOK
<1>1. ASSUME NEW h \in Activations, Step(h) PROVE Goal
  <2>1. steps[h] < MaxSteps[h] /\ steps' = [steps EXCEPT ![h] = steps[h] + 1] /\ inputs' = inputs
    BY <1>1 DEF Step
  <2>2. steps[h] + 1 \in Nat /\ steps[h] + 1 <= MaxSteps[h]
    BY <1>t, <2>1
  <2>3. QED
    BY <1>t, <2>1, <2>2
<1>2. ASSUME NEW h \in Activations, Resumed(h) PROVE Goal
  <2>1. steps' = steps /\ inputs' = [inputs EXCEPT ![CommandOf[h]] = inputs[CommandOf[h]] + 1]
    BY <1>2 DEF Resumed
  <2>2. inputs[CommandOf[h]] + 1 \in Nat
    BY <1>t
  <2>3. QED
    BY <1>t, <2>1, <2>2
<1>3. ASSUME NEW h, Forget(h), inputs' = inputs PROVE Goal
  <2>1. \A o \in Activations : 0 <= MaxSteps[o]
    BY <1>t
  <2>2. QED
    BY <1>t, <1>3, <2>1 DEF Forget
<1>4. CASE steps' = steps /\ inputs' = inputs
  BY <1>t, <1>4
<1>5. ASSUME NEW h \in Actors, Release(h) PROVE Goal
  <2>1. inputs' = inputs /\ (steps' = steps \/ Forget(h))
    BY <1>5 DEF Release
  <2>2. QED
    BY <1>3, <1>4, <2>1
<1>6. ASSUME NEW h \in Activations, Settle(h) \/ Crash(h) PROVE Goal
  <2>1. inputs' = inputs /\ Forget(h)
    BY <1>6 DEF Settle, Crash
  <2>2. QED
    BY <1>3, <2>1
<1> HIDE DEF Goal
<1>7. ASSUME NEW h \in Activations, Progress(h) PROVE Goal
  <2>1. CASE Step(h) \/ Resumed(h) \/ Release(h) \/ Settle(h)
    BY <1>1, <1>2, <1>5, <1>6, <2>1 DEF Actors
  <2>2. CASE ~(Step(h) \/ Resumed(h) \/ Release(h) \/ Settle(h))
    <3>1. steps' = steps /\ inputs' = inputs
      BY <1>7, <2>2
         DEF Progress, Claim, Load, Acquire, Interrupted, Restored, Setup, Started, CheckCancel,
             SendFails, Concluded, EngineStops, CommitUnresolved, RunStopped, RunFinished, Broken
    <3>2. QED
      BY <1>4, <3>1
  <2>3. QED
    BY <2>1, <2>2
<1>8. CASE Reconcile
  BY <1>4, <1>5, <1>8 DEF Reconcile, ReconcileSelect, ReconcileAcquire, ReconcileLoad,
                          RunReconciled, ReconcileBroken, Actors
<1>9. QED
  BY <1>4, <1>6, <1>7, <1>8 DEF Next, Cancel, ExpireSession, ExpireCommand, vars

LEMMA TypeStep ==
    ASSUME IInv, [Next]_vars
    PROVE  TypeOK'
<1>1. /\ row' \in [Commands -> Rows] /\ sess' \in Snapshots /\ runs' \in [Activations -> RunRows]
      /\ my' \in [Actors -> Snapshots]
  BY RowSteps, Steps, SessionStep, MemoryStep DEF RowStep
<1>2. lease' \in Leases /\ fences' \in [Actors -> Fences]
  BY LeaseStep DEF IInv
<1>3. pc' \in [Actors -> Positions]
  BY PcStep DEF IInv
<1>4. /\ steps' \in [Activations -> Nat] /\ \A h \in Activations : steps'[h] <= MaxSteps[h]
      /\ inputs' \in [Commands -> Nat]
  BY CounterStep DEF IInv
<1>5. answer' \in [Activations -> {None, "ok", "refused", "error", "stream"}]
  BY AnswersStep
<1>6. Positions = {"idle", "claimed", "loaded", "owner", "prepared", "resumed",
                   "setup", "engine", "emitted", "working", "cancelled", "blocked",
                   "failed", "finishing", "release", "settle", "done", "crashed"}
  BY DEF Positions, Before, InRun, Over
<1>7. QED
  BY <1>1, <1>2, <1>3, <1>4, <1>5, <1>6
     DEF TypeOK, Rows, Snapshots, RunStatuses, RunRows, Leases, Fences

LEMMA InitIInv == Init => IInv
<1> SUFFICES ASSUME Init PROVE IInv
  OBVIOUS
<1>a. /\ \A h \in Activations : CommandOf[h] \in Commands /\ h # None /\ h # Reconciler
      /\ \A h \in Activations : 0 <= MaxSteps[h]
  BY LifecycleAssumption, ReconcilerAssumption
<1>1. \A k \in Commands : PendingRow(k) \in Rows /\ PendingRow(k).status = "pending"
  <2> SUFFICES ASSUME NEW k \in Commands
               PROVE  PendingRow(k) \in Rows /\ PendingRow(k).status = "pending"
    OBVIOUS
  <2>1. PendingRow(k) = Fields("pending", None, 0, 0, None, k)
    BY PendingFact
  <2>2. 0 \in 0..CommandTicks
    BY CommandTicksAssumption
  <2>3. QED
    BY <2>1, <2>2 DEF Fields, Rows, Statuses
<1>2. row \in [Commands -> Rows] /\ \A k \in Commands : row[k].status = "pending"
  BY <1>1 DEF Init
<1>3. Fresh = Snap(0, "active", None, "none") /\ sess = Snap(1, "active", None, "none")
  BY DEF Init, Fresh, Snap
<1>4. Fresh \in Snapshots /\ sess \in Snapshots /\ Fresh.revision = 0
      /\ sess.revision = 1 /\ sess.run = None /\ sess.runStatus = "none"
  BY <1>3 DEF Snap, Snapshots, RunStatuses
<1>5. my \in [Actors -> Snapshots] /\ \A h \in Actors : my[h].revision = 0
  BY <1>4 DEF Init
<1>6. runs \in [Activations -> RunRows] /\ \A h \in Activations : runs[h].status = "absent"
  BY DEF Init, RunRows
<1>7. lease \in Leases /\ fences \in [Actors -> Fences]
  BY DEF Init, Leases, Fences, NoFences
<1>8. pc \in [Actors -> Positions] /\ \A h \in Actors : pc[h] = "idle"
  BY DEF Init, Positions
<1>9. /\ steps \in [Activations -> Nat] /\ \A h \in Activations : steps[h] <= MaxSteps[h]
      /\ inputs \in [Commands -> Nat]
      /\ answer \in [Activations -> {None, "ok", "refused", "error", "stream"}]
  BY <1>a DEF Init
<1>10. TypeOK
  BY <1>2, <1>4, <1>5, <1>6, <1>7, <1>8, <1>9
     DEF TypeOK, Rows, Snapshots, RunStatuses, RunRows, Leases, Fences, Positions, Before, InRun, Over
<1>11. SessInv
  BY <1>4, <1>6 DEF SessInv
<1>12. RunInv
  BY <1>6 DEF RunInv
<1>13. MemInv
  <2>1. \A h \in Actors : my[h].revision <= sess.revision /\ my[h].revision # sess.revision
    BY <1>4, <1>5
  <2>2. Reconciler \in Actors /\ \A h \in Activations : h \in Actors
    BY DEF Actors
  <2>3. QED
    BY <2>1, <2>2 DEF MemInv
<1>14. SettleInv
  <2>1. \A h \in Activations : pc[h] = "idle"
    BY <1>8 DEF Actors
  <2>2. QED
    BY <1>2, <2>1 DEF SettleInv
<1>15. QED
  BY <1>10, <1>11, <1>12, <1>13, <1>14 DEF IInv

----------------------------------------------------------------------------
(* Theorems. *)

\* Every reachable state satisfies the inductive invariant: only the handler
\* whose copy is the session row saves, and it saves its own run.
THEOREM Inductive == Spec => []IInv
<1>1. ASSUME IInv, [Next]_vars PROVE IInv'
  BY <1>1, TypeStep, Steps, SessStep, RunStep, MemoryStep, SettleStep DEF IInv
<1>2. QED
  BY <1>1, InitIInv, PTL DEF Spec

\* The rows and the handlers' memories keep their shape, for any activations,
\* commands and bounds.
THEOREM TypeCorrect == Spec => []TypeOK
<1>1. IInv => TypeOK
  BY DEF IInv
<1>2. QED
  BY <1>1, Inductive, PTL

\* The run rows and the snapshot agree: at most one run is running, and it is
\* the one the session row names (write_run_state, in the transaction of the
\* save).
THEOREM OneRunning == Spec => []OneRunningRun
<1>1. ASSUME IInv PROVE OneRunningRun
  <2>1. SessInv /\ \A h \in Activations : h # None
    BY <1>1, Types DEF IInv
  <2>2. QED
    BY <2>1 DEF SessInv, OneRunningRun
<1>2. QED
  BY <1>1, Inductive, PTL

\* A settled command has exactly one run, and it ended the way the command
\* says: the outcome and the terminal state commit together, and no later claim
\* starts a second run.
THEOREM SettledEnded == Spec => []SettledMeansEnded
<1>1. ASSUME IInv PROVE SettledMeansEnded
  <2> SUFFICES ASSUME NEW k \in Commands
               PROVE  LET its == {h \in Activations : CommandOf[h] = k /\ runs[h].status # "absent"}
                      IN  /\ Cardinality(its) <= 1
                          /\ row[k].status = "succeeded" =>
                              \E h \in its : runs[h].status \in {"complete", "failed", "cancelled"}
                          /\ row[k].status = "blocked" => \E h \in its : runs[h].status = "blocked"
    BY DEF SettledMeansEnded
  <2> DEFINE its == {h \in Activations : CommandOf[h] = k /\ runs[h].status # "absent"}
  <2>1. \A g, h \in its : g = h
    BY <1>1 DEF IInv, RunInv
  <2>2. Cardinality(its) <= 1
    <3>1. CASE its = {}
      <4>1. Cardinality({}) = 0
        BY FS_EmptySet
      <4>2. QED
        BY <3>1, <4>1
    <3>2. CASE its # {}
      <4>1. PICK h : h \in its
        BY <3>2
      <4>2. its = {h}
        BY <2>1, <4>1
      <4>3. Cardinality({h}) = 1
        BY FS_Singleton
      <4> HIDE DEF its
      <4>4. QED
        BY <4>2, <4>3
    <3>3. QED
      BY <3>1, <3>2
  <2>3. row[k].status = "succeeded" =>
          \E h \in its : runs[h].status \in {"complete", "failed", "cancelled"}
    BY <1>1 DEF IInv, SettleInv
  <2>4. row[k].status = "blocked" => \E h \in its : runs[h].status = "blocked"
    BY <1>1 DEF IInv, SettleInv
  <2>5. QED
    BY <2>2, <2>3, <2>4
<1>2. QED
  BY <1>1, Inductive, PTL

\* A run that a successor or the reconciler has closed, or whose command has
\* settled, is never rewritten by the worker that was replaced: the revision
\* check of save_inner and the command guard refuse it.
THEOREM ClosedStayClosed == Spec => ClosedRunsStayClosed
<1>1. ASSUME IInv, [Next]_vars
      PROVE  \A h \in Activations :
                (\/ runs[h].status = "interrupted"
                 \/ runs[h].status \in Ended /\ row[CommandOf[h]].status \in {"succeeded", "blocked"})
                => runs'[h].status = runs[h].status
  BY <1>1, RunKept DEF Row
<1>2. QED
  BY <1>1, Inductive, PTL DEF Spec, ClosedRunsStayClosed

\* A command whose lease has lapsed when its run is interrupted becomes
\* uncertain in the same save, whoever interrupts it.
THEOREM InterruptionReaches == Spec => InterruptionReachesCommand
<1>1. ASSUME IInv, [Next]_vars, NEW h \in Activations,
             runs[h].status = "running", runs'[h].status = "interrupted", Abandonable(Row(h))
      PROVE  row'[CommandOf[h]].status = "uncertain"
  <2>1. /\ sess.run = h /\ sess.runStatus = "running" /\ CommandOf[h] \in Commands
        /\ CommandOf[h] # None /\ Row(h) = row[CommandOf[h]] /\ row[CommandOf[h]].ttl = 0
    BY <1>1, Types, LifecycleAssumption DEF IInv, SessInv, Abandonable, Row
  <2>2. ~Still
    BY <1>1 DEF Still
  <2>3. ASSUME NEW g \in Actors, Rewrites(g) PROVE FALSE
    BY <1>1, <2>1, <2>3 DEF Rewrites, Writes
  <2>4. ASSUME NEW g \in Activations, NEW st, NEW x \in OwnStatuses, Owns(g, st, x) PROVE FALSE
    BY <1>1, <2>4 DEF Owns, Writes, OwnStatuses, Results
  <2>5. PICK g \in Actors : Interrupts(g)
    BY <1>1, <2>2, <2>3, <2>4, Steps DEF Kinds
  <2>6. CASE g \in Activations /\ Row(g).ttl > 0 /\ AbandonOrigin(sess.run, CommandOf[g])
    <3>1. CommandOf[g] # CommandOf[h]
      BY <2>1, <2>6 DEF Row
    <3>2. QED
      BY <1>1, <2>1, <2>6, <3>1, RowAbandon
  <2>7. CASE AbandonOrigin(sess.run, None)
    BY <1>1, <2>1, <2>7, RowAbandon
  <2>8. QED
    BY <2>5, <2>6, <2>7 DEF Interrupts
<1>2. ASSUME IInv, [Next]_vars
      PROVE  \A h \in Activations :
                /\ runs[h].status = "running" /\ runs'[h].status = "interrupted"
                /\ sess'.run = h /\ Abandonable(Row(h))
                => row'[CommandOf[h]].status = "uncertain"
  BY <1>1, <1>2
<1>3. QED
  BY <1>2, Inductive, PTL DEF Spec, InterruptionReachesCommand
=============================================================================
