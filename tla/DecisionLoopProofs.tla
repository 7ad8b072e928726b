------------------------- MODULE DecisionLoopProofs -------------------------
(***************************************************************************)
(* Proofs about DecisionLoop, for any workflow, checks, bindings and       *)
(* limits that validate_config accepts, and any number of crashes.         *)
(*                                                                         *)
(* The invariant is of a session and of what tools have returned; it is    *)
(* kept for the engine's session and for the committed one alike, so that  *)
(* a crash, which replaces the one by the other, keeps it too.             *)
(***************************************************************************)
EXTENDS DecisionLoop, WellFoundedInduction, SequenceTheorems, TLAPS

\* The phase of a pending batch is the active phase.
InPhase(t) == t.pending # <<>> => t.pendingPhase = ActivePhase(t)

\* Evidence and artifacts are outputs in r.
EvidenceEarned(t, r) == \A key \in t.ev : <<EvidenceOf(key).tool, EvidenceOf(key).out>> \in r
ArtifactsEarned(t, r) ==
    \A k \in Labels : t.art[k] # None => <<Checks[k].tool, t.art[k].value>> \in r

AnswerEarned(t, r) ==
    t.status = "complete" =>
        /\ Complete(t) /\ t.pending = <<>>
        /\ \A k \in Labels : <<Checks[k].tool, t.answer[k]>> \in r

\* A session with too many invalid responses has failed.
BelowLimit(t) == t.status = "active" => t.invalid < MaxInvalid

Good(t, r) ==
    InPhase(t) /\ EvidenceEarned(t, r) /\ ArtifactsEarned(t, r) /\ AnswerEarned(t, r) /\ BelowLimit(t)

\* Where the engine is: no call is pending outside settle_pending, only an
\* active session is sent to the model, and no run has a session of its own.
PcInv ==
    /\ pc \in {"loop", "compact", "decide", "count", "observe"} => s.pending = <<>>
    /\ pc \in {"compact", "decide"} => s.status = "active"
    /\ pc = "idle" => s = db

\* The counter and the refused responses, as long as no process has died.
CountInv ==
    crashes = 0 =>
        /\ pc = "begin" \/ (pc = "idle" /\ s.status = "active") =>
            s.invalid = 0 /\ refused = NoneRefused
        /\ pc \in {"loop", "compact", "decide", "observe"} => s.invalid = refused.count
        /\ pc = "count" => s.invalid + 1 = refused.count
        /\ pc = "settle" =>
            /\ rejected <=> refused.batch
            /\ s.invalid + (IF refused.batch THEN 1 ELSE 0) = refused.count

IInv == TypeOK /\ Good(s, ran) /\ Good(db, ran) /\ PcInv /\ CountInv

----------------------------------------------------------------------------
(* Sessions. *)

\* The first open edge exists.
LEMMA LeastExists ==
    ASSUME NEW S \in SUBSET Nat, S # {}
    PROVE  \E m \in S : \A o \in S : m <= o
<1> DEFINE R == OpToRel(<, Nat)
<1>1. IsWellFoundedOn(R, Nat)
  BY NatLessThanWellFounded
<1>2. \A x, y \in Nat : x < y => <<x, y>> \in R
  BY DEF OpToRel
<1> HIDE DEF R
<1>3. PICK m \in S : \A y \in S : ~ (<<y, m>> \in R)
  BY <1>1, WFMin
<1>4. ASSUME NEW y \in S PROVE m <= y
  <2>1. m \in Nat /\ y \in Nat /\ ~ (<<y, m>> \in R)
    BY <1>3
  <2>2. ~ (y < m)
    BY <1>2, <2>1
  <2>3. QED
    BY <2>1, <2>2
<1>5. QED
  BY <1>4

Runs == {"idle", "running", "complete", "failed", "cancelled", "blocked", "interrupted"}
\* A field of a session is replaced by a value of its type.
LEMMA Put ==
    ASSUME NEW t \in Sessions
    PROVE  /\ \A v \in {"active", "complete", "failed"} : [t EXCEPT !.status = v] \in Sessions
           /\ \A v \in Runs : [t EXCEPT !.run = v] \in Sessions
           /\ \A v \in Nat : /\ [t EXCEPT !.step = v] \in Sessions
                             /\ [t EXCEPT !.invalid = v] \in Sessions
                             /\ [t EXCEPT !.idle = v] \in Sessions
           /\ \A v \in Phases \cup {None, "unset"} : [t EXCEPT !.phase = v] \in Sessions
           /\ \A v \in SUBSET Phases : [t EXCEPT !.done = v] \in Sessions
           /\ \A v \in SUBSET (Phases \X Nat \X Nat) : [t EXCEPT !.ev = v] \in Sessions
           /\ \A v \in [Labels -> Artifacts] : [t EXCEPT !.art = v] \in Sessions
           /\ \A v \in Seq(Tools \X (Outputs \cup {None}) \X Outputs) : [t EXCEPT !.seen = v] \in Sessions
           /\ \A v \in Seq(Requests) : [t EXCEPT !.pending = v] \in Sessions
           /\ \A v \in Phases \cup {None} : [t EXCEPT !.pendingPhase = v] \in Sessions
           /\ \A v \in [Labels -> Outputs] \cup {None} : [t EXCEPT !.answer = v] \in Sessions
<1>1. \A v \in {"active", "complete", "failed"} : [t EXCEPT !.status = v] \in Sessions
  BY DEF Sessions
<1>2. \A v \in Runs : [t EXCEPT !.run = v] \in Sessions
  BY DEF Sessions, Runs
<1>3. \A v \in Nat : [t EXCEPT !.step = v] \in Sessions
  BY DEF Sessions
<1>4. \A v \in Nat : [t EXCEPT !.invalid = v] \in Sessions
  BY DEF Sessions
<1>5. \A v \in Nat : [t EXCEPT !.idle = v] \in Sessions
  BY DEF Sessions
<1>6. \A v \in Phases \cup {None, "unset"} : [t EXCEPT !.phase = v] \in Sessions
  BY DEF Sessions
<1>7. \A v \in SUBSET Phases : [t EXCEPT !.done = v] \in Sessions
  BY DEF Sessions
<1>8. \A v \in SUBSET (Phases \X Nat \X Nat) : [t EXCEPT !.ev = v] \in Sessions
  BY DEF Sessions
<1>9. \A v \in [Labels -> Artifacts] : [t EXCEPT !.art = v] \in Sessions
  BY DEF Sessions
<1>10. \A v \in Seq(Tools \X (Outputs \cup {None}) \X Outputs) : [t EXCEPT !.seen = v] \in Sessions
  BY DEF Sessions
<1>11. \A v \in Seq(Requests) : [t EXCEPT !.pending = v] \in Sessions
  BY DEF Sessions
<1>12. \A v \in Phases \cup {None} : [t EXCEPT !.pendingPhase = v] \in Sessions
  BY DEF Sessions
<1>13. \A v \in [Labels -> Outputs] \cup {None} : [t EXCEPT !.answer = v] \in Sessions
  BY DEF Sessions
<1>14. QED
  BY <1>1, <1>2, <1>3, <1>4, <1>5, <1>6, <1>7, <1>8, <1>9, <1>10, <1>11, <1>12, <1>13

\* The invariant does not depend on the other fields, and outputs are kept.
LEMMA GoodKept ==
    ASSUME NEW t, NEW u, NEW r, NEW q, r \subseteq q, Good(t, r),
           u.pending = t.pending, u.pendingPhase = t.pendingPhase, u.phase = t.phase,
           u.ev = t.ev, u.art = t.art,
           u.status = "complete" => t.status = "complete" /\ u.answer = t.answer,
           u.status = "active" => u.invalid < MaxInvalid
    PROVE  Good(u, q)
<1>1. InPhase(u)
  BY DEF Good, InPhase, ActivePhase
<1>2. EvidenceEarned(u, q)
  BY DEF Good, EvidenceEarned
<1>3. ArtifactsEarned(u, q)
  BY DEF Good, ArtifactsEarned
<1>4. AnswerEarned(u, q)
  BY DEF Good, AnswerEarned, Complete
<1>5. QED
  BY <1>1, <1>2, <1>3, <1>4 DEF Good, BelowLimit

LEMMA FailedFact ==
    ASSUME NEW t \in Sessions, NEW r, Good(t, r)
    PROVE  /\ Failed(t) \in Sessions /\ Good(Failed(t), r)
           /\ Failed(t).status = "failed" /\ Failed(t).pending = t.pending
           /\ Failed(t).invalid = t.invalid
<1> DEFINE u == Failed(t)
<1>1. u \in Sessions
  BY DEF Failed, Sessions
<1>2. /\ u.status = "failed" /\ u.pending = t.pending /\ u.pendingPhase = t.pendingPhase
      /\ u.phase = t.phase /\ u.ev = t.ev /\ u.art = t.art /\ u.invalid = t.invalid
  BY DEF Failed, Sessions
<1> HIDE DEF u
<1>3. Good(u, r)
  BY <1>2, GoodKept
<1>4. QED
  BY <1>1, <1>2, <1>3 DEF u

LEMMA CountFact ==
    ASSUME NEW t \in Sessions, NEW r, Good(t, r)
    PROVE  /\ CountInvalid(t) \in Sessions /\ Good(CountInvalid(t), r)
           /\ CountInvalid(t).pending = t.pending /\ CountInvalid(t).invalid = t.invalid + 1
<1> DEFINE n == t.invalid + 1
           u == [t EXCEPT !.invalid = n]
<1>1. n \in Nat
  BY DEF Sessions
<1>2. u \in Sessions
  BY <1>1, Put
<1>3. /\ u.invalid = n /\ u.pending = t.pending /\ u.pendingPhase = t.pendingPhase
      /\ u.phase = t.phase /\ u.ev = t.ev /\ u.art = t.art /\ u.answer = t.answer /\ u.status = t.status
  BY DEF Sessions
<1>4. CountInvalid(t) = IF u.invalid < MaxInvalid THEN u ELSE Failed(u)
  BY DEF CountInvalid
<1>n. n = t.invalid + 1
  OBVIOUS
<1> HIDE DEF u, n
<1>5. CASE u.invalid < MaxInvalid
  BY <1>2, <1>3, <1>4, <1>5, <1>n, GoodKept
<1>6. CASE ~(u.invalid < MaxInvalid)
  <2> DEFINE v == Failed(u)
  <2>1. v \in Sessions /\ v.status = "failed"
    BY <1>2 DEF Failed, Sessions
  <2>2. /\ v.pending = u.pending /\ v.pendingPhase = u.pendingPhase
        /\ v.phase = u.phase /\ v.ev = u.ev /\ v.art = u.art /\ v.invalid = u.invalid
    BY <1>2 DEF Failed, Sessions
  <2> HIDE DEF v
  <2>3. Good(v, r)
    BY <1>3, <2>1, <2>2, GoodKept
  <2>4. CountInvalid(t) = v
    BY <1>4, <1>6 DEF v
  <2>5. QED
    BY <1>3, <1>n, <2>1, <2>2, <2>3, <2>4
<1>7. QED
  BY <1>5, <1>6

LEMMA SteppedFact ==
    ASSUME NEW t \in Sessions, NEW r, Good(t, r)
    PROVE  /\ Stepped(t) \in Sessions /\ Good(Stepped(t), r)
           /\ Stepped(t).pending = t.pending /\ Stepped(t).invalid = t.invalid
           /\ Stepped(t).status = t.status /\ Stepped(t).phase = t.phase /\ Stepped(t).art = t.art
<1> DEFINE n == t.step + 1
           u == [t EXCEPT !.step = n]
<1>1. n \in Nat
  BY DEF Sessions
<1>2. u \in Sessions
  BY <1>1, Put
<1>3. /\ u.pending = t.pending /\ u.pendingPhase = t.pendingPhase /\ u.status = t.status
      /\ u.phase = t.phase /\ u.ev = t.ev /\ u.art = t.art /\ u.invalid = t.invalid /\ u.answer = t.answer
  BY DEF Sessions
<1>4. Stepped(t) = u
  BY DEF Stepped
<1> HIDE DEF u
<1>5. t.status = "active" => t.invalid < MaxInvalid
  BY DEF Good, BelowLimit
<1>6. Good(u, r)
  BY <1>3, <1>5, GoodKept
<1>7. QED
  BY <1>2, <1>3, <1>4, <1>6

\* The reset of the counter, the idle count and the status of the run.
LEMMA LocalFact ==
    ASSUME NEW t \in Sessions, NEW r, Good(t, r)
    PROVE  /\ \A n \in Nat : LET u == [t EXCEPT !.idle = n] IN
                /\ u \in Sessions /\ Good(u, r) /\ u.pending = t.pending
                /\ u.invalid = t.invalid /\ u.status = t.status
           /\ \A x \in Runs : LET u == [t EXCEPT !.run = x] IN
                /\ u \in Sessions /\ Good(u, r) /\ u.pending = t.pending
                /\ u.invalid = t.invalid /\ u.status = t.status
           /\ LET u == [t EXCEPT !.invalid = 0] IN
                u \in Sessions /\ Good(u, r) /\ u.pending = t.pending /\ u.invalid = 0
<1>b. t.status = "active" => t.invalid < MaxInvalid
  BY DEF Good, BelowLimit
<1>m. 0 < MaxInvalid
  BY ConfigAssumption DEF ValidLimits
<1>1. ASSUME NEW n \in Nat
      PROVE  LET u == [t EXCEPT !.idle = n] IN
                /\ u \in Sessions /\ Good(u, r) /\ u.pending = t.pending
                /\ u.invalid = t.invalid /\ u.status = t.status
  <2> DEFINE u == [t EXCEPT !.idle = n]
  <2>1. u \in Sessions
    BY Put
  <2>2. /\ u.pending = t.pending /\ u.pendingPhase = t.pendingPhase /\ u.status = t.status
        /\ u.phase = t.phase /\ u.ev = t.ev /\ u.art = t.art /\ u.invalid = t.invalid
        /\ u.answer = t.answer
    BY DEF Sessions
  <2> HIDE DEF u
  <2>3. Good(u, r)
    BY <1>b, <2>2, GoodKept
  <2>4. QED
    BY <2>1, <2>2, <2>3 DEF u
<1>2. ASSUME NEW x \in Runs
      PROVE  LET u == [t EXCEPT !.run = x] IN
                /\ u \in Sessions /\ Good(u, r) /\ u.pending = t.pending
                /\ u.invalid = t.invalid /\ u.status = t.status
  <2> DEFINE u == [t EXCEPT !.run = x]
  <2>1. u \in Sessions
    BY Put
  <2>2. /\ u.pending = t.pending /\ u.pendingPhase = t.pendingPhase /\ u.status = t.status
        /\ u.phase = t.phase /\ u.ev = t.ev /\ u.art = t.art /\ u.invalid = t.invalid
        /\ u.answer = t.answer
    BY DEF Sessions
  <2> HIDE DEF u
  <2>3. Good(u, r)
    BY <1>b, <2>2, GoodKept
  <2>4. QED
    BY <2>1, <2>2, <2>3 DEF u
<1>3. LET u == [t EXCEPT !.invalid = 0] IN
        u \in Sessions /\ Good(u, r) /\ u.pending = t.pending /\ u.invalid = 0
  <2> DEFINE u == [t EXCEPT !.invalid = 0]
  <2>1. u \in Sessions
    BY Put
  <2>2. /\ u.pending = t.pending /\ u.pendingPhase = t.pendingPhase /\ u.status = t.status
        /\ u.phase = t.phase /\ u.ev = t.ev /\ u.art = t.art /\ u.invalid = 0
        /\ u.answer = t.answer
    BY DEF Sessions
  <2> HIDE DEF u
  <2>3. Good(u, r)
    BY <1>m, <2>2, GoodKept
  <2>4. QED
    BY <2>1, <2>2, <2>3 DEF u
<1>4. QED
  BY <1>1, <1>2, <1>3

\* reset_resume_counters.
LEMMA ResumeFact ==
    ASSUME NEW t \in Sessions, NEW r, Good(t, r), NEW x \in Runs
    PROVE  LET u == [t EXCEPT !.run = x, !.status = "active", !.answer = None,
                              !.invalid = 0, !.idle = 0]
           IN  u \in Sessions /\ Good(u, r) /\ u.invalid = 0
<1> DEFINE u == [t EXCEPT !.run = x, !.status = "active", !.answer = None, !.invalid = 0, !.idle = 0]
           a == [t EXCEPT !.run = x]
           b == [a EXCEPT !.status = "active"]
           c == [b EXCEPT !.answer = None]
           d == [c EXCEPT !.invalid = 0]
           e == [d EXCEPT !.idle = 0]
<1>1. /\ u.pending = t.pending /\ u.pendingPhase = t.pendingPhase /\ u.status = "active"
      /\ u.phase = t.phase /\ u.ev = t.ev /\ u.art = t.art /\ u.invalid = 0
  BY DEF Sessions
<1>2. u = e
  OBVIOUS
<1>3. a \in Sessions
  BY Put
<1> HIDE DEF u, a
<1>4. b \in Sessions
  BY <1>3, Put
<1> HIDE DEF b
<1>5. c \in Sessions
  BY <1>4, Put
<1> HIDE DEF c
<1>6. d \in Sessions
  BY <1>5, Put
<1> HIDE DEF d
<1>7. e \in Sessions
  BY <1>6, Put
<1> HIDE DEF e
<1>8. 0 < MaxInvalid
  BY ConfigAssumption DEF ValidLimits
<1>9. Good(u, r)
  BY <1>1, <1>8, GoodKept
<1>10. QED
  BY <1>1, <1>2, <1>7, <1>9 DEF u

\* The outer handler's own outcome: cancelled or blocked.
LEMMA StoppedFact ==
    ASSUME NEW t \in Sessions, NEW r, Good(t, r), NEW x \in Runs, NEW y \in [Labels -> Outputs] \cup {None}
    PROVE  LET u == [t EXCEPT !.status = "failed", !.run = x, !.answer = y]
               v == [t EXCEPT !.status = "failed", !.run = x]
           IN  /\ u \in Sessions /\ Good(u, r) /\ u.status = "failed"
               /\ v \in Sessions /\ Good(v, r) /\ v.status = "failed"
<1> DEFINE u == [t EXCEPT !.status = "failed", !.run = x, !.answer = y]
           v == [t EXCEPT !.status = "failed", !.run = x]
           a == [t EXCEPT !.status = "failed"]
           b == [a EXCEPT !.run = x]
           c == [b EXCEPT !.answer = y]
<1>1. /\ u.pending = t.pending /\ u.pendingPhase = t.pendingPhase /\ u.status = "failed"
      /\ u.phase = t.phase /\ u.ev = t.ev /\ u.art = t.art
  BY DEF Sessions
<1>2. /\ v.pending = t.pending /\ v.pendingPhase = t.pendingPhase /\ v.status = "failed"
      /\ v.phase = t.phase /\ v.ev = t.ev /\ v.art = t.art
  BY DEF Sessions
<1>3. u = c /\ v = b
  OBVIOUS
<1>4. a \in Sessions
  BY Put
<1> HIDE DEF u, v, a
<1>5. b \in Sessions
  BY <1>4, Put
<1> HIDE DEF b
<1>6. c \in Sessions
  BY <1>5, Put
<1> HIDE DEF c
<1>7. Good(u, r) /\ Good(v, r)
  BY <1>1, <1>2, GoodKept
<1>8. QED
  BY <1>1, <1>2, <1>3, <1>5, <1>6, <1>7 DEF u, v

\* An accepted final answer: the workflow is complete and every check has an
\* artifact that the answer repeats.
LEMMA FinalFact ==
    ASSUME NEW t \in Sessions, NEW r, Good(t, r), t.pending = <<>>,
           NEW a \in Answers, AnswerAccepted(t, a)
    PROVE  LET u == [Stepped(t) EXCEPT !.status = "complete", !.run = "complete",
                                       !.answer = a.says, !.invalid = 0, !.idle = 0]
           IN  u \in Sessions /\ Good(u, r) /\ u.pending = <<>> /\ u.invalid = 0
<1> DEFINE z == Stepped(t)
           n == t.step + 1
<1>z. /\ z \in Sessions /\ Good(z, r) /\ z.pending = <<>> /\ z.phase = t.phase /\ z.art = t.art
  BY SteppedFact
<1> HIDE DEF z
<1> DEFINE u == [z EXCEPT !.status = "complete", !.run = "complete", !.answer = a.says,
                          !.invalid = 0, !.idle = 0]
           b == [z EXCEPT !.status = "complete"]
           c == [b EXCEPT !.run = "complete"]
           d == [c EXCEPT !.answer = a.says]
           e == [d EXCEPT !.invalid = 0]
           f == [e EXCEPT !.idle = 0]
<1>1. /\ u.pending = z.pending /\ u.pendingPhase = z.pendingPhase /\ u.status = "complete"
      /\ u.phase = z.phase /\ u.ev = z.ev /\ u.art = z.art /\ u.invalid = 0 /\ u.answer = a.says
  BY <1>z DEF Sessions
<1>2. u = f
  OBVIOUS
<1>3. a.says \in [Labels -> Outputs] /\ "complete" \in Runs
  BY DEF Answers, Runs
<1>4. b \in Sessions
  BY <1>z, Put
<1> HIDE DEF u, b
<1>5. c \in Sessions
  BY <1>3, <1>4, Put
<1> HIDE DEF c
<1>6. d \in Sessions
  BY <1>3, <1>5, Put
<1> HIDE DEF d
<1>7. e \in Sessions
  BY <1>6, Put
<1> HIDE DEF e
<1>8. f \in Sessions
  BY <1>7, Put
<1> HIDE DEF f
<1>9. \A k \in Labels : <<Checks[k].tool, u.answer[k]>> \in r
  <2> SUFFICES ASSUME NEW k \in Labels PROVE <<Checks[k].tool, u.answer[k]>> \in r
    OBVIOUS
  <2>1. t.art[k] # None /\ a.says[k] = t.art[k].value
    BY DEF AnswerAccepted
  <2>2. <<Checks[k].tool, t.art[k].value>> \in r
    BY <2>1 DEF Good, ArtifactsEarned
  <2>3. QED
    BY <1>1, <2>1, <2>2
<1>10. AnswerEarned(u, r)
  BY <1>z, <1>1, <1>9 DEF AnswerEarned, Complete, AnswerAccepted
<1>11. Good(u, r)
  BY <1>z, <1>1, <1>10 DEF Good, InPhase, EvidenceEarned, ArtifactsEarned, BelowLimit
<1>12. QED
  BY <1>z, <1>1, <1>2, <1>8, <1>11 DEF u, z

LEMMA PhaseType ==
    ASSUME NEW t \in Sessions
    PROVE  ActivePhase(t) \in Phases \cup {None}
  BY DEF ActivePhase

\* A batch is scheduled in the active phase.
LEMMA ToolsFact ==
    ASSUME NEW t \in Sessions, NEW r, Good(t, r), t.status = "active", NEW calls \in Seq(Requests)
    PROVE  LET u == [Stepped(t) EXCEPT !.pending = calls, !.pendingPhase = ActivePhase(t)]
           IN  u \in Sessions /\ Good(u, r) /\ u.invalid = t.invalid
<1> DEFINE z == Stepped(t)
           p == ActivePhase(t)
<1>z. /\ z \in Sessions /\ Good(z, r) /\ z.phase = t.phase /\ z.status = "active"
      /\ z.invalid = t.invalid
  BY SteppedFact
<1>p. p \in Phases \cup {None} /\ p = ActivePhase(z)
  BY <1>z, PhaseType DEF ActivePhase
<1> HIDE DEF z, p
<1> DEFINE u == [z EXCEPT !.pending = calls, !.pendingPhase = p]
           b == [z EXCEPT !.pending = calls]
           c == [b EXCEPT !.pendingPhase = p]
<1>1. /\ u.pending = calls /\ u.pendingPhase = p /\ u.status = "active" /\ u.phase = z.phase
      /\ u.ev = z.ev /\ u.art = z.art /\ u.invalid = z.invalid
  BY <1>z DEF Sessions
<1>2. u = c
  OBVIOUS
<1>3. b \in Sessions
  BY <1>z, Put
<1> HIDE DEF u, b
<1>4. c \in Sessions
  BY <1>p, <1>3, Put
<1> HIDE DEF c
<1>5. InPhase(u)
  BY <1>p, <1>1 DEF InPhase, ActivePhase
<1>6. Good(u, r)
  BY <1>z, <1>1, <1>5 DEF Good, EvidenceEarned, ArtifactsEarned, AnswerEarned, BelowLimit
<1>7. QED
  BY <1>z, <1>1, <1>2, <1>4, <1>6 DEF u, z, p

\* The first call leaves the batch.
LEMMA CallDoneFact ==
    ASSUME NEW t \in Sessions, NEW r, Good(t, r), t.pending # <<>>
    PROVE  /\ CallDone(t) \in Sessions /\ Good(CallDone(t), r)
           /\ CallDone(t).invalid = t.invalid /\ CallDone(t).status = t.status
<1> DEFINE q == Tail(t.pending)
           p == IF Len(t.pending) = 1 THEN None ELSE t.pendingPhase
<1>1. t.pending \in Seq(Requests) /\ t.pendingPhase \in Phases \cup {None}
  BY DEF Sessions
<1>2. q \in Seq(Requests) /\ p \in Phases \cup {None} /\ (Len(t.pending) = 1 => q = <<>>)
  <2>1. q \in Seq(Requests) /\ Len(q) = Len(t.pending) - 1
    BY <1>1, HeadTailProperties
  <2>2. Len(t.pending) = 1 => Len(q) = 0
    BY <2>1
  <2>3. Len(q) = 0 => q = <<>>
    BY <2>1, EmptySeq
  <2>4. p \in Phases \cup {None}
    BY <1>1
  <2>5. QED
    BY <2>1, <2>2, <2>3, <2>4
<1>3. q # <<>> => p = t.pendingPhase
  BY <1>2
<1>u. CallDone(t) = [t EXCEPT !.pending = q, !.pendingPhase = p]
  BY DEF CallDone
<1> HIDE DEF q, p
<1> DEFINE u == [t EXCEPT !.pending = q, !.pendingPhase = p]
           b == [t EXCEPT !.pending = q]
           c == [b EXCEPT !.pendingPhase = p]
<1>4. /\ u.pending = q /\ u.pendingPhase = p /\ u.status = t.status /\ u.phase = t.phase
      /\ u.ev = t.ev /\ u.art = t.art /\ u.invalid = t.invalid
  BY DEF Sessions
<1>5. u = c
  OBVIOUS
<1>6. b \in Sessions
  BY <1>2, Put
<1> HIDE DEF u, b
<1>7. c \in Sessions
  BY <1>2, <1>6, Put
<1> HIDE DEF c
<1>8. t.status # "complete"
  BY DEF Good, AnswerEarned
<1>9. InPhase(u)
  BY <1>3, <1>4 DEF Good, InPhase, ActivePhase
<1>10. Good(u, r)
  BY <1>4, <1>8, <1>9 DEF Good, EvidenceEarned, ArtifactsEarned, AnswerEarned, BelowLimit
<1>11. QED
  BY <1>4, <1>5, <1>7, <1>10, <1>u DEF u

----------------------------------------------------------------------------
(* What a tool's output does to a session. *)

Observed == Tools \X (Outputs \cup {None}) \X Outputs

LEMMA CallType ==
    ASSUME NEW call \in Requests
    PROVE  call.tool \in Tools /\ call.arg \in Outputs \cup {None}
  BY ConfigAssumption

LEMMA SeenFact ==
    ASSUME NEW t \in Sessions, NEW call \in Requests, NEW out \in Outputs
    PROVE  Seen(t, call, out) \in Seq(Observed)
<1> DEFINE x == <<call.tool, call.arg, out>>
           all == IF \E i \in DOMAIN t.seen : t.seen[i] = x THEN t.seen ELSE Append(t.seen, x)
<1>1. t.seen \in Seq(Observed) /\ x \in Observed
  BY CallType DEF Sessions, Observed
<1>2. all \in Seq(Observed)
  BY <1>1, AppendProperties
<1>3. Seen(t, call, out) = IF t.phase # "unset" \/ out \in ErrorOutputs THEN t.seen
                           ELSE IF Len(all) > SeenCap
                                THEN SubSeq(all, Len(all) - SeenCap + 1, Len(all)) ELSE all
  BY DEF Seen
<1> HIDE DEF all
<1>4. ASSUME Len(all) > SeenCap
      PROVE  SubSeq(all, Len(all) - SeenCap + 1, Len(all)) \in Seq(Observed)
  <2>1. Len(all) \in Nat /\ SeenCap \in Nat \ {0} /\ all \in [1..Len(all) -> Observed]
    BY <1>2, LenProperties, ConfigAssumption
  <2> DEFINE m == Len(all) - SeenCap + 1
  <2>2. m \in Int /\ m >= 1
    BY <1>4, <2>1
  <2>3. \A i \in m..Len(all) : all[i] \in Observed
    BY <2>1, <2>2
  <2> HIDE DEF m
  <2>4. SubSeq(all, m, Len(all)) \in Seq(Observed)
    BY <2>1, <2>2, <2>3, SubSeqProperties
  <2>5. QED
    BY <2>4 DEF m
<1>5. QED
  BY <1>1, <1>2, <1>3, <1>4

\* capture_artifacts: an artifact is what the tool of its check returned.
LEMMA CapturedFact ==
    ASSUME NEW t \in Sessions, NEW r, NEW q, r \subseteq q, ArtifactsEarned(t, r),
           NEW call \in Requests, NEW out \in Outputs, <<call.tool, out>> \in q
    PROVE  /\ Captured(t, call, out) \in [Labels -> Artifacts]
           /\ \A k \in Labels : Captured(t, call, out)[k] # None =>
                <<Checks[k].tool, Captured(t, call, out)[k].value>> \in q
<1> DEFINE new == [value |-> out, step |-> t.step, left |-> Len(t.pending)]
           hit(k) == out \notin ErrorOutputs /\ Checks[k].tool = call.tool /\ out \in Checks[k].outs
<1>1. Captured(t, call, out) = [k \in Labels |-> IF hit(k) THEN new ELSE t.art[k]]
  BY DEF Captured
<1>2. t.step \in Nat /\ t.pending \in Seq(Requests) /\ t.art \in [Labels -> Artifacts]
  BY DEF Sessions
<1>3. new \in Artifacts /\ new.value = out
  BY <1>2, LenProperties DEF Artifacts
<1> HIDE DEF new
<1>4. ASSUME NEW k \in Labels
      PROVE  /\ Captured(t, call, out)[k] \in Artifacts
             /\ Captured(t, call, out)[k] # None =>
                    <<Checks[k].tool, Captured(t, call, out)[k].value>> \in q
  <2>1. CASE hit(k)
    BY <1>1, <1>3, <2>1
  <2>2. CASE ~hit(k)
    BY <1>1, <1>2, <2>2 DEF ArtifactsEarned
  <2>3. QED
    BY <2>1, <2>2
<1>5. QED
  BY <1>1, <1>4

LEMMA PhaseShape ==
    ASSUME NEW p \in Phases
    PROVE  /\ Phase[p].completion \in Seq(Evidence) /\ Phase[p].edges \in Seq(Edge)
           /\ \A n \in DOMAIN Phase[p].edges : /\ n \in Nat /\ n # 0
                                               /\ Phase[p].edges[n].evidence \in Seq(Evidence)
                                               /\ Phase[p].edges[n].to \in Phases \cup {"complete"}
<1>1. Phase[p].completion \in Seq(Evidence) /\ Phase[p].edges \in Seq(Edge)
  BY ConfigAssumption DEF ValidWorkflow
<1>2. ASSUME NEW n \in DOMAIN Phase[p].edges
      PROVE  n \in Nat /\ n # 0 /\ Phase[p].edges[n] \in Edge
  BY <1>1, LenProperties
<1>3. QED
  BY <1>1, <1>2 DEF Edge

\* record: new evidence is evidence of the call and its output.
LEMMA RecordedFact ==
    ASSUME NEW t \in Sessions, NEW r, NEW q, r \subseteq q, EvidenceEarned(t, r),
           NEW call \in Requests, NEW out \in Outputs, <<call.tool, out>> \in q
    PROVE  /\ Recorded(t, call, out) \in SUBSET (Phases \X Nat \X Nat)
           /\ \A key \in Recorded(t, call, out) : <<EvidenceOf(key).tool, EvidenceOf(key).out>> \in q
<1>1. t.ev \in SUBSET (Phases \X Nat \X Nat)
      /\ \A key \in t.ev : <<EvidenceOf(key).tool, EvidenceOf(key).out>> \in q
  BY DEF Sessions, EvidenceEarned
<1>2. CASE t.phase \notin Phases
  BY <1>1, <1>2 DEF Recorded
<1>3. CASE t.phase \in Phases
  <2> DEFINE p == t.phase
             done == Matching(Phase[p].completion, p, 0, call, out)
             edge(n) == Matching(Phase[p].edges[n].evidence, p, n, call, out)
  <2>1. Recorded(t, call, out) = t.ev \cup done \cup UNION {edge(n) : n \in DOMAIN Phase[p].edges}
    BY <1>3 DEF Recorded
  <2>2. ASSUME NEW items \in Seq(Evidence), NEW g \in Nat, NEW key \in Matching(items, p, g, call, out)
        PROVE  \E i \in DOMAIN items : /\ key = <<p, g, i>> /\ i \in Nat
                                       /\ items[i].tool = call.tool /\ items[i].out = out
    BY <2>2, LenProperties DEF Matching, Key
  <2>3. ASSUME NEW key \in done
        PROVE  key \in Phases \X Nat \X Nat /\ <<EvidenceOf(key).tool, EvidenceOf(key).out>> \in q
    <3>1. PICK i \in DOMAIN Phase[p].completion :
              /\ key = <<p, 0, i>> /\ i \in Nat
              /\ Phase[p].completion[i].tool = call.tool /\ Phase[p].completion[i].out = out
      BY <1>3, <2>2, <2>3, PhaseShape
    <3>2. EvidenceOf(key) = Phase[p].completion[i]
      BY <3>1 DEF EvidenceOf
    <3>3. QED
      BY <1>3, <3>1, <3>2
  <2>4. ASSUME NEW n \in DOMAIN Phase[p].edges, NEW key \in edge(n)
        PROVE  key \in Phases \X Nat \X Nat /\ <<EvidenceOf(key).tool, EvidenceOf(key).out>> \in q
    <3>n. n \in Nat /\ n # 0 /\ Phase[p].edges[n].evidence \in Seq(Evidence)
      BY <1>3, PhaseShape
    <3>1. PICK i \in DOMAIN Phase[p].edges[n].evidence :
              /\ key = <<p, n, i>> /\ i \in Nat
              /\ Phase[p].edges[n].evidence[i].tool = call.tool
              /\ Phase[p].edges[n].evidence[i].out = out
      BY <2>2, <2>4, <3>n
    <3>2. EvidenceOf(key) = Phase[p].edges[n].evidence[i]
      BY <3>n, <3>1 DEF EvidenceOf
    <3>3. QED
      BY <1>3, <3>n, <3>1, <3>2
  <2> HIDE DEF done, edge
  <2>5. \A key \in Recorded(t, call, out) :
          key \in Phases \X Nat \X Nat /\ <<EvidenceOf(key).tool, EvidenceOf(key).out>> \in q
    BY <1>1, <2>1, <2>3, <2>4
  <2>6. QED
    BY <2>5
<1>4. QED
  BY <1>2, <1>3

Executed(t, call, out) ==
    [t EXCEPT !.art = Captured(t, call, out), !.seen = Seen(t, call, out),
              !.ev = Recorded(t, call, out)]

\* settle_pending with a result: the outputs r become q.
LEMMA ExecutedFact ==
    ASSUME NEW t \in Sessions, NEW r, NEW q, r \subseteq q, Good(t, r), t.pending # <<>>,
           NEW call \in Requests, NEW out \in Outputs, <<call.tool, out>> \in q
    PROVE  LET u == Executed(t, call, out)
           IN  u \in Sessions /\ Good(u, q) /\ u.pending # <<>> /\ u.invalid = t.invalid
<1> DEFINE art == Captured(t, call, out)
           seen == Seen(t, call, out)
           ev == Recorded(t, call, out)
<1>1. /\ art \in [Labels -> Artifacts] /\ seen \in Seq(Tools \X (Outputs \cup {None}) \X Outputs)
      /\ ev \in SUBSET (Phases \X Nat \X Nat)
      /\ \A k \in Labels : art[k] # None => <<Checks[k].tool, art[k].value>> \in q
      /\ \A key \in ev : <<EvidenceOf(key).tool, EvidenceOf(key).out>> \in q
  <2>1. ArtifactsEarned(t, r) /\ EvidenceEarned(t, r)
    BY DEF Good
  <2>2. seen \in Seq(Observed)
    BY SeenFact
  <2>3. QED
    BY <2>1, <2>2, CapturedFact, RecordedFact DEF Observed
<1> HIDE DEF art, seen, ev
<1> DEFINE u == [t EXCEPT !.art = art, !.seen = seen, !.ev = ev]
           b == [t EXCEPT !.art = art]
           c == [b EXCEPT !.seen = seen]
           d == [c EXCEPT !.ev = ev]
<1>2. /\ u.pending = t.pending /\ u.pendingPhase = t.pendingPhase /\ u.phase = t.phase
      /\ u.status = t.status /\ u.invalid = t.invalid /\ u.art = art /\ u.ev = ev
  BY DEF Sessions
<1>3. u = d
  OBVIOUS
<1>4. b \in Sessions
  BY <1>1, Put
<1> HIDE DEF u, b
<1>5. c \in Sessions
  BY <1>1, <1>4, Put
<1> HIDE DEF c
<1>6. d \in Sessions
  BY <1>1, <1>5, Put
<1> HIDE DEF d
<1>7. t.status # "complete"
  BY DEF Good, AnswerEarned
<1>8. InPhase(u)
  BY <1>2 DEF Good, InPhase, ActivePhase
<1>9. Good(u, q)
  BY <1>1, <1>2, <1>7, <1>8 DEF Good, EvidenceEarned, ArtifactsEarned, AnswerEarned, BelowLimit
<1>10. QED
  BY <1>2, <1>3, <1>6, <1>9 DEF u, art, seen, ev, Executed

\* advance: an edge is taken when no call is pending.
LEMMA AdvancedFact ==
    ASSUME NEW t \in Sessions, NEW r, Good(t, r), t.pending = <<>>, t.status = "active"
    PROVE  /\ Advanced(t) \in Sessions /\ Good(Advanced(t), r)
           /\ Advanced(t).pending = <<>> /\ Advanced(t).invalid = t.invalid
           /\ Advanced(t).status = "active"
<1> DEFINE Same(v) == /\ v \in Sessions /\ v.pending = t.pending /\ v.invalid = t.invalid
                      /\ v.status = t.status /\ v.ev = t.ev /\ v.art = t.art
<1>1. ASSUME NEW v, Same(v)
      PROVE  Good(v, r)
  BY <1>1 DEF Good, InPhase, EvidenceEarned, ArtifactsEarned, AnswerEarned, BelowLimit
<1>2. Same(Advanced(t))
  <2>1. CASE ~HasWorkflow
    BY <2>1 DEF Advanced
  <2>2. CASE HasWorkflow
    <3> DEFINE u == IF t.phase = "unset" THEN [t EXCEPT !.phase = Entry] ELSE t
    <3>1. Entry \in Phases
      BY <2>2, ConfigAssumption DEF ValidWorkflow, HasWorkflow
    <3>2. Same(u) /\ u.phase \in Phases \cup {None}
      <4>1. CASE t.phase = "unset"
        <5> DEFINE v == [t EXCEPT !.phase = Entry]
        <5>1. v \in Sessions
          BY <3>1, Put
        <5>2. /\ v.pending = t.pending /\ v.invalid = t.invalid /\ v.phase = Entry
              /\ v.status = t.status /\ v.ev = t.ev /\ v.art = t.art
          BY DEF Sessions
        <5>3. u = v
          BY <4>1
        <5> HIDE DEF v, u
        <5>4. QED
          BY <3>1, <5>1, <5>2, <5>3
      <4>2. CASE t.phase # "unset"
        BY <4>2 DEF Sessions
      <4>3. QED
        BY <4>1, <4>2
    <3> DEFINE open == IF u.phase = None THEN {} ELSE OpenEdges(u, u.phase)
    <3>3. Advanced(t) = IF open = {} THEN u
                        ELSE LET n == CHOOSE m \in open : \A o \in open : m <= o
                                 to == Phase[u.phase].edges[n].to
                             IN [u EXCEPT !.done = @ \cup {u.phase},
                                          !.phase = IF to = "complete" THEN None ELSE to]
      BY <2>2 DEF Advanced
    <3> HIDE DEF u
    <3>4. open # {} => u.phase \in Phases
      BY <3>2
    <3>o. open # {} => open = OpenEdges(u, u.phase)
      OBVIOUS
    <3> HIDE DEF open
    <3>5. CASE open = {}
      BY <3>2, <3>3, <3>5
    <3>6. CASE open # {}
      <4> DEFINE n == CHOOSE m \in open : \A o \in open : m <= o
                 to == Phase[u.phase].edges[n].to
                 p == IF to = "complete" THEN None ELSE to
                 d == u.done \cup {u.phase}
      <4>1. open \subseteq DOMAIN Phase[u.phase].edges
        BY <3>o, <3>6 DEF OpenEdges
      <4>2. open \subseteq Nat
        BY <3>4, <3>6, <4>1, PhaseShape
      <4>3. n \in open
        BY <3>6, <4>2, LeastExists
      <4> HIDE DEF n
      <4>4. to \in Phases \cup {"complete"}
        BY <3>4, <3>6, <4>1, <4>3, PhaseShape
      <4>5. p \in Phases \cup {None, "unset"}
        BY <4>4
      <4>6. d \in SUBSET Phases
        BY <3>2, <3>4, <3>6 DEF Sessions
      <4>7. Advanced(t) = [u EXCEPT !.done = d, !.phase = p]
        BY <3>3, <3>6 DEF n
      <4> HIDE DEF to, p, d
      <4> DEFINE w == [u EXCEPT !.done = d, !.phase = p]
                 a == [u EXCEPT !.done = d]
                 b == [a EXCEPT !.phase = p]
      <4>8. /\ w.pending = u.pending /\ w.invalid = u.invalid
            /\ w.status = u.status /\ w.ev = u.ev /\ w.art = u.art
        BY <3>2 DEF Sessions
      <4>9. w = b
        OBVIOUS
      <4>10. a \in Sessions
        BY <3>2, <4>6, Put
      <4> HIDE DEF w, a
      <4>11. b \in Sessions
        BY <4>5, <4>10, Put
      <4> HIDE DEF b
      <4>12. Advanced(t) = w
        BY <4>7 DEF w
      <4>13. QED
        BY <3>2, <4>8, <4>9, <4>11, <4>12
    <3>7. QED
      BY <3>5, <3>6
  <2>3. QED
    BY <2>1, <2>2
<1> HIDE DEF Same
<1>3. Good(Advanced(t), r)
  BY <1>1, <1>2
<1>4. QED
  BY <1>2, <1>3 DEF Same

----------------------------------------------------------------------------
(* Every step keeps the invariant. *)

LEMMA StartRunStep ==
    ASSUME IInv, StartRun PROVE IInv'
<1> USE DEF StartRun
<1> DEFINE u == IF db.run = "running" THEN [db EXCEPT !.run = "interrupted"] ELSE db
<1>1. s' = u /\ db' = u
  BY DEF Checkpoint
<1>2. u \in Sessions /\ Good(u, ran) /\ u.status = "active" /\ u.invalid = db.invalid
  <2>1. db \in Sessions /\ Good(db, ran) /\ "interrupted" \in Runs
    BY DEF IInv, TypeOK, Runs
  <2>2. LET v == [db EXCEPT !.run = "interrupted"]
        IN v \in Sessions /\ Good(v, ran) /\ v.status = db.status /\ v.invalid = db.invalid
    BY <2>1, LocalFact
  <2>3. QED
    BY <2>1, <2>2
<1> HIDE DEF u
<1>3. TypeOK'
  BY <1>1, <1>2 DEF IInv, TypeOK
<1>4. PcInv'
  BY DEF PcInv
<1>5. CountInv'
  BY <1>1, <1>2 DEF IInv, PcInv, CountInv
<1>6. Good(s, ran)' /\ Good(db, ran)'
  BY <1>1, <1>2
<1>7. QED
  BY <1>3, <1>4, <1>5, <1>6 DEF IInv

LEMMA ResumeStep ==
    ASSUME IInv, Resume PROVE IInv'
<1> USE DEF Resume
<1> DEFINE x == IF db.run = "running" THEN "interrupted" ELSE db.run
           u == [db EXCEPT !.run = x, !.status = "active", !.answer = None, !.invalid = 0, !.idle = 0]
<1>1. s' = u /\ db' = u
  BY DEF Checkpoint
<1>2. u \in Sessions /\ Good(u, ran) /\ u.invalid = 0
  <2>1. db \in Sessions /\ Good(db, ran) /\ x \in Runs
    BY DEF IInv, TypeOK, Runs, Sessions
  <2> HIDE DEF x
  <2>2. QED
    BY <2>1, ResumeFact
<1> HIDE DEF u, x
<1>3. TypeOK'
  BY <1>1, <1>2 DEF IInv, TypeOK, NoneRefused
<1>4. PcInv'
  BY DEF PcInv
<1>5. CountInv'
  BY <1>1, <1>2 DEF CountInv
<1>6. Good(s, ran)' /\ Good(db, ran)'
  BY <1>1, <1>2
<1>7. QED
  BY <1>3, <1>4, <1>5, <1>6 DEF IInv

LEMMA BeginStep ==
    ASSUME IInv, Begin PROVE IInv'
<1> USE DEF Begin
<1> DEFINE u == [s EXCEPT !.run = "running"]
<1>1. s' = u /\ db' = u
  BY DEF Checkpoint
<1>2. /\ u \in Sessions /\ Good(u, ran) /\ u.pending = s.pending /\ u.invalid = s.invalid
  <2>1. s \in Sessions /\ Good(s, ran) /\ "running" \in Runs
    BY DEF IInv, TypeOK, Runs
  <2>2. QED
    BY <2>1, LocalFact
<1> HIDE DEF u
<1>l. limit' \in Nat
  <2>1. s.step \in Nat /\ Requested \subseteq Nat /\ RunMaxSteps \in Nat /\ DefaultSteps \in Nat
    BY ConfigAssumption DEF IInv, TypeOK, Sessions, ValidLimits
  <2>2. \A q \in Requested : Allowance(q) \in Nat
    BY <2>1 DEF Allowance
  <2>3. QED
    BY <2>1, <2>2
<1>3. TypeOK'
  BY <1>1, <1>2, <1>l DEF IInv, TypeOK
<1>4. PcInv'
  BY <1>1, <1>2 DEF PcInv
<1>5. CountInv'
  <2>1. crashes' = 0 => s'.invalid = 0 /\ refused' = NoneRefused
    BY <1>1, <1>2 DEF IInv, CountInv
  <2>2. ~rejected' /\ NoneRefused.count = 0 /\ NoneRefused.batch = FALSE
    BY DEF NoneRefused
  <2>3. pc' \in {"settle", "loop"}
    OBVIOUS
  <2>4. QED
    BY <2>1, <2>2, <2>3 DEF CountInv
<1>6. Good(s, ran)' /\ Good(db, ran)'
  BY <1>1, <1>2
<1>7. QED
  BY <1>3, <1>4, <1>5, <1>6 DEF IInv

LEMMA AdvanceStep ==
    ASSUME IInv, Advance PROVE IInv'
<1> USE DEF Advance
<1> DEFINE u == Advanced(s)
<1>1. s' = u /\ db' \in {u, db}
  BY DEF Checkpoint, Memory
<1>2. /\ u \in Sessions /\ Good(u, ran) /\ u.pending = <<>> /\ u.invalid = s.invalid
      /\ u.status = "active"
  <2>1. s \in Sessions /\ Good(s, ran) /\ s.pending = <<>> /\ s.status = "active"
    BY DEF IInv, TypeOK, PcInv
  <2>2. QED
    BY <2>1, AdvancedFact
<1> HIDE DEF u
<1>3. TypeOK'
  BY <1>1, <1>2 DEF IInv, TypeOK
<1>4. PcInv'
  BY <1>1, <1>2 DEF PcInv
<1>5. CountInv'
  BY <1>1, <1>2 DEF IInv, CountInv
<1>6. Good(s, ran)' /\ Good(db, ran)'
  BY <1>1, <1>2 DEF IInv
<1>7. QED
  BY <1>3, <1>4, <1>5, <1>6 DEF IInv

LEMMA CompactStep ==
    ASSUME IInv, Compact PROVE IInv'
<1> USE DEF Compact
<1> DEFINE u == Failed(s)
<1>1. s' = db' /\ ((s' = s /\ pc' = "decide") \/ (s' = u /\ pc' = "loop"))
  BY DEF Checkpoint
<1>2. /\ u \in Sessions /\ Good(u, ran) /\ u.pending = s.pending /\ u.invalid = s.invalid
      /\ s \in Sessions /\ Good(s, ran) /\ s.pending = <<>> /\ s.status = "active"
  <2>1. s \in Sessions /\ Good(s, ran) /\ s.pending = <<>> /\ s.status = "active"
    BY DEF IInv, TypeOK, PcInv
  <2>2. QED
    BY <2>1, FailedFact
<1> HIDE DEF u
<1>3. TypeOK'
  BY <1>1, <1>2 DEF IInv, TypeOK
<1>4. PcInv'
  BY <1>1, <1>2 DEF PcInv
<1>5. CountInv'
  BY <1>1, <1>2 DEF IInv, CountInv
<1>6. Good(s, ran)' /\ Good(db, ran)'
  BY <1>1, <1>2 DEF IInv
<1>7. QED
  BY <1>3, <1>4, <1>5, <1>6 DEF IInv

LEMMA DecideInvalidStep ==
    ASSUME IInv, DecideInvalid PROVE IInv'
<1> USE DEF DecideInvalid
<1> DEFINE z == Stepped(s)
           u == CountInvalid(z)
<1>1. s' = u /\ db' = u
  BY DEF Checkpoint
<1>2. u \in Sessions /\ Good(u, ran) /\ u.pending = <<>> /\ u.invalid = s.invalid + 1
  <2>1. s \in Sessions /\ Good(s, ran) /\ s.pending = <<>>
    BY DEF IInv, TypeOK, PcInv
  <2>2. z \in Sessions /\ Good(z, ran) /\ z.pending = <<>> /\ z.invalid = s.invalid
    BY <2>1, SteppedFact
  <2> HIDE DEF z
  <2>3. QED
    BY <2>2, CountFact
<1> HIDE DEF u, z
<1>r. refused' \in [count : Nat, batch : BOOLEAN] /\ refused'.count = refused.count + 1
  BY DEF IInv, TypeOK
<1>3. TypeOK'
  BY <1>1, <1>2, <1>r DEF IInv, TypeOK
<1>4. PcInv'
  BY <1>1, <1>2 DEF PcInv
<1>5. CountInv'
  BY <1>1, <1>2, <1>r DEF IInv, CountInv
<1>6. Good(s, ran)' /\ Good(db, ran)'
  BY <1>1, <1>2
<1>7. QED
  BY <1>3, <1>4, <1>5, <1>6 DEF IInv

LEMMA DecideRefusedFinalStep ==
    ASSUME IInv, DecideRefusedFinal PROVE IInv'
<1> USE DEF DecideRefusedFinal
<1> DEFINE u == Stepped(s)
<1>1. s' = u /\ db' = u
  BY DEF Checkpoint
<1>2. u \in Sessions /\ Good(u, ran) /\ u.pending = <<>> /\ u.invalid = s.invalid
  <2>1. s \in Sessions /\ Good(s, ran) /\ s.pending = <<>>
    BY DEF IInv, TypeOK, PcInv
  <2>2. QED
    BY <2>1, SteppedFact
<1> HIDE DEF u
<1>r. refused' \in [count : Nat, batch : BOOLEAN] /\ refused'.count = refused.count + 1
  BY DEF IInv, TypeOK
<1>3. TypeOK'
  BY <1>1, <1>2, <1>r DEF IInv, TypeOK
<1>4. PcInv'
  BY <1>1, <1>2 DEF PcInv
<1>5. CountInv'
  BY <1>1, <1>2, <1>r DEF IInv, CountInv
<1>6. Good(s, ran)' /\ Good(db, ran)'
  BY <1>1, <1>2
<1>7. QED
  BY <1>3, <1>4, <1>5, <1>6 DEF IInv

LEMMA CountRefusedFinalStep ==
    ASSUME IInv, CountRefusedFinal PROVE IInv'
<1> USE DEF CountRefusedFinal
<1> DEFINE u == CountInvalid(s)
<1>1. s' = u /\ db' \in {u, db}
  BY DEF Checkpoint, Memory
<1>2. u \in Sessions /\ Good(u, ran) /\ u.pending = <<>> /\ u.invalid = s.invalid + 1
  <2>1. s \in Sessions /\ Good(s, ran) /\ s.pending = <<>>
    BY DEF IInv, TypeOK, PcInv
  <2>2. QED
    BY <2>1, CountFact
<1> HIDE DEF u
<1>3. TypeOK'
  BY <1>1, <1>2 DEF IInv, TypeOK
<1>4. PcInv'
  BY <1>1, <1>2 DEF PcInv
<1>5. CountInv'
  BY <1>1, <1>2 DEF IInv, CountInv
<1>6. Good(s, ran)' /\ Good(db, ran)'
  BY <1>1, <1>2 DEF IInv
<1>7. QED
  BY <1>3, <1>4, <1>5, <1>6 DEF IInv

LEMMA DecideFinalStep ==
    ASSUME IInv, DecideFinal PROVE IInv'
<1> USE DEF DecideFinal
<1>a. PICK a \in Answers :
        /\ AnswerAccepted(s, a)
        /\ Checkpoint([Stepped(s) EXCEPT !.status = "complete", !.run = "complete",
                                         !.answer = a.says, !.invalid = 0, !.idle = 0])
  OBVIOUS
<1> DEFINE u == [Stepped(s) EXCEPT !.status = "complete", !.run = "complete",
                                   !.answer = a.says, !.invalid = 0, !.idle = 0]
<1>1. s' = u /\ db' = u
  BY <1>a DEF Checkpoint
<1>2. u \in Sessions /\ Good(u, ran) /\ u.pending = <<>> /\ u.invalid = 0
  <2>1. s \in Sessions /\ Good(s, ran) /\ s.pending = <<>>
    BY DEF IInv, TypeOK, PcInv
  <2>2. QED
    BY <1>a, <2>1, FinalFact
<1> HIDE DEF u
<1>3. TypeOK'
  BY <1>1, <1>2 DEF IInv, TypeOK, NoneRefused
<1>4. PcInv'
  BY <1>1, <1>2 DEF PcInv
<1>5. CountInv'
  BY <1>1, <1>2 DEF CountInv, NoneRefused
<1>6. Good(s, ran)' /\ Good(db, ran)'
  BY <1>1, <1>2
<1>7. QED
  BY <1>3, <1>4, <1>5, <1>6 DEF IInv

LEMMA DecideToolsStep ==
    ASSUME IInv, DecideTools PROVE IInv'
<1> USE DEF DecideTools
<1>a. PICK calls \in Batches :
        Checkpoint([Stepped(s) EXCEPT !.pending = calls, !.pendingPhase = ActivePhase(s)])
  OBVIOUS
<1> DEFINE u == [Stepped(s) EXCEPT !.pending = calls, !.pendingPhase = ActivePhase(s)]
<1>1. s' = u /\ db' = u
  BY <1>a DEF Checkpoint
<1>2. u \in Sessions /\ Good(u, ran) /\ u.invalid = s.invalid
  <2>1. s \in Sessions /\ Good(s, ran) /\ s.status = "active"
    BY DEF IInv, TypeOK, PcInv
  <2>2. calls \in Seq(Requests)
    <3>1. MaxBatch \in Nat
      BY ConfigAssumption
    <3>2. PICK n \in 1..MaxBatch : calls \in [1..n -> Requests]
      BY DEF Batches
    <3>3. n \in Nat
      BY <3>1
    <3>4. QED
      BY <3>2, <3>3, IsASeq
  <2>3. QED
    BY <2>1, <2>2, ToolsFact
<1> HIDE DEF u
<1>r. /\ refused' \in [count : Nat, batch : BOOLEAN] /\ refused'.count = refused.count
      /\ refused'.batch = FALSE
  BY DEF IInv, TypeOK
<1>3. TypeOK'
  BY <1>1, <1>2, <1>r DEF IInv, TypeOK
<1>4. PcInv'
  BY DEF PcInv
<1>5. CountInv'
  BY <1>1, <1>2, <1>r DEF IInv, TypeOK, CountInv
<1>6. Good(s, ran)' /\ Good(db, ran)'
  BY <1>1, <1>2
<1>7. QED
  BY <1>3, <1>4, <1>5, <1>6 DEF IInv

LEMMA SettleRejectedStep ==
    ASSUME IInv, SettleRejected PROVE IInv'
<1> USE DEF SettleRejected
<1> DEFINE u == CallDone(s)
<1>1. s' = u /\ db' = u
  BY DEF Checkpoint
<1>2. u \in Sessions /\ Good(u, ran) /\ u.invalid = s.invalid
  BY CallDoneFact DEF IInv, TypeOK
<1> HIDE DEF u
<1> DEFINE n == refused.count + (IF refused.batch THEN 0 ELSE 1)
<1>n. n \in Nat
  BY DEF IInv, TypeOK
<1>r. refused' = [count |-> n, batch |-> TRUE]
  OBVIOUS
<1>c. crashes = 0 => s.invalid + 1 = n
  <2>1. crashes = 0 => s.invalid + (IF refused.batch THEN 1 ELSE 0) = refused.count
    BY DEF IInv, CountInv
  <2>2. s.invalid \in Nat /\ refused.count \in Nat
    BY DEF IInv, TypeOK, Sessions
  <2>3. QED
    BY <2>1, <2>2
<1> HIDE DEF n
<1>3. TypeOK'
  BY <1>1, <1>2, <1>n, <1>r DEF IInv, TypeOK
<1>4. PcInv'
  BY DEF PcInv
<1>5. CountInv'
  BY <1>1, <1>2, <1>c, <1>r DEF CountInv
<1>6. Good(s, ran)' /\ Good(db, ran)'
  BY <1>1, <1>2
<1>7. QED
  BY <1>3, <1>4, <1>5, <1>6 DEF IInv

LEMMA SettleExecutedStep ==
    ASSUME IInv, NEW out \in Outputs, SettleExecuted(out) PROVE IInv'
<1> USE DEF SettleExecuted
<1> DEFINE call == Head(s.pending)
           z == Executed(s, call, out)
           u == CallDone(z)
<1>1. s' = u /\ db' = u
  BY DEF Checkpoint, Executed
<1>r. ran' = ran \cup {<<call.tool, out>>}
  OBVIOUS
<1>h. call \in Requests
  BY HeadTailProperties DEF IInv, TypeOK, Sessions
<1>t. <<call.tool, out>> \in Tools \X Outputs
  BY <1>h, CallType
<1>g. pc = "settle" /\ UNCHANGED <<pc, limit, before, rejected, crashes, refused, stale>>
  OBVIOUS
<1> HIDE DEF call
<1>2. u \in Sessions /\ Good(u, ran') /\ u.invalid = s.invalid
  <2>1. s \in Sessions /\ Good(s, ran) /\ s.pending # <<>> /\ ran \subseteq ran'
        /\ <<call.tool, out>> \in ran'
    BY <1>r DEF IInv, TypeOK
  <2>2. z \in Sessions /\ Good(z, ran') /\ z.pending # <<>> /\ z.invalid = s.invalid
    BY <1>h, <2>1, ExecutedFact
  <2> HIDE DEF z
  <2>3. QED
    BY <2>2, CallDoneFact
<1> HIDE DEF u, z
<1> USE DEF IInv
<1>3. TypeOK'
  BY <1>1, <1>2, <1>r, <1>t, <1>g DEF TypeOK
<1>4. PcInv'
  BY <1>g DEF PcInv
<1>5. CountInv'
  BY <1>1, <1>2, <1>g DEF CountInv
<1>6. Good(s, ran)' /\ Good(db, ran)'
  BY <1>1, <1>2
<1>7. QED
  BY <1>3, <1>4, <1>5, <1>6

LEMMA SettleBlockedStep ==
    ASSUME IInv, SettleBlocked PROVE IInv'
<1> USE DEF SettleBlocked
<1> DEFINE u == [s EXCEPT !.status = "failed", !.run = "blocked"]
<1>1. s' = u /\ db' = u
  BY DEF Checkpoint
<1>2. u \in Sessions /\ Good(u, ran) /\ u.status = "failed"
  <2>1. s \in Sessions /\ Good(s, ran) /\ "blocked" \in Runs /\ None \in [Labels -> Outputs] \cup {None}
    BY DEF IInv, TypeOK, Runs
  <2>2. QED
    BY <2>1, StoppedFact
<1> HIDE DEF u
<1>3. TypeOK'
  BY <1>1, <1>2 DEF IInv, TypeOK
<1>4. PcInv'
  BY <1>1 DEF PcInv
<1>5. CountInv'
  BY <1>1, <1>2 DEF CountInv
<1>6. Good(s, ran)' /\ Good(db, ran)'
  BY <1>1, <1>2
<1>7. QED
  BY <1>3, <1>4, <1>5, <1>6 DEF IInv

LEMMA SettleEndStep ==
    ASSUME IInv, SettleEnd PROVE IInv'
<1> USE DEF SettleEnd
<1> DEFINE u == CountInvalid(s)
           v == [s EXCEPT !.invalid = 0]
<1>1. /\ rejected => s' = u /\ db' = u
      /\ ~rejected => s' = v /\ db' = db
  BY DEF Checkpoint, Memory
<1>2. /\ u \in Sessions /\ Good(u, ran) /\ u.pending = <<>> /\ u.invalid = s.invalid + 1
      /\ v \in Sessions /\ Good(v, ran) /\ v.pending = <<>> /\ v.invalid = 0
  <2>1. s \in Sessions /\ Good(s, ran) /\ s.pending = <<>>
    BY DEF IInv, TypeOK
  <2>2. QED
    BY <2>1, CountFact, LocalFact
<1> HIDE DEF u, v
<1>r. refused' \in [count : Nat, batch : BOOLEAN]
  BY DEF IInv, TypeOK, NoneRefused
<1>s. s' \in Sessions /\ db' \in Sessions
  BY <1>1, <1>2 DEF IInv, TypeOK
<1>3. TypeOK'
  BY <1>r, <1>s DEF IInv, TypeOK
<1>4. PcInv'
  BY <1>1, <1>2 DEF PcInv
<1>5. CountInv'
  <2> SUFFICES ASSUME crashes = 0 PROVE s'.invalid = refused'.count
    BY DEF CountInv
  <2>1. /\ rejected <=> refused.batch
        /\ s.invalid + (IF refused.batch THEN 1 ELSE 0) = refused.count
    BY DEF IInv, CountInv
  <2>2. CASE rejected
    BY <1>1, <1>2, <2>1, <2>2
  <2>3. CASE ~rejected
    BY <1>1, <1>2, <2>1, <2>3 DEF NoneRefused
  <2>4. QED
    BY <2>2, <2>3
<1>6. Good(s, ran)' /\ Good(db, ran)'
  BY <1>1, <1>2 DEF IInv
<1>7. QED
  BY <1>3, <1>4, <1>5, <1>6 DEF IInv

LEMMA ObserveStep ==
    ASSUME IInv, Observe PROVE IInv'
<1> USE DEF Observe
<1> DEFINE idle == IF Fingerprint(s) # before THEN 0 ELSE s.idle + 1
           t == [s EXCEPT !.idle = idle]
           u == Failed(t)
<1>1. s' \in {t, u} /\ db' \in {t, u, db}
  BY DEF Checkpoint, Memory
<1>2. /\ t \in Sessions /\ Good(t, ran) /\ t.pending = <<>> /\ t.invalid = s.invalid
      /\ u \in Sessions /\ Good(u, ran) /\ u.pending = <<>> /\ u.invalid = s.invalid
  <2>1. s \in Sessions /\ Good(s, ran) /\ s.pending = <<>>
    BY DEF IInv, TypeOK, PcInv
  <2>2. idle \in Nat
    BY <2>1 DEF Sessions
  <2> HIDE DEF idle
  <2>3. t \in Sessions /\ Good(t, ran) /\ t.pending = <<>> /\ t.invalid = s.invalid
    BY <2>1, <2>2, LocalFact
  <2> HIDE DEF t
  <2>4. QED
    BY <2>3, FailedFact
<1> HIDE DEF t, u, idle
<1>s. stale' \in Nat /\ s' \in Sessions /\ db' \in Sessions
  BY <1>1, <1>2 DEF IInv, TypeOK
<1>3. TypeOK'
  BY <1>s DEF IInv, TypeOK
<1>4. PcInv'
  BY <1>1, <1>2 DEF PcInv
<1>5. CountInv'
  BY <1>1, <1>2 DEF IInv, CountInv
<1>6. Good(s, ran)' /\ Good(db, ran)'
  BY <1>1, <1>2 DEF IInv
<1>7. QED
  BY <1>3, <1>4, <1>5, <1>6 DEF IInv

LEMMA FinishStep ==
    ASSUME IInv, Finish PROVE IInv'
<1> USE DEF Finish
<1> DEFINE u == Failed(s)
<1>1. s' = db' /\ s' = IF s.status = "active" THEN u ELSE s
  BY DEF Checkpoint
<1>2. /\ u \in Sessions /\ Good(u, ran) /\ u.status = "failed"
      /\ s \in Sessions /\ Good(s, ran)
  BY FailedFact DEF IInv, TypeOK
<1> HIDE DEF u
<1>3. TypeOK'
  BY <1>1, <1>2 DEF IInv, TypeOK
<1>4. PcInv'
  BY <1>1 DEF PcInv
<1>5. CountInv'
  BY <1>1, <1>2 DEF CountInv
<1>6. Good(s, ran)' /\ Good(db, ran)'
  BY <1>1, <1>2
<1>7. QED
  BY <1>3, <1>4, <1>5, <1>6 DEF IInv

LEMMA CancelledStep ==
    ASSUME IInv, Cancelled PROVE IInv'
<1> USE DEF Cancelled
<1> DEFINE u == [s EXCEPT !.status = "failed", !.run = "cancelled", !.answer = None]
<1>1. s' = u /\ db' = u
  BY DEF Checkpoint
<1>2. u \in Sessions /\ Good(u, ran) /\ u.status = "failed"
  <2>1. s \in Sessions /\ Good(s, ran) /\ "cancelled" \in Runs /\ None \in [Labels -> Outputs] \cup {None}
    BY DEF IInv, TypeOK, Runs
  <2>2. QED
    BY <2>1, StoppedFact
<1> HIDE DEF u
<1>3. TypeOK'
  BY <1>1, <1>2 DEF IInv, TypeOK
<1>4. PcInv'
  BY <1>1 DEF PcInv
<1>5. CountInv'
  BY <1>1, <1>2 DEF CountInv
<1>6. Good(s, ran)' /\ Good(db, ran)'
  BY <1>1, <1>2
<1>7. QED
  BY <1>3, <1>4, <1>5, <1>6 DEF IInv

LEMMA EngineFailsStep ==
    ASSUME IInv, EngineFails PROVE IInv'
<1> USE DEF EngineFails
<1> DEFINE u == [s EXCEPT !.status = "failed", !.run = "failed", !.answer = None]
<1>1. s' = u /\ db' = u
  BY DEF Checkpoint
<1>2. u \in Sessions /\ Good(u, ran) /\ u.status = "failed"
  <2>1. s \in Sessions /\ Good(s, ran) /\ "failed" \in Runs /\ None \in [Labels -> Outputs] \cup {None}
    BY DEF IInv, TypeOK, Runs
  <2>2. QED
    BY <2>1, StoppedFact
<1> HIDE DEF u
<1>3. TypeOK'
  BY <1>1, <1>2 DEF IInv, TypeOK
<1>4. PcInv'
  BY <1>1 DEF PcInv
<1>5. CountInv'
  BY <1>1, <1>2 DEF CountInv
<1>6. Good(s, ran)' /\ Good(db, ran)'
  BY <1>1, <1>2
<1>7. QED
  BY <1>3, <1>4, <1>5, <1>6 DEF IInv

\* A crash leaves the committed session, which is as good as the engine's.
LEMMA CrashStep ==
    ASSUME IInv, Crash PROVE IInv'
<1> USE DEF Crash
<1>0. crashes \in 0..MaxCrashes /\ MaxCrashes \in Nat
  BY ConfigAssumption DEF IInv, TypeOK
<1>1. crashes' \in 0..MaxCrashes /\ crashes' # 0
  BY <1>0
<1>2. TypeOK'
  BY <1>1 DEF IInv, TypeOK
<1>3. PcInv'
  BY DEF PcInv
<1>4. CountInv'
  BY <1>1 DEF CountInv
<1>5. Good(s, ran)' /\ Good(db, ran)'
  BY DEF IInv
<1>6. QED
  BY <1>2, <1>3, <1>4, <1>5 DEF IInv

LEMMA InitIInv == Init => IInv
<1> SUFFICES ASSUME Init PROVE IInv
  OBVIOUS
<1> DEFINE n == NoSession
<1>1. s = n /\ db = n /\ ran = {} /\ pc = "idle" /\ refused = NoneRefused /\ crashes = 0
      /\ limit = 0 /\ rejected = FALSE /\ stale = 0
  BY DEF Init
<1>2. /\ n.status = "active" /\ n.pending = <<>> /\ n.ev = {} /\ n.invalid = 0
      /\ \A k \in Labels : n.art[k] = None
  BY DEF NoSession
<1>3. n \in Sessions
  <2>1. [k \in Labels |-> None] \in [Labels -> Artifacts]
    BY DEF Artifacts
  <2>2. <<>> \in Seq(Requests) /\ <<>> \in Seq(Tools \X (Outputs \cup {None}) \X Outputs)
    OBVIOUS
  <2> DEFINE a == [k \in Labels |-> None]
  <2>3. n = [status |-> "active", run |-> "idle", step |-> 0,
             phase |-> "unset", done |-> {}, ev |-> {}, art |-> a,
             invalid |-> 0, idle |-> 0, seen |-> <<>>,
             pending |-> <<>>, pendingPhase |-> None, answer |-> None]
    BY DEF NoSession
  <2> HIDE DEF a, n
  <2>4. QED
    BY <2>1, <2>2, <2>3 DEF Sessions, a
<1> HIDE DEF n
<1>4. 0 < MaxInvalid /\ MaxCrashes \in Nat
  BY ConfigAssumption DEF ValidLimits
<1>5. Good(n, {})
  BY <1>2, <1>4 DEF Good, InPhase, EvidenceEarned, ArtifactsEarned, AnswerEarned, BelowLimit
<1>r. refused \in [count : Nat, batch : BOOLEAN]
  BY <1>1 DEF NoneRefused
<1>c. crashes \in 0..MaxCrashes
  BY <1>1, <1>4
<1>6. TypeOK
  BY <1>1, <1>3, <1>r, <1>c DEF TypeOK
<1>7. PcInv
  BY <1>1 DEF PcInv
<1>8. CountInv
  BY <1>1, <1>2 DEF CountInv
<1>9. QED
  BY <1>1, <1>5, <1>6, <1>7, <1>8 DEF IInv

LEMMA NextIInv ==
    ASSUME IInv, [Next]_vars PROVE IInv'
<1>1. CASE UNCHANGED vars
  <2>1. UNCHANGED <<s, db, pc, limit, rejected, crashes, ran, refused, stale>>
    BY <1>1 DEF vars
  <2>2. TypeOK'
    BY <2>1 DEF IInv, TypeOK
  <2>3. PcInv' /\ CountInv'
    BY <2>1 DEF IInv, PcInv, CountInv
  <2>4. Good(s, ran)' /\ Good(db, ran)'
    BY <2>1 DEF IInv
  <2>5. QED
    BY <2>2, <2>3, <2>4 DEF IInv
<1>2. CASE EngineStep
  BY <1>2, BeginStep, AdvanceStep, CompactStep, DecideInvalidStep, DecideRefusedFinalStep,
     CountRefusedFinalStep, DecideFinalStep, DecideToolsStep, SettleRejectedStep,
     SettleEndStep, ObserveStep, FinishStep
     DEF EngineStep
<1>3. CASE ToolReturns
  BY <1>3, SettleExecutedStep, SettleBlockedStep DEF ToolReturns
<1>4. CASE StartRun \/ Resume \/ Cancelled \/ EngineFails \/ Crash
  BY <1>4, StartRunStep, ResumeStep, CancelledStep, EngineFailsStep, CrashStep
<1>5. QED
  BY <1>1, <1>2, <1>3, <1>4 DEF Next

----------------------------------------------------------------------------
(* The theorems. *)

\* The invariant holds in every reachable state, whatever the engine's step
\* a crash, a cancellation or a blocked action falls on.
THEOREM Inductive == Spec => []IInv
<1>1. Init => IInv
  BY InitIInv
<1>2. IInv /\ [Next]_vars => IInv'
  BY NextIInv
<1>3. QED
  BY <1>1, <1>2, PTL DEF Spec

\* The engine's session and the one in agent_sessions always have their types.
THEOREM TypeCorrect == Spec => []TypeOK
<1>1. IInv => TypeOK
  BY DEF IInv
<1>2. QED
  BY <1>1, Inductive, PTL

\* settle_pending tests a call against the phase whose evidence record adds to.
THEOREM BatchPhase == Spec => []PhaseOfBatch
<1>1. IInv => PhaseOfBatch
  BY DEF IInv, Good, InPhase, PhaseOfBatch
<1>2. QED
  BY <1>1, Inductive, PTL

\* Evidence comes from a tool that returned the configured output, and a
\* completed session repeats what tools returned (completion_errors).
THEOREM CompletionEarned == Spec => []CompletionIsEarned
<1>1. IInv => CompletionIsEarned
  BY DEF IInv, Good, EvidenceEarned, AnswerEarned, CompletionIsEarned
<1>2. QED
  BY <1>1, Inductive, PTL

\* The model is never asked with the counter of increment_invalid at its limit,
\* and as long as no process died the counter is the number of refusals.
THEOREM InvalidAgree == Spec => []InvalidAgreesUnlessCrash
<1>1. IInv => InvalidAgreesUnlessCrash
  BY DEF IInv, Good, BelowLimit, PcInv, CountInv, InvalidAgreesUnlessCrash
<1>2. QED
  BY <1>1, Inductive, PTL

\* After the terminal edge of the workflow action_rejection refuses every call.
THEOREM NoToolLate == Spec => NoToolAfterTerminal
<1>1. IInv /\ [Next]_vars => [HasWorkflow /\ s.phase = None => ran' = ran]_vars
  <2> SUFFICES ASSUME IInv, Next, HasWorkflow, s.phase = None
               PROVE  ran' = ran
    BY DEF vars
  <2>1. ASSUME NEW out \in Outputs, SettleExecuted(out) PROVE FALSE
    <3>1. None \notin Phases
      BY ConfigAssumption
    <3>2. s.pendingPhase = None
      BY <2>1, <3>1 DEF SettleExecuted, IInv, Good, InPhase, ActivePhase
    <3>3. ActionRejected(s, s.pendingPhase, Head(s.pending))
      BY <3>2 DEF ActionRejected
    <3>4. QED
      BY <2>1, <3>3 DEF SettleExecuted
  <2>2. CASE StartRun \/ Resume \/ Cancelled \/ EngineFails \/ Crash
    BY <2>2 DEF StartRun, Resume, Cancelled, EngineFails, Crash
  <2>3. CASE EngineStep
    BY <2>3 DEF EngineStep, Begin, Advance, Compact, DecideInvalid, DecideRefusedFinal,
       CountRefusedFinal, DecideFinal, DecideTools, SettleRejected, SettleEnd, Observe, Finish
  <2>4. CASE ToolReturns
    BY <2>1, <2>4 DEF ToolReturns, SettleBlocked
  <2>5. QED
    BY <2>2, <2>3, <2>4 DEF Next
<1>2. QED
  BY <1>1, Inductive, PTL DEF Spec, NoToolAfterTerminal

----------------------------------------------------------------------------
(* Evidence and finished phases are kept. *)

Kept(t, u) == t.ev \subseteq u.ev /\ t.done \subseteq u.done

\* Every change of a session keeps them.
LEMMA KeptFact ==
    ASSUME NEW t \in Sessions
    PROVE  /\ Kept(t, Failed(t)) /\ Kept(t, CountInvalid(t)) /\ Kept(t, Stepped(t))
           /\ Kept(t, CallDone(t)) /\ Kept(t, Advanced(t)) /\ Kept(t, CountInvalid(Stepped(t)))
           /\ \A call, out : Kept(t, CallDone(Executed(t, call, out)))
<1>1. Kept(t, Failed(t)) /\ Kept(t, CountInvalid(t)) /\ Kept(t, Stepped(t)) /\ Kept(t, CallDone(t))
  BY DEF Kept, Failed, CountInvalid, Stepped, CallDone, Sessions
<1>2. Kept(t, CountInvalid(Stepped(t)))
  BY DEF Kept, Failed, CountInvalid, Stepped, Sessions
<1>3. \A call, out : Kept(t, CallDone(Executed(t, call, out)))
  <2> TAKE call, out
  <2> DEFINE ev == Recorded(t, call, out)
             u == CallDone(Executed(t, call, out))
  <2>1. t.ev \subseteq ev
    BY DEF Recorded
  <2>2. u.ev = ev /\ u.done = t.done
    BY DEF CallDone, Executed, Sessions
  <2>3. QED
    BY <2>1, <2>2 DEF Kept
<1>4. Kept(t, Advanced(t))
  <2> DEFINE u == IF t.phase = "unset" THEN [t EXCEPT !.phase = Entry] ELSE t
             open == IF u.phase = None THEN {} ELSE OpenEdges(u, u.phase)
             to == Phase[u.phase].edges[CHOOSE m \in open : \A o \in open : m <= o].to
             p == IF to = "complete" THEN None ELSE to
  <2>1. u.ev = t.ev /\ u.done = t.done /\ DOMAIN u = DOMAIN t
    BY DEF Sessions
  <2>2. Advanced(t) \in {t, u, [u EXCEPT !.done = @ \cup {u.phase}, !.phase = p]}
    BY DEF Advanced
  <2> HIDE DEF u, p
  <2>3. LET v == [u EXCEPT !.done = @ \cup {u.phase}, !.phase = p]
        IN  v.ev = u.ev /\ v.done = u.done \cup {u.phase}
    BY <2>1 DEF Sessions
  <2>4. QED
    BY <2>1, <2>2, <2>3 DEF Kept
<1>5. QED
  BY <1>1, <1>2, <1>3, <1>4

\* A step keeps what is in the engine's session, or restarts from the committed
\* one; a checkpoint commits the engine's session.
LEMMA StepKeeps ==
    ASSUME IInv, [Next]_vars, Kept(db, s)
    PROVE  Kept(db, s)' /\ Kept(db, db')
<1> USE DEF IInv, TypeOK
<1>0. s \in Sessions /\ db \in Sessions
  OBVIOUS
<1>1. (Kept(s, s') /\ db' \in {db, s'}) \/ (Kept(db, s') /\ db' = s')
  <2>1. CASE UNCHANGED vars
    BY <2>1 DEF vars, Kept
  <2>2. CASE StartRun \/ Resume \/ Crash
    <3>1. s'.ev = db.ev /\ s'.done = db.done
      BY <1>0, <2>2 DEF StartRun, Resume, Crash, Checkpoint, Sessions
    <3>2. Kept(db, s') /\ db' = s'
      BY <2>2, <3>1 DEF Kept, StartRun, Resume, Crash, Checkpoint
    <3>3. QED
      BY <3>2
  <2>3. CASE Begin \/ Cancelled \/ EngineFails \/ SettleBlocked
    <3>1. CASE Begin \/ SettleBlocked
      <4>1. s'.ev = s.ev /\ s'.done = s.done /\ db' = s'
        BY <1>0, <3>1 DEF Begin, SettleBlocked, Checkpoint, Sessions
      <4>2. QED
        BY <4>1 DEF Kept
    <3>2. CASE Cancelled \/ EngineFails
      <4>1. s'.ev = s.ev /\ s'.done = s.done /\ db' = s'
        BY <1>0, <3>2 DEF Cancelled, EngineFails, Checkpoint, Sessions
      <4>2. QED
        BY <4>1 DEF Kept
    <3>3. QED
      BY <2>3, <3>1, <3>2
  <2>4. CASE Advance \/ CountRefusedFinal \/ SettleRejected
    BY <1>0, <2>4, KeptFact DEF Advance, CountRefusedFinal, SettleRejected, Checkpoint, Memory
  <2>5. CASE Compact \/ Finish
    BY <1>0, <2>5, KeptFact DEF Compact, Finish, Checkpoint, Kept
  <2>6. CASE DecideInvalid \/ DecideRefusedFinal
    BY <1>0, <2>6, KeptFact DEF DecideInvalid, DecideRefusedFinal, Checkpoint
  <2>7. CASE DecideFinal \/ DecideTools
    <3>1. s'.ev = s.ev /\ s'.done = s.done /\ db' = s'
      BY <1>0, <2>7 DEF DecideFinal, DecideTools, Stepped, Checkpoint, Sessions
    <3>2. QED
      BY <3>1 DEF Kept
  <2>8. CASE \E out \in Outputs : SettleExecuted(out)
    <3>1. PICK out \in Outputs : SettleExecuted(out)
      BY <2>8
    <3>2. s' = CallDone(Executed(s, Head(s.pending), out)) /\ db' = s'
      BY <3>1 DEF SettleExecuted, Executed, Checkpoint
    <3>3. Kept(s, CallDone(Executed(s, Head(s.pending), out)))
      BY <1>0, KeptFact
    <3>4. QED
      BY <3>2, <3>3
  <2>9. CASE SettleEnd
    <3>1. Kept(s, [s EXCEPT !.invalid = 0])
      BY <1>0 DEF Kept, Sessions
    <3>2. QED
      BY <1>0, <2>9, <3>1, KeptFact DEF SettleEnd, Checkpoint, Memory
  <2>10. CASE Observe
    <3> DEFINE idle == IF Fingerprint(s) # before THEN 0 ELSE s.idle + 1
               t == [s EXCEPT !.idle = idle]
    <3>1. s' \in {t, Failed(t)} /\ db' \in {s', db}
      BY <2>10 DEF Observe, Checkpoint, Memory
    <3> HIDE DEF idle
    <3>2. Kept(s, t) /\ Kept(s, Failed(t))
      BY <1>0 DEF Kept, Failed, Sessions
    <3> HIDE DEF t
    <3>3. QED
      BY <3>1, <3>2
  <2>11. QED
    BY <2>1, <2>2, <2>3, <2>4, <2>5, <2>6, <2>7, <2>8, <2>9, <2>10
    DEF Next, EngineStep, ToolReturns
<1>2. QED
  BY <1>1 DEF Kept

\* What the workflow has established in the database is never lost: every
\* checkpoint after it, of any run, keeps it (record and advance only add).
THEOREM EvidenceKept == Spec => EvidenceIsKept
<1>1. Init => Kept(db, s)
  BY DEF Init, Kept
<1>2. IInv /\ Kept(db, s) /\ [Next]_vars => Kept(db, s)'
  BY StepKeeps
<1>3. IInv /\ Kept(db, s) /\ [Next]_vars =>
        [db.ev \subseteq db'.ev /\ db.done \subseteq db'.done]_vars
  BY StepKeeps DEF Kept
<1>4. QED
  BY <1>1, <1>2, <1>3, Inductive, PTL DEF Spec, EvidenceIsKept
=============================================================================
