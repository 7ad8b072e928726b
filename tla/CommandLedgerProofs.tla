------------------------- MODULE CommandLedgerProofs -------------------------
(***************************************************************************)
(* Proofs about CommandLedger, for any requests, keys, contents, routes    *)
(* and lease length: a command's effect is committed once and from the     *)
(* admission that was frozen, a reported success is a recorded one, and    *)
(* the ledger implements IdempotentCommand.                                *)
(***************************************************************************)
EXTENDS CommandLedger, FiniteSetTheorems, TLAPS

\* A key is owned by the content that was admitted, its response is that of a
\* final status, and its effect is there exactly when the status says so.
RowOK(k) ==
    /\ row[k].status = "absent" <=> content[k] = None
    /\ row[k].status = "succeeded" <=> row[k].response = "ok"
    /\ row[k].status = "failed" <=> row[k].response = "refused"
    /\ row[k].status # "succeeded" => effects[k] = {}
    /\ row[k].status = "succeeded" =>
        \E r \in Requests : effects[k] = {<<r, row[k].admission>>}

\* What a request knows of its row: it exists, its admission is the frozen one,
\* and a success it has reported, or is going to report, is stored in it.  An
\* answer of 202 comes from a row that is blocked for good.
ReqOK(r) ==
    /\ pc[r] \in {"reread", "claim", "handling", "streaming", "settle"} =>
        Row(r).status # "absent"
    /\ pc[r] \in {"claim", "handling", "streaming", "settle"} =>
        admitted[r] = Row(r).admission
    /\ pc[r] = "settle" =>
        /\ answer[r] \in {"ok", "refused", "error", "accepted"}
        /\ answer[r] = "accepted" => Row(r).status = "blocked"
        /\ answer[r] = "ok" => Row(r).response = "ok"
    /\ reply[r] = "ok" => Row(r).response = "ok"

IInv ==
    /\ TypeOK
    /\ \A k \in Keys : RowOK(k)
    /\ \A r \in Requests : ReqOK(r)

----------------------------------------------------------------------------
(* What the SQL statements of CommandRow make of a row, field by field. *)

Fields(s, o, f, t, p, a) ==
    [status |-> s, owner |-> o, fence |-> f, ttl |-> t, response |-> p, admission |-> a]

IsRow(x) == x = Fields(x.status, x.owner, x.fence, x.ttl, x.response, x.admission)

LEMMA PendingFact ==
    ASSUME NEW a
    PROVE  PendingRow(a) = Fields("pending", None, 0, 0, None, a)
  BY DEF PendingRow, Fields

LEMMA ClaimedFact ==
    ASSUME NEW old, NEW o
    PROVE  ClaimedBy(old, o)
             = Fields("started", o, old.fence + 1, CommandTicks, old.response, old.admission)
  BY DEF ClaimedBy, Fields

LEMMA ReleasedFact ==
    ASSUME NEW old, NEW s
    PROVE  Released(old, s) = Fields(s, None, old.fence, 0, old.response, old.admission)
  BY DEF Released, Fields

LEMMA FinishedFact ==
    ASSUME NEW old, NEW p
    PROVE  Finished(old, p) = Fields(IF p = "ok" THEN "succeeded" ELSE "failed",
                                     None, old.fence, 0, p, old.admission)
  BY DEF Finished, Fields

LEMMA RenewedFact ==
    ASSUME NEW old, IsRow(old)
    PROVE  Renewed(old) = Fields(old.status, old.owner, old.fence, CommandTicks,
                                 old.response, old.admission)
  BY DEF Renewed, IsRow, Fields

LEMMA TickFact ==
    ASSUME NEW old, IsRow(old)
    PROVE  [old EXCEPT !.ttl = @ - 1]
             = Fields(old.status, old.owner, old.fence, old.ttl - 1,
                      old.response, old.admission)
  BY DEF IsRow, Fields

----------------------------------------------------------------------------
(* The rows of the ledger. *)

Rows == [status : Statuses, owner : Requests \cup {None}, fence : Nat,
         ttl : 0..CommandTicks, response : Responses \cup {None},
         admission : Requests \cup {None}]

\* x differs from the row old at most in lease and status: the admission and
\* the response are the same.
Keeps(old, x, s) ==
    x \in Rows /\ x.status = s /\ x.response = old.response /\ x.admission = old.admission

LEMMA FieldsType ==
    ASSUME NEW s \in Statuses, NEW o \in Requests \cup {None}, NEW f \in Nat,
           NEW t \in 0..CommandTicks, NEW p \in Responses \cup {None},
           NEW a \in Requests \cup {None}
    PROVE  Fields(s, o, f, t, p, a) \in Rows
  BY DEF Fields, Rows

LEMMA RowFields ==
    ASSUME NEW x \in Rows
    PROVE  IsRow(x)
  BY DEF IsRow, Fields, Rows

\* Every statement but the two INSERTs and finish keeps admission and response.
LEMMA KeepsFact ==
    ASSUME NEW old \in Rows
    PROVE  /\ \A o \in Requests : Keeps(old, ClaimedBy(old, o), "started")
           /\ \A s \in Statuses : Keeps(old, Released(old, s), s)
           /\ Keeps(old, Renewed(old), old.status)
           /\ old.ttl > 0 => Keeps(old, [old EXCEPT !.ttl = @ - 1], old.status)
<1> USE CommandTicksAssumption
<1>t. /\ old.status \in Statuses /\ old.owner \in Requests \cup {None} /\ old.fence \in Nat
      /\ old.ttl \in 0..CommandTicks /\ old.response \in Responses \cup {None}
      /\ old.admission \in Requests \cup {None}
  BY DEF Rows
<1>r. IsRow(old)
  BY RowFields
<1>f. ASSUME NEW s \in Statuses, NEW q \in Requests \cup {None}, NEW f \in Nat,
             NEW t \in 0..CommandTicks
      PROVE  Keeps(old, Fields(s, q, f, t, old.response, old.admission), s)
  BY <1>t, FieldsType DEF Keeps, Fields
<1>1. \A o \in Requests : Keeps(old, ClaimedBy(old, o), "started")
  BY <1>t, <1>r, <1>f, ClaimedFact DEF Statuses
<1>2. \A s \in Statuses : Keeps(old, Released(old, s), s)
  BY <1>t, <1>r, <1>f, ReleasedFact
<1>3. Keeps(old, Renewed(old), old.status)
  <2>1. Renewed(old) = Fields(old.status, old.owner, old.fence, CommandTicks, old.response,
                              old.admission)
    BY <1>r, RenewedFact
  <2>2. CommandTicks \in 0..CommandTicks
    OBVIOUS
  <2>3. Keeps(old, Fields(old.status, old.owner, old.fence, CommandTicks, old.response,
                          old.admission), old.status)
    BY <1>t, <1>f, <2>2
  <2>4. QED
    BY <2>1, <2>3
<1>4. ASSUME old.ttl > 0 PROVE Keeps(old, [old EXCEPT !.ttl = @ - 1], old.status)
  <2>1. [old EXCEPT !.ttl = @ - 1] = Fields(old.status, old.owner, old.fence, old.ttl - 1,
                                            old.response, old.admission)
    BY <1>r, TickFact
  <2>2. old.ttl - 1 \in 0..CommandTicks
    BY <1>t, <1>4
  <2>3. Keeps(old, Fields(old.status, old.owner, old.fence, old.ttl - 1, old.response,
                          old.admission), old.status)
    BY <1>t, <1>f, <2>2
  <2>4. QED
    BY <2>1, <2>3, Zenon
<1>5. QED
  BY <1>1, <1>2, <1>3, <1>4
----------------------------------------------------------------------------
(* The steps of the system, as changes of one row.                          *)

\* No row changes.
Quiet == UNCHANGED <<row, content, effects>>

\* The first admission of a key.
Admits(r) ==
    /\ Row(r).status = "absent"
    /\ \E new \in Rows : /\ SetRow(r, new)
                         /\ new.status \in {"pending", "started"}
                         /\ new.response = None /\ new.admission = r
    /\ content' = [content EXCEPT ![KeyOf[r]] = ContentOf[r]]
    /\ UNCHANGED effects

\* Claims, renewals, expiry and releases: no outcome yet.
Changes(k) ==
    /\ \E new \in Rows, s \in Statuses :
        /\ row' = [row EXCEPT ![k] = new]
        /\ Keeps(row[k], new, s)
        /\ \/ s = row[k].status
           \/ /\ row[k].status \in {"pending", "started"}
              /\ s \in {"started", "uncertain", "blocked"}
    /\ UNCHANGED <<content, effects>>

\* The definitive outcome, by a request whose claim stands.
Decides(r, p) ==
    /\ Row(r).status = "started"
    /\ \E new \in Rows :
        /\ SetRow(r, new) /\ new.admission = Row(r).admission /\ new.response = p
        /\ new.status = IF p = "ok" THEN "succeeded" ELSE "failed"
    /\ effects' = IF p = "ok"
                  THEN [effects EXCEPT ![KeyOf[r]] = @ \cup {<<r, admitted[r]>>}]
                  ELSE effects
    /\ UNCHANGED content
    /\ p = "ok" => pc[r] \in {"handling", "streaming"}

Kinds == \/ Quiet
         \/ \E r \in Requests : Admits(r) \/ Decides(r, "ok") \/ Decides(r, "refused")
         \/ \E k \in Keys : Changes(k)

LEMMA RowType ==
    TypeOK => \A k \in Keys : row[k] \in Rows
  BY DEF TypeOK, Rows

LEMMA KeyType == \A r \in Requests : KeyOf[r] \in Keys /\ ContentOf[r] \in Contents
  BY LedgerAssumption

\* A request without a claim decides nothing.
LEMMA DecideFact ==
    ASSUME TypeOK, NEW r \in Requests, Authorized(r), NEW p \in Responses,
           SetRow(r, Finished(Row(r), p)), UNCHANGED content,
           effects' = IF p = "ok" THEN [effects EXCEPT ![KeyOf[r]] = @ \cup {<<r, admitted[r]>>}]
                      ELSE effects,
           p = "ok" => Handling(r)
    PROVE  Decides(r, p)
<1>1. Row(r) \in Rows /\ Row(r).status = "started"
  BY RowType, KeyType DEF Row, Authorized, Guard
<1> DEFINE s == IF p = "ok" THEN "succeeded" ELSE "failed"
           new == Fields(s, None, Row(r).fence, 0, p, Row(r).admission)
<1>2. s \in Statuses /\ Row(r).fence \in Nat /\ 0 \in 0..CommandTicks
      /\ Row(r).admission \in Requests \cup {None}
  BY <1>1, CommandTicksAssumption DEF Statuses, Rows
<1> HIDE DEF s
<1>3. new \in Rows
  BY <1>2, FieldsType
<1>4. new.admission = Row(r).admission /\ new.response = p /\ new.status = s
  BY DEF Fields
<1>5. SetRow(r, new)
  BY <1>1, RowFields, FinishedFact DEF s
<1> HIDE DEF new
<1>6. \E x \in Rows : /\ SetRow(r, x) /\ x.admission = Row(r).admission /\ x.response = p
                      /\ x.status = s
  BY <1>3, <1>4, <1>5
<1>7. QED
  BY <1>1, <1>6 DEF Decides, Handling, s

LEMMA ChangeFact ==
    ASSUME NEW k \in Keys, NEW new \in Rows, NEW s \in Statuses,
           row' = [row EXCEPT ![k] = new], Keeps(row[k], new, s),
           \/ s = row[k].status
           \/ row[k].status \in {"pending", "started"} /\ s \in {"started", "uncertain", "blocked"},
           UNCHANGED <<content, effects>>
    PROVE  Changes(k)
  BY DEF Changes
LEMMA ClaimChanges ==
    ASSUME TypeOK, NEW r \in Requests, Claimable(Row(r)), SetRow(r, ClaimedBy(Row(r), r)),
           UNCHANGED <<content, effects>>
    PROVE  Changes(KeyOf[r])
<1>1. KeyOf[r] \in Keys /\ Row(r) \in Rows
  BY RowType, KeyType DEF Row
<1>2. Keeps(Row(r), ClaimedBy(Row(r), r), "started")
  BY <1>1, KeepsFact
<1>3. Row(r).status \in {"pending", "started"} /\ "started" \in Statuses
  BY DEF Claimable, Statuses
<1>4. QED
  BY <1>1, <1>2, <1>3, ChangeFact DEF Keeps, Row, SetRow

LEMMA ReleaseChanges ==
    ASSUME TypeOK, NEW k \in Keys, row[k].status \in {"pending", "started"},
           NEW s \in {"uncertain", "blocked"},
           row' = [row EXCEPT ![k] = Released(row[k], s)], UNCHANGED <<content, effects>>
    PROVE  Changes(k)
<1>1. row[k] \in Rows
  BY RowType
<1>2. s \in Statuses
  BY DEF Statuses
<1>3. Keeps(row[k], Released(row[k], s), s)
  BY <1>1, <1>2, KeepsFact
<1>4. QED
  BY <1>1, <1>2, <1>3, ChangeFact DEF Keeps
LEMMA AdmitKinds ==
    ASSUME IInv, NEW r \in Requests, Admit(r)
    PROVE  Kinds
<1>t. TypeOK /\ KeyOf[r] \in Keys
  BY KeyType DEF IInv
<1>1. CASE Lookup(r)
  BY <1>1 DEF Lookup, Kinds, Quiet
<1>2. CASE Insert(r)
  <2>1. CASE Row(r).status = "absent"
    <3> DEFINE new == PendingRow(r)
    <3>1. new = Fields("pending", None, 0, 0, None, r)
      BY PendingFact
    <3>2. /\ new \in Rows /\ new.status = "pending" /\ new.response = None
          /\ new.admission = r
      BY <3>1, CommandTicksAssumption, FieldsType DEF Fields, Statuses
    <3>3. /\ SetRow(r, new) /\ content' = [content EXCEPT ![KeyOf[r]] = ContentOf[r]]
          /\ UNCHANGED effects
      BY <1>2, <2>1 DEF Insert
    <3> HIDE DEF new
    <3>4. Admits(r)
      BY <2>1, <3>2, <3>3 DEF Admits
    <3>5. QED
      BY <3>4 DEF Kinds
  <2>2. CASE Row(r).status # "absent"
    BY <1>2, <2>2 DEF Insert, Kinds, Quiet
  <2>3. QED
    BY <2>1, <2>2
<1>3. CASE Reread(r)
  BY <1>3 DEF Reread, Kinds, Quiet
<1>4. CASE Claim(r)
  BY <1>t, <1>4, ClaimChanges DEF Claim, Kinds, Quiet
<1>5. CASE Administrative(r)
  <2> DEFINE new == AdministrativeRow(r, r)
  <2>1. new = Fields("started", r, 1, CommandTicks, None, r)
    BY DEF AdministrativeRow, Fields
  <2>2. new \in Rows /\ new.status = "started" /\ new.response = None /\ new.admission = r
    BY <2>1, CommandTicksAssumption, FieldsType DEF Fields, Statuses
  <2>3. /\ SetRow(r, new) /\ content' = [content EXCEPT ![KeyOf[r]] = ContentOf[r]]
        /\ UNCHANGED effects /\ Row(r).status = "absent"
    BY <1>5 DEF Administrative
  <2> HIDE DEF new
  <2>4. Admits(r)
    BY <2>2, <2>3 DEF Admits
  <2>5. QED
    BY <2>4 DEF Kinds
<1>6. QED
  BY <1>1, <1>2, <1>3, <1>4, <1>5 DEF Admit

LEMMA HandleKinds ==
    ASSUME IInv, NEW r \in Requests, Handle(r)
    PROVE  Kinds
<1>t. TypeOK /\ KeyOf[r] \in Keys
  BY KeyType DEF IInv
<1>1. CASE CommitFinal(r)
  BY <1>t, <1>1, DecideFact DEF CommitFinal, Responses, Kinds
<1>2. CASE CommitBlocked(r)
  <2>1. row' = [row EXCEPT ![KeyOf[r]] = Released(row[KeyOf[r]], "blocked")]
        /\ row[KeyOf[r]].status = "started" /\ UNCHANGED <<content, effects>>
    BY <1>2 DEF CommitBlocked, SetRow, Row, Authorized, Guard
  <2>2. QED
    BY <1>t, <2>1, ReleaseChanges DEF Kinds
<1>3. CASE Refuse(r)
  BY <1>t, <1>3, DecideFact DEF Refuse, Responses, Kinds, Quiet
<1>4. CASE Fail(r) \/ Stream(r) \/ StreamAbandon(r)
  BY <1>4 DEF Fail, Stream, StreamAbandon, Kinds, Quiet
<1>5. CASE StreamUnresolved(r)
  <2>1. CASE UNCHANGED row
    BY <1>5, <2>1 DEF StreamUnresolved, Kinds, Quiet
  <2>2. CASE ~ UNCHANGED row
    <3>1. row' = [row EXCEPT ![KeyOf[r]] = Released(row[KeyOf[r]], "uncertain")]
          /\ row[KeyOf[r]].status = "started" /\ UNCHANGED <<content, effects>>
      BY <1>5, <2>2 DEF StreamUnresolved, SetRow, Row
    <3>2. QED
      BY <1>t, <3>1, ReleaseChanges DEF Kinds
  <2>3. QED
    BY <2>1, <2>2
<1>6. CASE Settle(r)
  <2>1. CASE ~Authorized(r)
    BY <1>6, <2>1 DEF Settle, Kinds, Quiet
  <2>2. CASE Authorized(r)
    <3>1. row[KeyOf[r]].status = "started"
      BY <2>2 DEF Authorized, Guard, Row
    <3>2. answer[r] \in {"refused", "error"}
      BY <1>t, <1>6, <3>1 DEF Settle, IInv, ReqOK, RowOK, Row
    <3>3. CASE answer[r] = "error"
      <4>1. row' = [row EXCEPT ![KeyOf[r]] = Released(row[KeyOf[r]], "uncertain")]
            /\ UNCHANGED <<content, effects>>
        BY <1>6, <2>2, <3>3 DEF Settle, SetRow, Row
      <4>2. QED
        BY <1>t, <3>1, <4>1, ReleaseChanges DEF Kinds
    <3>4. CASE answer[r] = "refused"
      <4>1. SetRow(r, Finished(Row(r), "refused")) /\ UNCHANGED <<content, effects>>
        BY <1>6, <2>2, <3>4 DEF Settle
      <4>2. QED
        BY <1>t, <2>2, <4>1, DecideFact DEF Responses, Kinds
    <3>5. QED
      BY <3>2, <3>3, <3>4
  <2>3. QED
    BY <2>1, <2>2
<1>7. QED
  BY <1>1, <1>2, <1>3, <1>4, <1>5, <1>6 DEF Handle

\* Every step is quiet, admits a key, decides one, or changes one row's lease.
LEMMA Steps ==
    ASSUME IInv, [Next]_vars
    PROVE  Kinds
<1>t. TypeOK
  BY DEF IInv
<1>1. ASSUME NEW r \in Requests, PersistenceError(r) PROVE Kinds
  <2>1. KeyOf[r] \in Keys
    BY KeyType
  <2>2. QED
    BY <1>t, <1>1, <2>1, ClaimChanges DEF PersistenceError, Kinds, Quiet
<1>2. ASSUME NEW r \in Requests, Heartbeat(r) PROVE Kinds
  <2>1. KeyOf[r] \in Keys /\ row[KeyOf[r]] \in Rows
    BY <1>t, KeyType, RowType
  <2>2. CASE Authorized(r)
    <3>1. row' = [row EXCEPT ![KeyOf[r]] = Renewed(row[KeyOf[r]])]
          /\ UNCHANGED <<content, effects>>
      BY <1>2, <2>2 DEF Heartbeat, SetRow, Row
    <3>2. Keeps(row[KeyOf[r]], Renewed(row[KeyOf[r]]), row[KeyOf[r]].status)
      BY <2>1, KeepsFact
    <3>3. row[KeyOf[r]].status \in Statuses
      BY <2>1 DEF Rows
    <3>4. QED
      BY <2>1, <3>1, <3>2, <3>3, ChangeFact DEF Keeps, Kinds
  <2>3. CASE ~Authorized(r)
    BY <1>2, <2>3 DEF Heartbeat, Kinds, Quiet
  <2>4. QED
    BY <2>2, <2>3
<1>3. ASSUME NEW k \in Keys, Tick(k) PROVE Kinds
  <2>1. row[k] \in Rows
    BY <1>t, RowType
  <2> DEFINE new == [row[k] EXCEPT !.ttl = @ - 1]
  <2>2. row' = [row EXCEPT ![k] = new] /\ UNCHANGED <<content, effects>> /\ row[k].ttl > 0
    BY <1>3 DEF Tick
  <2>3. Keeps(row[k], new, row[k].status) /\ row[k].status \in Statuses
    BY <2>1, <2>2, KeepsFact DEF Rows
  <2> HIDE DEF new
  <2>4. QED
    BY <2>2, <2>3, ChangeFact DEF Keeps, Kinds
<1>4. ASSUME NEW k \in Keys, Abandon(k) PROVE Kinds
  BY <1>t, <1>4, ReleaseChanges DEF Abandon, Abandonable, Kinds
<1>5. ASSUME NEW r \in Requests, Crash(r) PROVE Kinds
  BY <1>5 DEF Crash, Kinds, Quiet
<1>6. CASE UNCHANGED vars
  BY <1>6 DEF vars, Kinds, Quiet
<1>7. QED
  BY <1>1, <1>2, <1>3, <1>4, <1>5, <1>6, AdmitKinds, HandleKinds DEF Next
----------------------------------------------------------------------------
(* The step lemmas, one per conjunct of IInv. *)

\* A key that is taken stays taken, by the same admission; what it has come to
\* is final.
Progress(k) ==
    row[k].status # "absent" =>
        /\ row'[k].status # "absent" /\ row'[k].admission = row[k].admission
        /\ row[k].status = "blocked" => row'[k].status = "blocked"
        /\ row[k].response = "ok" => row'[k].response = "ok"

LEMMA RowProgress ==
    ASSUME IInv, [Next]_vars, NEW k \in Keys
    PROVE  Progress(k)
<1>t. TypeOK /\ row[k] \in Rows /\ RowOK(k)
  BY RowType DEF IInv
<1>1. CASE Quiet
  BY <1>1 DEF Quiet, Progress
<1>2. ASSUME NEW r \in Requests, Admits(r) PROVE Progress(k)
  BY <1>t, <1>2, KeyType DEF Admits, Progress, Row, SetRow, TypeOK
<1>3. ASSUME NEW r \in Requests, NEW p \in Responses, Decides(r, p) PROVE Progress(k)
  BY <1>t, <1>3, KeyType DEF Decides, Progress, Row, SetRow, TypeOK, RowOK
<1>4. ASSUME NEW j \in Keys, Changes(j) PROVE Progress(k)
  BY <1>t, <1>4 DEF Changes, Keeps, Progress, TypeOK
<1>5. QED
  BY <1>1, <1>2, <1>3, <1>4, Steps DEF Kinds, Responses

LEMMA RowStep ==
    ASSUME IInv, [Next]_vars, NEW k \in Keys
    PROVE  RowOK(k)'
<1> USE LedgerAssumption
<1>t. TypeOK /\ row[k] \in Rows /\ RowOK(k)
  BY RowType DEF IInv
<1>1. CASE Quiet
  BY <1>t, <1>1 DEF Quiet, RowOK
<1>2. ASSUME NEW r \in Requests, Admits(r) PROVE RowOK(k)'
  <2>1. CASE KeyOf[r] = k
    <3>1. /\ row'[k].status \in {"pending", "started"} /\ row'[k].response = None
          /\ content'[k] # None /\ effects'[k] = effects[k] /\ row[k].status = "absent"
      BY <1>t, <1>2, <2>1, KeyType DEF Admits, SetRow, Row, TypeOK
    <3>2. QED
      BY <1>t, <3>1 DEF RowOK, Responses
  <2>2. CASE KeyOf[r] # k
    <3>1. row'[k] = row[k] /\ content'[k] = content[k] /\ effects'[k] = effects[k]
      BY <1>t, <1>2, <2>2, KeyType DEF Admits, SetRow, TypeOK
    <3>2. QED
      BY <1>t, <3>1 DEF RowOK
  <2>3. QED
    BY <2>1, <2>2
<1>3. ASSUME NEW r \in Requests, NEW p \in Responses, Decides(r, p) PROVE RowOK(k)'
  <2>1. CASE KeyOf[r] = k
    <3>1. /\ row[k].status = "started" /\ content'[k] = content[k]
          /\ row'[k].response = p /\ row'[k].admission = row[k].admission
          /\ row'[k].status = IF p = "ok" THEN "succeeded" ELSE "failed"
      BY <1>t, <1>3, <2>1 DEF Decides, SetRow, Row, TypeOK
    <3>2. effects[k] = {} /\ content[k] # None
      BY <1>t, <3>1 DEF RowOK
    <3>3. effects'[k] = IF p = "ok" THEN {<<r, admitted[r]>>} ELSE {}
      BY <1>t, <1>3, <2>1, <3>2 DEF Decides, TypeOK
    <3>4. p = "ok" => admitted[r] = row'[k].admission
      BY <1>3, <2>1, <3>1 DEF IInv, ReqOK, Decides, Row
    <3>5. QED
      BY <1>t, <3>1, <3>2, <3>3, <3>4 DEF RowOK, Responses
  <2>2. CASE KeyOf[r] # k
    <3>1. row'[k] = row[k] /\ content'[k] = content[k] /\ effects'[k] = effects[k]
      BY <1>t, <1>3, <2>2, KeyType DEF Decides, SetRow, TypeOK
    <3>2. QED
      BY <1>t, <3>1 DEF RowOK
  <2>3. QED
    BY <2>1, <2>2
<1>4. ASSUME NEW j \in Keys, Changes(j) PROVE RowOK(k)'
  <2>1. /\ content'[k] = content[k] /\ effects'[k] = effects[k]
        /\ row'[k].response = row[k].response /\ row'[k].admission = row[k].admission
        /\ \/ row'[k].status = row[k].status
           \/ /\ row[k].status \in {"pending", "started"}
              /\ row'[k].status \in {"started", "uncertain", "blocked"}
    BY <1>t, <1>4 DEF Changes, Keeps, TypeOK
  <2>2. QED
    BY <1>t, <2>1 DEF RowOK
<1>5. QED
  BY <1>1, <1>2, <1>3, <1>4, Steps DEF Kinds, Responses

\* The rows, their contents and their effects keep their types.
LEMMA RowsType ==
    ASSUME IInv, [Next]_vars
    PROVE  /\ row' \in [Keys -> Rows]
           /\ content' \in [Keys -> Contents \cup {None}]
           /\ effects' \in [Keys -> SUBSET (Requests \X (Requests \cup {None}))]
<1>t. /\ row \in [Keys -> Rows]
      /\ content \in [Keys -> Contents \cup {None}]
      /\ effects \in [Keys -> SUBSET (Requests \X (Requests \cup {None}))]
      /\ admitted \in [Requests -> Requests \cup {None}]
  BY DEF IInv, TypeOK, Rows
<1>1. CASE Quiet
  BY <1>t, <1>1 DEF Quiet
<1>2. ASSUME NEW r \in Requests, Admits(r)
      PROVE  /\ row' \in [Keys -> Rows]
             /\ content' \in [Keys -> Contents \cup {None}]
             /\ effects' \in [Keys -> SUBSET (Requests \X (Requests \cup {None}))]
  BY <1>t, <1>2, KeyType DEF Admits, SetRow
<1>3. ASSUME NEW r \in Requests, NEW p \in Responses, Decides(r, p)
      PROVE  /\ row' \in [Keys -> Rows]
             /\ content' \in [Keys -> Contents \cup {None}]
             /\ effects' \in [Keys -> SUBSET (Requests \X (Requests \cup {None}))]
  BY <1>t, <1>3, KeyType DEF Decides, SetRow
<1>4. ASSUME NEW k \in Keys, Changes(k)
      PROVE  /\ row' \in [Keys -> Rows]
             /\ content' \in [Keys -> Contents \cup {None}]
             /\ effects' \in [Keys -> SUBSET (Requests \X (Requests \cup {None}))]
  BY <1>t, <1>4 DEF Changes
<1>5. QED
  BY <1>1, <1>2, <1>3, <1>4, Steps DEF Kinds, Responses
Labels == {"idle", "insert", "reread", "claim", "handling", "streaming", "settle",
           "done", "crashed"}
Answers == {None, "ok", "refused", "error", "accepted"}
Replies == {None, "ok", "refused", "error", "accepted", "reused", "unadmitted", "stream"}

LEMMA TypeStep ==
    ASSUME IInv, [Next]_vars
    PROVE  TypeOK'
<1> USE LedgerAssumption
<1>t. /\ TypeOK /\ pc \in [Requests -> Labels] /\ answer \in [Requests -> Answers]
      /\ reply \in [Requests -> Replies] /\ beating \in [Requests -> BOOLEAN]
      /\ myFence \in [Requests -> Nat] /\ admitted \in [Requests -> Requests \cup {None}]
      /\ \A r \in Requests : Row(r) \in Rows /\ Row(r).fence \in Nat
                              /\ Row(r).admission \in Requests \cup {None}
                              /\ Row(r).response \in Responses \cup {None}
  BY RowType, KeyType DEF IInv, TypeOK, Labels, Answers, Replies, Row, Rows
<1> DEFINE Local == /\ pc' \in [Requests -> Labels] /\ answer' \in [Requests -> Answers]
                    /\ reply' \in [Requests -> Replies] /\ beating' \in [Requests -> BOOLEAN]
                    /\ myFence' \in [Requests -> Nat]
                    /\ admitted' \in [Requests -> Requests \cup {None}]
<1>g. ASSUME NEW r \in Requests, NEW l \in Labels, Goto(r, l) PROVE pc' \in [Requests -> Labels]
  BY <1>t, <1>g DEF Goto
<1>r. ASSUME NEW r \in Requests, NEW x \in Replies, Reply(r, x)
      PROVE  pc' \in [Requests -> Labels] /\ reply' \in [Requests -> Replies]
  BY <1>t, <1>r DEF Reply, Goto, Labels
<1>a. ASSUME NEW r \in Requests, NEW x \in Answers, Answer(r, x)
      PROVE  pc' \in [Requests -> Labels] /\ answer' \in [Requests -> Answers]
  BY <1>t, <1>a DEF Answer, Goto, Labels
<1>1. ASSUME NEW r \in Requests, Admit(r) PROVE Local
  <2>1. CASE Lookup(r)
    BY <1>t, <1>g, <1>r, <2>1 DEF Lookup, local, Labels, Replies
  <2>2. CASE Insert(r)
    BY <1>t, <1>g, <2>2 DEF Insert, local, Labels
  <2>3. CASE Reread(r)
    <3>1. pc' \in [Requests -> Labels] /\ reply' \in [Requests -> Replies]
      BY <1>t, <1>g, <1>r, <2>3 DEF Reread, Labels, Replies, Responses
    <3>2. QED
      BY <1>t, <2>3, <3>1 DEF Reread
  <2>4. CASE Claim(r)
    <3>1. pc' \in [Requests -> Labels] /\ reply' \in [Requests -> Replies]
      BY <1>t, <1>g, <1>r, <2>4 DEF Claim, Labels, Replies
    <3>2. myFence' \in [Requests -> Nat] /\ beating' \in [Requests -> BOOLEAN]
      <4>1. CASE Claimable(Row(r))
        <5>1. Row(r).fence + 1 \in Nat
          BY <1>t
        <5>2. /\ myFence' = [myFence EXCEPT ![r] = Row(r).fence + 1]
              /\ beating' = [beating EXCEPT ![r] = TRUE]
          BY <2>4, <4>1 DEF Claim
        <5>3. myFence' \in [Requests -> Nat]
          BY <1>t, <5>1, <5>2
        <5>4. beating' \in [Requests -> BOOLEAN]
          BY <1>t, <5>2
        <5>5. QED
          BY <5>3, <5>4
      <4>2. CASE ~Claimable(Row(r))
        BY <1>t, <2>4, <4>2 DEF Claim
      <4>3. QED
        BY <4>1, <4>2
    <3>3. QED
      BY <1>t, <2>4, <3>1, <3>2 DEF Claim
  <2>5. CASE Administrative(r)
    <3>1. pc' \in [Requests -> Labels]
      BY <1>g, <2>5 DEF Administrative, Labels
    <3>2. QED
      BY <1>t, <2>5, <3>1 DEF Administrative
  <2>6. QED
    BY <1>1, <2>1, <2>2, <2>3, <2>4, <2>5 DEF Admit
<1>2. ASSUME NEW r \in Requests, Handle(r) PROVE Local
  <2>1. CASE CommitFinal(r)
    BY <1>t, <1>a, <2>1 DEF CommitFinal, Answers
  <2>2. CASE CommitBlocked(r)
    BY <1>t, <1>a, <2>2 DEF CommitBlocked, Answers
  <2>3. CASE Refuse(r)
    BY <1>t, <1>a, <2>3 DEF Refuse, Answers
  <2>4. CASE Fail(r) \/ StreamUnresolved(r) \/ StreamAbandon(r)
    BY <1>t, <1>a, <2>4 DEF Fail, StreamUnresolved, StreamAbandon, Answers
  <2>5. CASE Stream(r)
    BY <1>t, <1>g, <2>5 DEF Stream, local, Labels, Replies
  <2>6. CASE Settle(r)
    <3>1. answer[r] \in Replies
      BY <1>t DEF Answers, Replies
    <3>2. QED
      BY <1>t, <1>r, <2>6, <3>1 DEF Settle, local
  <2>7. QED
    BY <1>2, <2>1, <2>2, <2>3, <2>4, <2>5, <2>6 DEF Handle
<1>3. ASSUME NEW r \in Requests, PersistenceError(r) PROVE Local
  BY <1>t, <1>r, <1>3 DEF PersistenceError, local, Replies
<1>4. ASSUME NEW r \in Requests, Heartbeat(r) PROVE Local
  BY <1>t, <1>4 DEF Heartbeat
<1>5. ASSUME NEW r \in Requests, Crash(r) PROVE Local
  BY <1>t, <1>g, <1>5 DEF Crash, Labels
<1>6. ASSUME NEW k \in Keys, Tick(k) \/ Abandon(k) PROVE Local
  BY <1>t, <1>6 DEF Tick, Abandon, local
<1>7. ASSUME UNCHANGED vars PROVE Local
  BY <1>t, <1>7 DEF vars
<1> HIDE DEF Local
<1>8. Local
  BY <1>1, <1>2, <1>3, <1>4, <1>5, <1>6, <1>7 DEF Next
<1>9. QED
  BY <1>8, RowsType DEF Local, TypeOK, Rows, Labels, Answers, Replies

\* A request that does not move knows no less of its row afterwards.
LEMMA ReqKept ==
    ASSUME IInv, [Next]_vars, NEW q \in Requests,
           pc'[q] = pc[q], admitted'[q] = admitted[q], answer'[q] = answer[q],
           reply'[q] = reply[q]
    PROVE  ReqOK(q)'
<1> USE LedgerAssumption
<1>1. ReqOK(q) /\ Progress(KeyOf[q]) /\ RowOK(KeyOf[q])
  BY KeyType, RowProgress DEF IInv
<1>2. reply[q] = "ok" => Row(q).status # "absent"
  BY <1>1 DEF ReqOK, RowOK, Row
<1>3. QED
  BY <1>1, <1>2 DEF ReqOK, Progress, Row

LEMMA ReqStep ==
    ASSUME IInv, [Next]_vars, NEW q \in Requests
    PROVE  ReqOK(q)'
<1> USE LedgerAssumption
<1>t. /\ TypeOK /\ ReqOK(q) /\ KeyOf[q] \in Keys /\ Progress(KeyOf[q]) /\ RowOK(KeyOf[q])
      /\ RowOK(KeyOf[q])' /\ TypeOK'
  BY KeyType, RowProgress, RowStep, TypeStep DEF IInv
<1>k. ASSUME pc'[q] = pc[q], admitted'[q] = admitted[q], answer'[q] = answer[q],
             reply'[q] = reply[q]
      PROVE  ReqOK(q)'
  BY <1>k, ReqKept
\* Another request moves.
<1>o. ASSUME NEW r \in Requests, r # q, Admit(r) \/ Handle(r) \/ PersistenceError(r) \/ Crash(r)
      PROVE  pc'[q] = pc[q] /\ admitted'[q] = admitted[q] /\ answer'[q] = answer[q]
             /\ reply'[q] = reply[q]
  <2>1. CASE Admit(r)
    BY <1>t, <1>o, <2>1 DEF Admit, Lookup, Insert, Reread, Claim, Administrative, Goto, Reply,
                            local, TypeOK
  <2>2. CASE Handle(r)
    BY <1>t, <1>o, <2>2 DEF Handle, CommitFinal, CommitBlocked, Refuse, Fail, Stream,
                            StreamUnresolved, StreamAbandon, Settle, Answer, Goto, Reply,
                            local, TypeOK
  <2>3. CASE PersistenceError(r) \/ Crash(r)
    BY <1>t, <1>o, <2>3 DEF PersistenceError, Crash, Goto, Reply, local, TypeOK
  <2>4. QED
    BY <1>o, <2>1, <2>2, <2>3
<1>s. Row(q).status # "absent" => Row(q)'.status # "absent"
      /\ Row(q)'.admission = Row(q).admission /\ (Row(q).response = "ok" => Row(q)'.response = "ok")
  BY <1>t DEF Progress, Row
<1>p. reply[q] = "ok" => Row(q)'.response = "ok"
  BY <1>t, <1>s DEF ReqOK, RowOK, Row
<1>1. CASE Lookup(q)
  BY <1>t, <1>p, <1>1 DEF Lookup, Goto, Reply, ReqOK, TypeOK
<1>2. CASE Insert(q)
  <2>1. Row(q)'.status # "absent"
    <3>1. CASE Row(q).status = "absent"
      <4>1. row'[KeyOf[q]] = Fields("pending", None, 0, 0, None, q)
        BY <1>t, <1>2, <3>1, PendingFact DEF Insert, SetRow, TypeOK
      <4>2. QED
        BY <4>1 DEF Fields, Row
    <3>2. QED
      BY <1>s, <3>1
  <2>2. QED
    BY <1>t, <1>p, <1>2, <2>1 DEF Insert, Goto, ReqOK, TypeOK
<1>3. CASE Reread(q)
  <2>1. row' = row /\ admitted'[q] = Row(q).admission /\ Row(q).status # "absent"
    BY <1>t, <1>3 DEF Reread, TypeOK, ReqOK
  <2>2. /\ pc'[q] \in {"done", "claim"}
        /\ reply'[q] = "ok" => Row(q).response = "ok"
    BY <1>t, <1>p, <1>3, <2>1 DEF Reread, Goto, Reply, TypeOK, ReqOK
  <2>3. QED
    BY <2>1, <2>2 DEF ReqOK, Row
<1>4. CASE Claim(q)
  <2>1. /\ admitted'[q] = Row(q).admission /\ Row(q).status # "absent"
        /\ pc'[q] \in {"done", "handling"} /\ (reply'[q] = "ok" => reply[q] = "ok")
    BY <1>t, <1>4 DEF Claim, Goto, Reply, TypeOK, ReqOK
  <2>2. QED
    BY <1>s, <1>p, <2>1 DEF ReqOK
<1>5. CASE Administrative(q)
  <2>1. /\ row'[KeyOf[q]] = AdministrativeRow(q, q) /\ admitted'[q] = q
        /\ pc'[q] = "handling" /\ reply'[q] = reply[q]
    BY <1>t, <1>5 DEF Administrative, SetRow, Goto, TypeOK
  <2>2. QED
    BY <1>p, <2>1 DEF ReqOK, Row, AdministrativeRow
<1>6. ASSUME NEW x \in {"ok", "refused", "error", "accepted"}, Handling(q), Answer(q, x),
             x = "ok" => Row(q)'.response = "ok", x = "accepted" => Row(q)'.status = "blocked",
             UNCHANGED <<admitted, reply>>
      PROVE  ReqOK(q)'
  <2>1. /\ pc'[q] \in {"done", "settle"} /\ answer'[q] = x /\ reply'[q] = reply[q]
        /\ admitted'[q] = Row(q).admission /\ Row(q).status # "absent"
    BY <1>t, <1>6 DEF Answer, Goto, Handling, ReqOK, TypeOK
  <2>2. QED
    BY <1>6, <1>s, <1>p, <2>1 DEF ReqOK
<1>7. CASE CommitFinal(q)
  <2>1. row[KeyOf[q]] \in Rows
    BY <1>t, RowType
  <2>2. row'[KeyOf[q]] = Finished(row[KeyOf[q]], "ok")
    BY <1>t, <1>7 DEF CommitFinal, SetRow, Row, TypeOK
  <2>3. Row(q)'.response = "ok"
    BY <2>1, <2>2, RowFields, FinishedFact DEF Responses, Row, Fields
  <2>4. QED
    BY <1>6, <1>7, <2>3 DEF CommitFinal
<1>8. CASE CommitBlocked(q)
  <2>1. row[KeyOf[q]] \in Rows
    BY <1>t, RowType
  <2>2. row'[KeyOf[q]] = Released(row[KeyOf[q]], "blocked")
    BY <1>t, <1>8 DEF CommitBlocked, SetRow, Row, TypeOK
  <2>3. Row(q)'.status = "blocked"
    BY <2>1, <2>2, RowFields, ReleasedFact DEF Statuses, Row, Fields
  <2>4. QED
    BY <1>6, <1>8, <2>3 DEF CommitBlocked
<1>9. CASE Refuse(q)
  BY <1>6, <1>9 DEF Refuse, Handling
<1>10. CASE Fail(q) \/ StreamUnresolved(q) \/ StreamAbandon(q)
  BY <1>6, <1>10 DEF Fail, StreamUnresolved, StreamAbandon, Handling
<1>11. CASE Stream(q)
  <2>1. /\ pc'[q] = "streaming" /\ reply'[q] = "stream" /\ admitted'[q] = Row(q).admission
        /\ Row(q).status # "absent"
    BY <1>t, <1>11 DEF Stream, Goto, local, ReqOK, TypeOK
  <2>2. QED
    BY <1>s, <2>1 DEF ReqOK
<1>12. CASE Settle(q)
  <2>1. pc'[q] = "done" /\ reply'[q] = answer[q] /\ pc[q] = "settle"
    BY <1>t, <1>12 DEF Settle, Reply, Goto, TypeOK
  <2>2. reply'[q] = "ok" => Row(q)'.response = "ok"
    BY <1>t, <1>s, <2>1 DEF ReqOK
  <2>3. QED
    BY <2>1, <2>2 DEF ReqOK
<1>13. CASE PersistenceError(q)
  BY <1>t, <1>13 DEF PersistenceError, Reply, Goto, ReqOK, TypeOK
<1>14. CASE Crash(q)
  BY <1>t, <1>p, <1>14 DEF Crash, Goto, ReqOK, TypeOK
<1>15. QED
  BY <1>k, <1>o, <1>1, <1>2, <1>3, <1>4, <1>5, <1>7, <1>8, <1>9, <1>10, <1>11, <1>12,
     <1>13, <1>14 DEF Next, Admit, Handle, Heartbeat, Tick, Abandon, local, vars
----------------------------------------------------------------------------
(* The theorems. *)

LEMMA InitIInv == Init => IInv
<1> SUFFICES ASSUME Init PROVE IInv
  OBVIOUS
<1> USE LedgerAssumption, CommandTicksAssumption
<1>1. AbsentRow \in Rows
  BY DEF AbsentRow, Rows, Statuses
<1>2. TypeOK
  BY <1>1 DEF Init, TypeOK, Rows
<1>3. \A k \in Keys : RowOK(k)
  BY DEF Init, RowOK, AbsentRow, Responses
<1>4. \A r \in Requests : ReqOK(r)
  BY DEF Init, ReqOK, Responses
<1>5. QED
  BY <1>2, <1>3, <1>4 DEF IInv

\* The invariant is inductive: no order of lookups, inserts, claims, handler
\* commits, late settlings, expiries and recoveries breaks it.
THEOREM Inductive == Spec => []IInv
<1>1. IInv /\ [Next]_vars => IInv'
  <2> SUFFICES ASSUME IInv, [Next]_vars PROVE IInv'
    OBVIOUS
  <2>1. TypeOK'
    BY TypeStep
  <2>2. \A k \in Keys : RowOK(k)'
    BY RowStep
  <2>3. \A r \in Requests : ReqOK(r)'
    BY ReqStep
  <2>4. QED
    BY <2>1, <2>2, <2>3 DEF IInv
<1>2. QED
  BY <1>1, InitIInv, PTL DEF Spec

\* The rows of agent_commands and the requests' own data keep their shape.
THEOREM TypeCorrect == Spec => []TypeOK
<1>1. IInv => TypeOK
  BY DEF IInv
<1>2. QED
  BY <1>1, Inductive, PTL

\* The effect of a command is committed at most once, exactly when its row
\* says succeeded, and from the admission the first INSERT froze.
THEOREM EffectsOnce == Spec => []EffectOnce
<1>1. IInv => EffectOnce
  <2> SUFFICES ASSUME IInv, NEW k \in Keys
               PROVE  /\ Cardinality(effects[k]) <= 1
                      /\ row[k].status = "succeeded" <=> effects[k] # {}
                      /\ \A e \in effects[k] : e[2] = row[k].admission
    BY DEF EffectOnce
  <2>1. RowOK(k)
    BY DEF IInv
  <2>2. CASE row[k].status = "succeeded"
    <3>1. PICK r \in Requests : effects[k] = {<<r, row[k].admission>>}
      BY <2>1, <2>2 DEF RowOK
    <3>2. Cardinality(effects[k]) = 1
      BY <3>1, FS_Singleton
    <3>3. QED
      BY <2>2, <3>1, <3>2
  <2>3. CASE row[k].status # "succeeded"
    BY <2>1, <2>3, FS_EmptySet DEF RowOK
  <2>4. QED
    BY <2>2, <2>3
<1>2. QED
  BY <1>1, Inductive, PTL

\* A client that was told of a success was told the truth: the row stores it,
\* also when the handler that answered had lost its claim.
THEOREM SuccessesRecorded == Spec => []SuccessIsRecorded
<1>1. IInv => SuccessIsRecorded
  BY DEF IInv, ReqOK, SuccessIsRecorded
<1>2. QED
  BY <1>1, Inductive, PTL

Outcome == [k \in Keys |-> row[k].response]
Applied == [k \in Keys |-> Cardinality(effects[k])]

\* The count of effects that the row stands for.
LEMMA AppliedFact ==
    ASSUME NEW k \in Keys, RowOK(k)
    PROVE  Cardinality(effects[k]) = IF row[k].response = "ok" THEN 1 ELSE 0
<1>1. CASE row[k].status = "succeeded"
  <2>1. PICK r \in Requests : effects[k] = {<<r, row[k].admission>>}
    BY <1>1 DEF RowOK
  <2>2. Cardinality({<<r, row[k].admission>>}) = 1
    BY FS_Singleton
  <2>3. QED
    BY <1>1, <2>1, <2>2 DEF RowOK
<1>2. CASE row[k].status # "succeeded"
  BY <1>2, FS_EmptySet DEF RowOK
<1>3. QED
  BY <1>1, <1>2

\* The ledger implements its promise: the first INSERT of a key is a Register,
\* the commit of an outcome a Decide, and nothing else is visible.
THEOREM ImplementsIdempotentCommand == Spec => RefinesIdempotentCommand
<1> USE LedgerAssumption
<1>1. Init => Promise!Init
  BY FS_EmptySet DEF Init, Promise!Init, AbsentRow
<1>2. IInv /\ IInv' /\ [Next]_vars => [Promise!Next]_<<content, Outcome, Applied>>
  <2> SUFFICES ASSUME IInv, IInv', [Next]_vars
               PROVE  Promise!Next \/ UNCHANGED <<content, Outcome, Applied>>
    OBVIOUS
  <2>t. /\ TypeOK
        /\ \A k \in Keys : RowOK(k) /\ RowOK(k)'
    BY DEF IInv
  <2>c. /\ \A k \in Keys : Cardinality(effects[k]) = IF row[k].response = "ok" THEN 1 ELSE 0
        /\ \A k \in Keys : Cardinality(effects'[k]) = IF row'[k].response = "ok" THEN 1 ELSE 0
    <3>1. ASSUME NEW k \in Keys
          PROVE  Cardinality(effects[k]) = IF row[k].response = "ok" THEN 1 ELSE 0
      BY <2>t, AppliedFact
    <3>2. ASSUME NEW k \in Keys
          PROVE  Cardinality(effects'[k]) = IF row'[k].response = "ok" THEN 1 ELSE 0
      <4>1. CASE row'[k].status = "succeeded"
        <5>1. PICK r \in Requests : effects'[k] = {<<r, row'[k].admission>>}
          BY <2>t, <4>1 DEF RowOK
        <5>2. Cardinality({<<r, row'[k].admission>>}) = 1
          BY FS_Singleton
        <5>3. QED
          BY <2>t, <4>1, <5>1, <5>2 DEF RowOK
      <4>2. CASE row'[k].status # "succeeded"
        BY <2>t, <4>2, FS_EmptySet DEF RowOK
      <4>3. QED
        BY <4>1, <4>2
    <3>3. QED
      BY <3>1, <3>2
  <2>1. CASE Quiet
    BY <2>1 DEF Quiet, Outcome, Applied
  <2>2. ASSUME NEW r \in Requests, Admits(r) PROVE Promise!Next
    <3>1. \A k \in Keys : row'[k].response = row[k].response
      <4>1. Row(r).response = None
        BY <2>t, <2>2, RowType, KeyType DEF Admits, Row, RowOK, Rows, Responses
      <4>2. QED
        BY <2>t, <2>2, <4>1, KeyType DEF Admits, Row, SetRow, TypeOK
    <3>2. UNCHANGED <<Outcome, Applied>>
      BY <2>2, <3>1 DEF Admits, Outcome, Applied
    <3>3. Promise!Register(KeyOf[r], ContentOf[r])
      BY <2>t, <2>2, <3>2, KeyType
         DEF Admits, Row, RowOK, Promise!Register, Outcome, Applied
    <3>4. QED
      BY <3>3, KeyType DEF Promise!Next
  <2>3. ASSUME NEW r \in Requests, NEW p \in Responses, Decides(r, p) PROVE Promise!Next
    <3> DEFINE k == KeyOf[r]
    <3>1. /\ k \in Keys /\ row[k].status = "started" /\ row'[k].response = p
          /\ UNCHANGED content
          /\ \A j \in Keys \ {k} : row'[j] = row[j]
      BY <2>t, <2>3, KeyType DEF Decides, Row, SetRow, TypeOK
    <3>2. content[k] # None /\ row[k].response = None
      BY <2>t, <3>1, RowType DEF RowOK, Rows, Responses
    <3> HIDE DEF k
    <3>3. Outcome' = [Outcome EXCEPT ![k] = p]
      BY <3>1 DEF Outcome
    <3>4. Applied' = [Applied EXCEPT ![k] = @ + IF p = "ok" THEN 1 ELSE 0]
      <4>1. Applied = [j \in Keys |-> IF row[j].response = "ok" THEN 1 ELSE 0]
        BY <2>c DEF Applied
      <4>2. Applied' = [j \in Keys |-> IF row'[j].response = "ok" THEN 1 ELSE 0]
        BY <2>c DEF Applied
      <4>3. QED
        BY <3>1, <3>2, <4>1, <4>2 DEF Responses
    <3>5. Promise!Decide(k, p)
      BY <3>1, <3>2, <3>3, <3>4 DEF Promise!Decide, Outcome, Applied
    <3>6. QED
      BY <3>1, <3>5 DEF Promise!Next, Responses
  <2>4. ASSUME NEW k \in Keys, Changes(k) PROVE UNCHANGED <<content, Outcome, Applied>>
    BY <2>t, <2>4 DEF Changes, Keeps, Outcome, Applied, TypeOK
  <2>5. QED
    BY <2>1, <2>2, <2>3, <2>4, Steps DEF Kinds, Responses
<1>3. QED
  BY <1>1, <1>2, Inductive, PTL DEF Spec, RefinesIdempotentCommand, Promise!Spec, Outcome, Applied
=============================================================================
