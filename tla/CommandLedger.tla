---------------------------- MODULE CommandLedger ----------------------------
(***************************************************************************)
(* Admission, execution and replay of keyed commands                       *)
(* (agent-rust/src/commands.rs).  Every SQL statement outside a            *)
(* transaction is a step of its own, so requests with one key interleave   *)
(* between the lookup, the insert, the re-read, the claim and the final    *)
(* settling.  The handler behind the command is reduced to the             *)
(* transactions that touch the command row: a checkpoint, the commit that  *)
(* also finishes the command, and the one that blocks it.                  *)
(***************************************************************************)
EXTENDS CommandRow, FiniteSets

CONSTANTS Requests,     \* HTTP requests (and CLI invocations)
          Keys,         \* idempotency keys
          KeyOf,        \* the key a request carries
          ContentOf,    \* its route and normalized body, as hashed
          Contents,
          Route         \* per key: "atomic", "run", "stream" or "admin"

ASSUME LedgerAssumption ==
    /\ KeyOf \in [Requests -> Keys]
    /\ ContentOf \in [Requests -> Contents]
    /\ Route \in [Keys -> {"atomic", "run", "stream", "admin"}]
    /\ None \notin Requests \cup Contents \cup Responses

VARIABLES row,       \* agent_commands by key
          content,   \* request_sha256 and route of the row
          pc,        \* where each request is
          myFence,   \* _command.fence
          admitted,  \* _command.admission
          answer,    \* the handler's response, None before there is one
          reply,     \* what the client received, None before that
          beating,   \* is the request's heartbeat task alive?
          effects    \* history: per key, the terminal effects committed and
                     \* the admission data each was made from

vars == <<row, content, pc, myFence, admitted, answer, reply, beating, effects>>
local == <<myFence, admitted, answer, beating>>

Row(r) == row[KeyOf[r]]
SetRow(r, new) == row' = [row EXCEPT ![KeyOf[r]] = new]
Authorized(r) == Guard(Row(r), r, myFence[r])

Init ==
    /\ row = [k \in Keys |-> AbsentRow]
    /\ content = [k \in Keys |-> None]
    /\ pc = [r \in Requests |-> "idle"]
    /\ myFence = [r \in Requests |-> 0]
    /\ admitted = [r \in Requests |-> None]
    /\ answer = [r \in Requests |-> None]
    /\ reply = [r \in Requests |-> None]
    /\ beating = [r \in Requests |-> FALSE]
    /\ effects = [k \in Keys |-> {}]

Goto(r, l) == pc' = [pc EXCEPT ![r] = l]

\* The request ends with a reply that the command row does not depend on.
Reply(r, what) ==
    /\ Goto(r, "done")
    /\ reply' = [reply EXCEPT ![r] = what]

----------------------------------------------------------------------------
(* admit *)

\* The first SELECT.  Without a row, a missing session is a 404 and an invalid
\* configuration a 422; neither consumes the key.
Lookup(r) ==
    /\ pc[r] = "idle" /\ Route[KeyOf[r]] # "admin"
    /\ \/ Goto(r, "insert") /\ UNCHANGED reply
       \/ Row(r).status = "absent" /\ Reply(r, "unadmitted")
    /\ UNCHANGED <<row, content, local, effects>>

\* INSERT ... ON CONFLICT DO NOTHING; the request that wins freezes its
\* admission data, for which the request stands.
Insert(r) ==
    /\ pc[r] = "insert"
    /\ IF Row(r).status = "absent"
       THEN /\ SetRow(r, PendingRow(r))
            /\ content' = [content EXCEPT ![KeyOf[r]] = ContentOf[r]]
       ELSE UNCHANGED <<row, content>>
    /\ Goto(r, "reread")
    /\ UNCHANGED <<local, reply, effects>>

\* Mutant: the admission of this request is used, not the row's.
RereadOwnAdmission(r) ==
    /\ pc[r] = "reread"
    /\ IF content[KeyOf[r]] # ContentOf[r] THEN Reply(r, "reused")
       ELSE IF Row(r).response # None THEN Reply(r, Row(r).response)
       ELSE Goto(r, "claim") /\ UNCHANGED reply
    /\ admitted' = [admitted EXCEPT ![r] = r]
    /\ UNCHANGED <<row, content, myFence, answer, beating, effects>>

\* The second SELECT: other content, a stored outcome to replay, or work to do.
Reread(r) ==
    /\ pc[r] = "reread"
    /\ IF content[KeyOf[r]] # ContentOf[r] THEN Reply(r, "reused")
       ELSE IF Row(r).response # None THEN Reply(r, Row(r).response)
       ELSE Goto(r, "claim") /\ UNCHANGED reply
    /\ admitted' = [admitted EXCEPT ![r] = Row(r).admission]
    /\ UNCHANGED <<row, content, myFence, answer, beating, effects>>

\* A claim starts the heartbeat and the handler; otherwise the reply is 202.
Claim(r) ==
    /\ pc[r] = "claim"
    /\ IF Claimable(Row(r))
       THEN /\ SetRow(r, ClaimedBy(Row(r), r))
            /\ myFence' = [myFence EXCEPT ![r] = Row(r).fence + 1]
            /\ beating' = [beating EXCEPT ![r] = TRUE]
            /\ Goto(r, "handling")
            /\ UNCHANGED reply
       ELSE /\ Reply(r, "accepted")
            /\ UNCHANGED <<row, myFence, beating>>
    /\ UNCHANGED <<content, admitted, answer, effects>>

\* administrative: reconcile-runs and retention register a command that is
\* already claimed and that no heartbeat renews.
Administrative(r) ==
    /\ pc[r] = "idle" /\ Route[KeyOf[r]] = "admin" /\ Row(r).status = "absent"
    /\ SetRow(r, AdministrativeRow(r, r))
    /\ content' = [content EXCEPT ![KeyOf[r]] = ContentOf[r]]
    /\ myFence' = [myFence EXCEPT ![r] = 1]
    /\ admitted' = [admitted EXCEPT ![r] = r]
    /\ Goto(r, "handling")
    /\ UNCHANGED <<answer, reply, beating, effects>>

----------------------------------------------------------------------------
(* The handler. *)

Handling(r) == pc[r] \in {"handling", "streaming"}

Answer(r, what) ==
    /\ Goto(r, IF pc[r] = "streaming" \/ Route[KeyOf[r]] = "admin"
               THEN "done" ELSE "settle")
    /\ answer' = [answer EXCEPT ![r] = what]

\* Mutant: finish relies on the WHERE clause of its UPDATE and ignores that no
\* row matched.
CommitFinalUnguarded(r) ==
    /\ Handling(r)
    /\ IF Authorized(r) THEN SetRow(r, Finished(Row(r), "ok")) ELSE UNCHANGED row
    /\ effects' = [effects EXCEPT ![KeyOf[r]] = @ \cup {<<r, admitted[r]>>}]
    /\ Answer(r, "ok")
    /\ UNCHANGED <<content, myFence, admitted, reply, beating>>

\* The terminal save, or the transaction of cancel_session: guard, effect and
\* finish commit together.  The acknowledgement may be lost for good.
CommitFinal(r) ==
    /\ Handling(r) /\ Authorized(r)
    /\ SetRow(r, Finished(Row(r), "ok"))
    /\ effects' = [effects EXCEPT ![KeyOf[r]] = @ \cup {<<r, admitted[r]>>}]
    /\ \E what \in {"ok", "error"} : Answer(r, what)
    /\ UNCHANGED <<content, myFence, admitted, reply, beating>>

\* run_finished of a run whose action needs resolution: 202, no response.
CommitBlocked(r) ==
    /\ Handling(r) /\ Route[KeyOf[r]] \in {"run", "stream"} /\ Authorized(r)
    /\ SetRow(r, Released(Row(r), "blocked"))
    /\ \E what \in {"accepted", "error"} : Answer(r, what)
    /\ UNCHANGED <<content, myFence, admitted, reply, beating, effects>>

\* A 4xx without an effect: busy session, terminal session, lost revision.
Refuse(r) ==
    /\ pc[r] = "handling"
    /\ IF Route[KeyOf[r]] = "admin"
       THEN /\ Authorized(r)
            /\ SetRow(r, Finished(Row(r), "refused"))
       ELSE UNCHANGED row
    /\ Answer(r, "refused")
    /\ UNCHANGED <<content, myFence, admitted, reply, beating, effects>>

\* A 5xx, or any body that mentions a lost lease.
Fail(r) ==
    /\ pc[r] = "handling"
    /\ Answer(r, "error")
    /\ UNCHANGED <<row, content, myFence, admitted, reply, beating, effects>>

\* lifecycle answers with an event stream; the work goes on in a task.
Stream(r) ==
    /\ pc[r] = "handling" /\ Route[KeyOf[r]] = "stream"
    /\ Goto(r, "streaming")
    /\ reply' = [reply EXCEPT ![r] = "stream"]
    /\ UNCHANGED <<row, content, local, effects>>

\* commit_outcome_unresolved in lifecycle: uncertain, whatever the lease says.
StreamUnresolved(r) ==
    /\ pc[r] = "streaming"
    /\ IF Row(r).status = "started" /\ Row(r).owner = r /\ Row(r).fence = myFence[r]
       THEN SetRow(r, Released(Row(r), "uncertain"))
       ELSE UNCHANGED row
    /\ Answer(r, "error")
    /\ UNCHANGED <<content, myFence, admitted, reply, beating, effects>>

\* Any other save of lifecycle fails: the task returns and settles nothing.
StreamAbandon(r) ==
    /\ pc[r] = "streaming"
    /\ Answer(r, "error")
    /\ UNCHANGED <<row, content, myFence, admitted, reply, beating, effects>>

\* After the handler: store the outcome if the claim still stands, and send
\* the handler's response in any case.
Settle(r) ==
    /\ pc[r] = "settle"
    /\ IF Authorized(r)
       THEN SetRow(r, IF answer[r] = "error" THEN Released(Row(r), "uncertain")
                      ELSE Finished(Row(r), answer[r]))
       ELSE UNCHANGED row
    /\ Reply(r, answer[r])
    /\ UNCHANGED <<content, local, effects>>

\* A statement of admit fails and the reply is 500, before or after the claim
\* took effect; a heartbeat that has been started goes on.
PersistenceError(r) ==
    /\ pc[r] \in {"insert", "reread", "claim", "settle"}
    /\ \/ UNCHANGED row
       \/ pc[r] = "claim" /\ Claimable(Row(r)) /\ SetRow(r, ClaimedBy(Row(r), r))
    /\ Reply(r, "error")
    /\ UNCHANGED <<content, local, effects>>

----------------------------------------------------------------------------
(* Heartbeats, time, crashes, and recovery by other commands. *)

Heartbeat(r) ==
    /\ beating[r]
    /\ IF Authorized(r)
       THEN SetRow(r, Renewed(Row(r))) /\ UNCHANGED beating
       ELSE beating' = [beating EXCEPT ![r] = FALSE] /\ UNCHANGED row
    /\ UNCHANGED <<content, pc, myFence, admitted, answer, reply, effects>>

Tick(k) ==
    /\ row[k].ttl > 0
    /\ row' = [row EXCEPT ![k].ttl = @ - 1]
    /\ UNCHANGED <<content, pc, local, reply, effects>>

Crash(r) ==
    /\ pc[r] \notin {"idle", "crashed"}
    /\ Goto(r, "crashed")
    /\ beating' = [beating EXCEPT ![r] = FALSE]
    /\ UNCHANGED <<row, content, myFence, admitted, answer, reply, effects>>

\* Another command finds the run of this one abandoned.
Abandon(k) ==
    /\ Route[k] \in {"run", "stream"} /\ Abandonable(row[k])
    /\ row' = [row EXCEPT ![k] = Released(@, "uncertain")]
    /\ UNCHANGED <<content, pc, local, reply, effects>>

Admit(r) == Lookup(r) \/ Insert(r) \/ Reread(r) \/ Claim(r) \/ Administrative(r)

Handle(r) ==
    \/ CommitFinal(r) \/ CommitBlocked(r) \/ Refuse(r) \/ Fail(r)
    \/ Stream(r) \/ StreamUnresolved(r) \/ StreamAbandon(r) \/ Settle(r)

Next ==
    \/ \E r \in Requests : \/ Admit(r) \/ Handle(r) \/ PersistenceError(r)
                           \/ Heartbeat(r) \/ Crash(r)
    \/ \E k \in Keys : Tick(k) \/ Abandon(k)

Spec == Init /\ [][Next]_vars

\* Live tasks run, and the clock does not stop.
FairSpec ==
    /\ Spec
    /\ \A r \in Requests : /\ WF_vars(Admit(r)) /\ WF_vars(Handle(r))
                           /\ WF_vars(Heartbeat(r))
    /\ \A k \in Keys : WF_vars(Tick(k))

----------------------------------------------------------------------------
(* Properties. *)

\* The shape of the ledger and of the requests in flight.
TypeOK ==
    /\ row \in [Keys -> [status : Statuses, owner : Requests \cup {None},
                         fence : Nat, ttl : 0..CommandTicks,
                         response : Responses \cup {None},
                         admission : Requests \cup {None}]]
    /\ content \in [Keys -> Contents \cup {None}]
    /\ pc \in [Requests -> {"idle", "insert", "reread", "claim", "handling",
                            "streaming", "settle", "done", "crashed"}]
    /\ myFence \in [Requests -> Nat]
    /\ admitted \in [Requests -> Requests \cup {None}]
    /\ answer \in [Requests -> {None, "ok", "refused", "error", "accepted"}]
    /\ reply \in [Requests -> {None, "ok", "refused", "error", "accepted",
                               "reused", "unadmitted", "stream"}]
    /\ beating \in [Requests -> BOOLEAN]
    /\ effects \in [Keys -> SUBSET (Requests \X (Requests \cup {None}))]

\* Whoever executes the command, after however many takeovers, its effect is
\* committed at most once, exactly when the row says succeeded, and from the
\* data the first admission froze.
EffectOnce ==
    \A k \in Keys :
        /\ Cardinality(effects[k]) <= 1
        /\ row[k].status = "succeeded" <=> effects[k] # {}
        /\ \A e \in effects[k] : e[2] = row[k].admission

\* A client told that the command succeeded was told the truth, also by a
\* handler whose claim had passed to another request meanwhile.
SuccessIsRecorded ==
    \A r \in Requests : reply[r] = "ok" => Row(r).response = "ok"

\* A live claim ends only through a step of its own request or by expiry:
\* no duplicate, late settling or recovery takes it away.
ClaimStands ==
    [][\A r \in Requests :
        Authorized(r) /\ ~Authorized(r)'
        => \/ Row(r)'.owner = r /\ Row(r)'.ttl = 0
           \/ pc'[r] # pc[r]]_vars

\* The ledger implements its promise.
Promise == INSTANCE IdempotentCommand
               WITH outcome <- [k \in Keys |-> row[k].response],
                    applied <- [k \in Keys |-> Cardinality(effects[k])]
RefinesIdempotentCommand == Promise!Spec

\* contract.md:169, "Definitive failures after admission are recorded and
\* replayed": no client is refused what another client of the same command
\* is told has succeeded.
RefusalIsRecorded ==
    \A r, s \in Requests :
        KeyOf[r] = KeyOf[s] /\ reply[r] = "refused" => reply[s] # "ok"

\* contract.md:167, GET /commands "returns authoritative command status": a
\* command does not stay started once nobody works on it any more.
StartedMeansWorking ==
    \A k \in Keys :
        (row[k].status = "started" /\ row[k].owner # None
            /\ pc[row[k].owner] = "done")
        ~> (row[k].status # "started" \/ row[k].ttl = 0)
=============================================================================
