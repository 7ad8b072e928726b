----------------------------- MODULE Transcript -----------------------------
(***************************************************************************)
(* The transcript of one session and the outbox that feeds it              *)
(* (agent-rust/src/engine.rs, actions.rs, main.rs, integrity.rs).  The     *)
(* engine numbers messages and audit records before they are saved; a      *)
(* checkpoint saves a clone of the session, and the engine's own copy      *)
(* learns of it from an acknowledgement.  Whatever happens between the     *)
(* commit and the acknowledgement, a later save replays the outbox, and    *)
(* save_inner refuses a record it already has under another number.        *)
(*                                                                         *)
(* An identity (a UUID) is a number, in the order of creation; it stands   *)
(* for the payload too.  SessionStore has how a save commits: here a try   *)
(* commits, fails, or loses its answer.  RunLifecycle has the status of    *)
(* the task, on which the handlers depend.                                 *)
(***************************************************************************)
EXTENDS Integers, Sequences, FiniteSets

CONSTANTS MaxTries,      \* tries of one save (3)
          MaxEntries,    \* bound: identities
          MaxRevision,   \* bound: commits
          MaxFaults      \* bound: failures, crashes, takeovers

ASSUME TranscriptAssumption == {MaxTries, MaxEntries, MaxRevision, MaxFaults} \subseteq Nat \ {0}

VARIABLES rows,     \* agent_session_transcript, in sequence: identity and kind
          db,       \* agent_sessions and agent_session_context
          owner,    \* whether the worker is the lease owner
          eng,      \* the worker's session
          prop,     \* the proposal of the save in progress, a clone for a checkpoint
          try,      \* its event, its tries and the revision of its receipt, if any
          ack,      \* checkpoint_ack
          at,
          made,     \* identities so far
          faults

\* History, read by the properties only: what the worker has recorded since it
\* loaded the session; whether save_inner has refused a transcript.
VARIABLES said, refused

transcriptVars == <<rows, db, owner, eng, prop, try, ack, at, made, faults, said, refused>>

Ids == {rows[i].id : i \in DOMAIN rows}
Held(q) == {q[i].id : i \in DOMAIN q}
SequenceOf(r, id) == CHOOSE i \in DOMAIN r : r[i].id = id

\* The entries of q from the i-th on whose identities are not known, in order.
WithoutFrom(q, known) ==
    LET from[i \in 1..(Len(q) + 1)] ==
          IF i > Len(q) THEN <<>>
          ELSE (IF q[i].id \in known THEN <<>> ELSE <<q[i]>>) \o from[i + 1]
    IN from

Without(q, known) == WithoutFrom(q, known)[1]

NoTry == [event |-> "none", left |-> 0, receipt |-> 0]

\* create: the goal is the first message.
TranscriptInit ==
    /\ rows = <<[id |-> 1, kind |-> "message"]>>
    /\ db = [revision |-> 1, context |-> 1, next |-> 2, running |-> FALSE, ledger |-> 0,
             memory |-> <<[id |-> 1, seq |-> 1]>>]
    /\ owner = FALSE /\ at = "idle" /\ made = 1 /\ faults = 0
    /\ eng = [next |-> 2, memory |-> db.memory, outbox |-> <<>>, summaries |-> <<>>,
              committed |-> {}, ledger |-> 0, revision |-> 1, reload |-> FALSE]
    /\ prop = eng /\ try = NoTry
    /\ ack = [next |-> 1, memory |-> <<>>, summaries |-> {}, reload |-> FALSE]
    /\ said = {} /\ refused = FALSE

----------------------------------------------------------------------------
(* The session in memory *)

\* archive_record, audit: the entry takes the next number.
Recorded(s, kind, id) ==
    [s EXCEPT !.outbox = Append(@, [id |-> id, kind |-> kind, seq |-> s.next]), !.next = @ + 1]

\* append_message
Appended(s, id) ==
    [Recorded(s, "message", id) EXCEPT !.memory = Append(@, [id |-> id, seq |-> s.next])]

\* save, before its first try: summaries that are not known to be committed
\* join the outbox, then the record of the event.
WithSummaries(s) ==
    LET staged == Without(s.summaries, s.committed \cup Held(s.outbox))
    IN [s EXCEPT !.outbox = @ \o [i \in DOMAIN staged |->
                                    [id |-> staged[i].id, kind |-> "summary", seq |-> s.next + i - 1]],
                 !.next = @ + Len(staged)]

HasRecord(event) == event \in {"run_finished", "run_interrupted"}
Staged(s, event, id) ==
    IF HasRecord(event) THEN Recorded(WithSummaries(s), event, id) ELSE WithSummaries(s)

\* Mutant: the summaries of the checkpoint stay unknown.
AcknowledgedWithoutSummaries(s) ==
    [s EXCEPT !.reload = ack.reload, !.next = ack.next]

\* acknowledge_checkpoint: numbers of the messages by identity.
Acknowledged(s) ==
    [s EXCEPT !.reload = ack.reload, !.next = ack.next, !.committed = ack.summaries,
              !.memory = [i \in DOMAIN s.memory |->
                            IF s.memory[i].id \in Held(ack.memory)
                            THEN ack.memory[SequenceOf(ack.memory, s.memory[i].id)]
                            ELSE s.memory[i]]]

----------------------------------------------------------------------------
(* save_inner *)

\* Mutant: a record that is there already is inserted again.
WrittenAgain(p) ==
    rows \o [i \in DOMAIN p.outbox |-> [id |-> p.outbox[i].id, kind |-> p.outbox[i].kind]]

\* The rows after the outbox and the summaries are inserted.
Written(p) ==
    LET new == Without(p.outbox, Ids)
        rest == Without(p.summaries, Ids \cup Held(new))
    IN rows \o [i \in DOMAIN new |-> [id |-> new[i].id, kind |-> new[i].kind]]
            \o [i \in DOMAIN rest |-> [id |-> rest[i].id, kind |-> "summary"]]

\* A record that is there already must be the same one; only a message may
\* have another number.
SameIdentity(e) ==
    e.id \in Ids =>
      LET i == SequenceOf(rows, e.id)
      IN rows[i].kind = e.kind /\ (e.kind # "message" => i = e.seq)

MessageIn(r, id) == \E i \in DOMAIN r : r[i] = [id |-> id, kind |-> "message"]

\* validate_summary_payload: its sources are messages in order, what it
\* retained are messages, and the ledger it continues is a summary.
ValidSummary(r, x) ==
    /\ x.sources # <<>>
    /\ \A i \in DOMAIN x.sources :
          /\ MessageIn(r, x.sources[i])
          /\ i > 1 => SequenceOf(r, x.sources[i - 1]) < SequenceOf(r, x.sources[i])
    /\ \A id \in x.retained : MessageIn(r, id)
    /\ x.prior # 0 => [id |-> x.prior, kind |-> "summary"] \in {r[i] : i \in DOMAIN r}

\* What save_inner asks of the stored counter, the outbox, the summaries and
\* the active messages.
Acceptable(p) ==
    /\ db.next = Len(rows) + 1
    /\ \A i \in DOMAIN p.outbox : SameIdentity(p.outbox[i])
    /\ \A i \in DOMAIN p.summaries : ValidSummary(Written(p), p.summaries[i])
    /\ \A i \in DOMAIN p.memory : MessageIn(Written(p), p.memory[i].id)

\* The active messages with the numbers of their rows.
Sealed(p, r) == [i \in DOMAIN p.memory |->
                   [id |-> p.memory[i].id, seq |-> SequenceOf(r, p.memory[i].id)]]

\* Mutant: the context is written only when the active messages change.
WriteContextIfChanged(p, r) ==
    [db EXCEPT !.revision = @ + 1, !.next = Len(r) + 1, !.ledger = p.ledger,
               !.context = IF Sealed(p, r) = db.memory THEN @ ELSE db.revision + 1,
               !.memory = Sealed(p, r)]

\* The session row and write_context.
WriteContext(p, r) ==
    [db EXCEPT !.revision = @ + 1, !.context = db.revision + 1, !.next = Len(r) + 1,
               !.ledger = p.ledger, !.memory = Sealed(p, r)]

\* What a save that succeeded leaves in the session it was given.
Saved(p, revision, reload) ==
    [p EXCEPT !.revision = revision, !.reload = reload, !.outbox = <<>>,
              !.committed = @ \cup Held(p.summaries)]

----------------------------------------------------------------------------
(* The worker *)

\* integrity checks of load: the context of this revision, its messages at
\* their places in the transcript, its ledger.
Loads ==
    /\ db.context = db.revision
    /\ \A i \in DOMAIN db.memory :
          /\ db.memory[i].seq \in DOMAIN rows
          /\ rows[db.memory[i].seq] = [id |-> db.memory[i].id, kind |-> "message"]
    /\ db.ledger # 0 => [id |-> db.ledger, kind |-> "summary"] \in {rows[i] : i \in DOMAIN rows}

Loaded == [next |-> db.next, memory |-> db.memory, outbox |-> <<>>, summaries |-> <<>>,
           committed |-> {}, ledger |-> db.ledger, revision |-> db.revision, reload |-> FALSE]

\* A save begins: the proposal is staged, under a new commit identity.
Save(s, event) ==
    /\ prop' = Staged(s, event, made + 1)
    /\ try' = [event |-> event, left |-> MaxTries, receipt |-> 0]
    /\ made' = IF HasRecord(event) THEN made + 1 ELSE made
    /\ said' = said \cup Held(prop'.outbox)
    /\ at' = "save"

\* The handler is over: the lease is released if it is still the worker's.
Leave == at' = "idle" /\ owner' = FALSE

\* message: load, append, save, without a lease.
SendMessage ==
    /\ at = "idle" /\ ~owner /\ Loads /\ made < MaxEntries /\ db.revision < MaxRevision
    /\ LET s == Appended(Loaded, made + 1)
       IN eng' = s /\ prop' = WithSummaries(s)
    /\ try' = [event |-> "user_message_appended", left |-> MaxTries, receipt |-> 0]
    /\ made' = made + 1 /\ said' = {made + 1} /\ at' = "save"
    /\ UNCHANGED <<rows, db, owner, ack, faults, refused>>

\* run, stream, resume: the session is loaded and the lease is taken; the run
\* of a dead worker is interrupted first.
StartRun ==
    /\ at = "idle" /\ Loads /\ made < MaxEntries /\ db.revision < MaxRevision
    /\ owner' = TRUE /\ eng' = Loaded
    /\ IF db.running
       THEN /\ prop' = Staged(Loaded, "run_interrupted", made + 1) /\ said' = {made + 1}
            /\ try' = [event |-> "run_interrupted", left |-> MaxTries, receipt |-> 0]
            /\ made' = made + 1 /\ at' = "save"
       ELSE at' = "ready" /\ said' = {} /\ UNCHANGED <<prop, try, made>>
    /\ UNCHANGED <<rows, db, ack, faults, refused>>

\* resume: the content and session_resumed.
Resume(content) ==
    /\ at = "ready" /\ made < MaxEntries
    /\ LET s == IF content THEN Appended(eng, made + 1) ELSE eng
       IN eng' = s /\ prop' = WithSummaries(s) /\ said' = said \cup Held(s.outbox)
    /\ try' = [event |-> "session_resumed", left |-> MaxTries, receipt |-> 0]
    /\ made' = IF content THEN made + 1 ELSE made
    /\ at' = "save"
    /\ UNCHANGED <<rows, db, owner, ack, faults, refused>>

\* The engine starts: its first checkpoint has the record of run_started.
Begin ==
    /\ at = "ready" /\ made < MaxEntries
    /\ LET s == Recorded(eng, "run_started", made + 1)
       IN eng' = s /\ prop' = WithSummaries(s)
    /\ try' = [event |-> "checkpoint", left |-> MaxTries, receipt |-> 0]
    /\ made' = made + 1 /\ said' = said \cup {made + 1} /\ at' = "save"
    /\ UNCHANGED <<rows, db, owner, ack, faults, refused>>

\* A message or an audit record.
Say(kind) ==
    /\ at = "work" /\ made < MaxEntries
    /\ eng' = IF kind = "message" THEN Appended(eng, made + 1) ELSE Recorded(eng, kind, made + 1)
    /\ made' = made + 1 /\ said' = said \cup {made + 1}
    /\ UNCHANGED <<rows, db, owner, prop, try, ack, at, faults, refused>>

\* compact accepts a summary of the messages after the goal up to the n-th.
AcceptSummary(n) ==
    /\ at = "work" /\ made < MaxEntries /\ n \in 2..Len(eng.memory)
    /\ \A i \in DOMAIN eng.outbox : eng.outbox[i].kind # "message"
    /\ LET kept == <<eng.memory[1]>> \o SubSeq(eng.memory, n + 1, Len(eng.memory))
           summary == [id |-> made + 1, prior |-> eng.ledger,
                       sources |-> [i \in 1..(n - 1) |-> eng.memory[i + 1].id],
                       retained |-> Held(Tail(kept))]
       IN eng' = [eng EXCEPT !.memory = kept, !.ledger = made + 1,
                             !.summaries = Append(@, summary)]
    /\ made' = made + 1 /\ said' = said \cup {made + 1}
    /\ UNCHANGED <<rows, db, owner, prop, try, ack, at, faults, refused>>

\* A checkpoint: emit saves a clone.
Checkpoint ==
    /\ at = "work" /\ Save(eng, "checkpoint")
    /\ UNCHANGED <<rows, db, owner, eng, ack, faults, refused>>

----------------------------------------------------------------------------
(* One try of a save *)

Clone == try.event = "checkpoint"

\* What save does with a result that is not an error.
Succeed(p) ==
    /\ prop' = p
    /\ IF Clone
       THEN /\ ack' = [next |-> p.next, memory |-> p.memory, summaries |-> p.committed,
                       reload |-> p.reload]
            /\ eng' = [eng EXCEPT !.revision = p.revision] /\ at' = "check" /\ UNCHANGED owner
       ELSE /\ eng' = p /\ UNCHANGED ack
            /\ CASE try.event \in {"run_interrupted", "session_resumed"} ->
                      at' = "ready" /\ UNCHANGED owner
                 [] try.event = "error" -> at' = "finish" /\ UNCHANGED owner
                 [] OTHER -> Leave

\* An error of the clone's save is an error of the engine; any other save that
\* fails ends the handler.  The staged outbox stays where it was.
Fail == IF Clone THEN at' = "error" /\ UNCHANGED owner ELSE Leave

\* A handler without a lease needs a session without an owner.
Current == eng.revision = db.revision /\ owner = (try.event # "user_message_appended")

\* An earlier try has committed.
FindReceipt ==
    /\ at = "save" /\ ~eng.reload /\ try.receipt # 0
    /\ Succeed(Saved(prop, try.receipt, db.revision # try.receipt))
    /\ UNCHANGED <<rows, db, try, made, faults, said, refused>>

\* The session must be loaded again, or the revision or the lease is not the
\* worker's any more, or save_inner refuses the transcript.
RefuseSave ==
    /\ at = "save"
    /\ eng.reload \/ (try.receipt = 0 /\ ~(Current /\ Acceptable(prop)))
    /\ refused' = (refused \/ (~eng.reload /\ Current)) /\ Fail
    /\ UNCHANGED <<rows, db, eng, prop, try, ack, made, faults, said>>

\* The last checkpoint of a run closes it, as do the handler's own saves.
RunningAfter(event) ==
    CASE event = "checkpoint" -> BOOLEAN
      [] HasRecord(event) \/ event = "error" -> {FALSE}
      [] OTHER -> {db.running}

\* COMMIT: its answer arrives, or is lost and the save is tried again, or was
\* lost at the last try and the handler gives up.
Commit(answered) ==
    /\ at = "save" /\ ~eng.reload /\ try.receipt = 0 /\ Current /\ Acceptable(prop)
    /\ db.revision < MaxRevision
    /\ rows' = Written(prop)
    /\ \E running \in RunningAfter(try.event) :
          db' = [WriteContext(prop, rows') EXCEPT !.running = running]
    /\ IF answered
       THEN /\ Succeed([Saved(prop, db.revision + 1, FALSE) EXCEPT
                          !.next = Len(rows') + 1, !.memory = db'.memory])
            /\ UNCHANGED <<try, faults>>
       ELSE /\ faults < MaxFaults /\ faults' = faults + 1
            /\ try' = [try EXCEPT !.receipt = db.revision + 1, !.left = @ - 1]
            /\ IF try.left > 1 THEN UNCHANGED <<at, owner>> ELSE Leave
            /\ UNCHANGED <<eng, prop, ack>>
    /\ UNCHANGED <<made, said, refused>>

\* A try fails without a commit: in transport, which is tried again, or in the
\* database (a statement, a deadlock), which is not.
TryFails(transport) ==
    /\ at = "save" /\ faults < MaxFaults /\ faults' = faults + 1
    /\ try' = [try EXCEPT !.left = @ - 1]
    /\ IF ~transport THEN Fail
       ELSE IF try.left > 1 THEN UNCHANGED <<at, owner>> ELSE Leave
    /\ UNCHANGED <<rows, db, eng, prop, ack, made, said, refused>>

----------------------------------------------------------------------------
(* After the clone was saved *)

\* emit returns: the engine takes the acknowledgement over.
Acknowledge ==
    /\ at = "check"
    /\ eng' = [Acknowledged(eng) EXCEPT !.outbox = IF ack.reload THEN @ ELSE <<>>]
    /\ at' = IF ack.reload THEN "error" ELSE "work"
    /\ UNCHANGED <<rows, db, owner, prop, try, ack, made, faults, said, refused>>

\* emit fails after the commit (the query for cancel_requested): the engine
\* does not know that its outbox was saved.
EmitFails ==
    /\ at = "check" /\ faults < MaxFaults /\ faults' = faults + 1 /\ at' = "error"
    /\ UNCHANGED <<rows, db, owner, eng, prop, try, ack, made, said, refused>>

\* The run is cancelled: acknowledge_committed_outboxes, then the handler's
\* last saves.
Cancelled(streamed) ==
    /\ at = "check" /\ eng' = [Acknowledged(eng) EXCEPT !.outbox = <<>>]
    /\ at' = IF streamed THEN "fail" ELSE "finish"
    /\ UNCHANGED <<rows, db, owner, prop, try, ack, made, faults, said, refused>>

\* The engine fails between two checkpoints.
EngineFails ==
    /\ at = "work" /\ faults < MaxFaults /\ faults' = faults + 1 /\ at' = "error"
    /\ UNCHANGED <<rows, db, owner, eng, prop, try, ack, made, said, refused>>

\* Mutant: every failure acknowledges the outbox, as a cancellation does.
HandleErrorAcknowledges(streamed) ==
    /\ at = "error"
    /\ IF streamed THEN at' = "fail" /\ eng' = [eng EXCEPT !.outbox = <<>>] /\ UNCHANGED owner
       ELSE Leave /\ UNCHANGED eng
    /\ UNCHANGED <<rows, db, prop, try, ack, made, faults, said, refused>>

\* A stream saves the failure with the engine's session; run only answers.
HandleError(streamed) ==
    /\ at = "error"
    /\ IF streamed THEN at' = "fail" /\ UNCHANGED owner ELSE Leave
    /\ UNCHANGED <<rows, db, eng, prop, try, ack, made, faults, said, refused>>

SaveFailure ==
    /\ at = "fail" /\ Save(eng, "error")
    /\ UNCHANGED <<rows, db, owner, eng, ack, faults, refused>>

SaveFinished ==
    /\ (at = "finish" \/ (at = "work" /\ eng.outbox = <<>>)) /\ made < MaxEntries
    /\ Save(eng, "run_finished")
    /\ UNCHANGED <<rows, db, owner, eng, ack, faults, refused>>

\* The worker's process dies.
Crash ==
    /\ at # "idle" /\ faults < MaxFaults /\ faults' = faults + 1 /\ at' = "idle"
    /\ UNCHANGED <<rows, db, owner, eng, prop, try, ack, made, said, refused>>

\* The lease has expired: another process ends the run and goes on.
TakeOver ==
    /\ owner /\ at # "idle" /\ Loads /\ faults < MaxFaults /\ faults' = faults + 1
    /\ made < MaxEntries /\ db.revision < MaxRevision
    /\ rows' = Append(rows, [id |-> made + 1, kind |-> "run_interrupted"])
    /\ db' = [db EXCEPT !.revision = @ + 1, !.context = db.revision + 1, !.next = Len(rows) + 2,
                        !.running = FALSE]
    /\ made' = made + 1 /\ owner' = FALSE
    /\ UNCHANGED <<eng, prop, try, ack, at, said, refused>>

TranscriptNext ==
    \/ SendMessage \/ StartRun \/ (\E content \in BOOLEAN : Resume(content)) \/ Begin
    \/ (\E kind \in {"message", "audit"} : Say(kind))
    \/ (\E n \in DOMAIN eng.memory : AcceptSummary(n)) \/ Checkpoint
    \/ FindReceipt \/ RefuseSave
    \/ (\E answered \in BOOLEAN : Commit(answered)) \/ (\E transport \in BOOLEAN : TryFails(transport))
    \/ Acknowledge \/ EmitFails \/ (\E streamed \in BOOLEAN : Cancelled(streamed) \/ HandleError(streamed))
    \/ EngineFails \/ SaveFailure \/ SaveFinished \/ Crash \/ TakeOver

TranscriptSpec == TranscriptInit /\ [][TranscriptNext]_transcriptVars

----------------------------------------------------------------------------
(* Properties *)

Kinds == {"message", "audit", "summary", "run_started", "run_finished", "run_interrupted"}

\* The rows, the context, the sessions in memory and the save in progress.
TranscriptTypeOK ==
    /\ rows \in Seq([id : 1..MaxEntries, kind : Kinds])
    /\ db.memory \in Seq([id : Nat, seq : Nat]) /\ db.revision \in 1..MaxRevision
    /\ eng.outbox \in Seq([id : Nat, kind : Kinds, seq : Nat])
    /\ {owner, eng.reload, prop.reload, refused} \subseteq BOOLEAN
    /\ at \in {"idle", "ready", "work", "save", "check", "error", "fail", "finish"}
    /\ try.left \in (IF at = "save" THEN 1 ELSE 0)..MaxTries /\ Ids \cup said \subseteq 1..made

\* Between two checkpoints the worker that still owns the session numbers its
\* outbox and its messages as the table will, in spite of summaries and event
\* records that only the saved clone had.
NumbersAgree ==
    at \in {"work", "ready"} /\ eng.revision = db.revision =>
      /\ eng.next = Len(rows) + Len(eng.outbox) + 1
      /\ \A i \in DOMAIN eng.outbox : eng.outbox[i].seq = Len(rows) + i
      /\ \A i \in DOMAIN eng.memory :
            eng.memory[i].id \in Ids => eng.memory[i].seq = SequenceOf(rows, eng.memory[i].id)

\* save_inner never refuses the outbox of the worker that owns the session at
\* the stored revision: a replay after a failed emit, a lost COMMIT or a
\* cancellation finds its records under the numbers it gave them.
NeverRefused == ~refused

\* When a save reports success, also one that found the receipt of an earlier
\* try or that replayed an outbox nobody acknowledged, every message, record and
\* summary the worker has made since it loaded the session is in the transcript.
SavedIsComplete == [][at = "save" /\ prop' # prop => said \subseteq Ids']_transcriptVars

\* The transcript has every identity once and, summaries apart, in the order
\* of creation, over all workers, replays and takeovers.
TranscriptInOrder ==
    /\ \A i, j \in DOMAIN rows : rows[i].id = rows[j].id => i = j
    /\ \A i, j \in DOMAIN rows :
          i < j /\ "summary" \notin {rows[i].kind, rows[j].kind} => rows[i].id < rows[j].id

\* Every committed session can be loaded again, after every failure: the
\* messages and the ledger of its context are in the transcript at the numbers
\* the context was sealed with, and the first one is the goal.
CommittedLoads == Loads /\ db.next = Len(rows) + 1 /\ db.memory[1].id = 1
=============================================================================
