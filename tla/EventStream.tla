---------------------------- MODULE EventStream ----------------------------
(***************************************************************************)
(* The events of one run on their way to clients: the streaming handler    *)
(* and its emit (stream_run of agent-rust/src/main.rs), the channel and    *)
(* the response body (sse.rs), and reconnection (events.rs, stream).       *)
(*                                                                         *)
(* The events of the run are numbered in commit order.  What the engine    *)
(* does between two events is DecisionLoop's, what makes a save fail is    *)
(* SessionStore's; here a save succeeds, fails, or has an unknown outcome. *)
(***************************************************************************)
EXTENDS Naturals, Sequences

CONSTANTS ChannelSize,   \* capacity of an event channel (32)
          PageLimit,     \* events read at once by a reconnected stream (1000)
          MaxEvents,     \* bound: events the engine emits
          Readers        \* reconnected streams

ASSUME StreamAssumption == {ChannelSize, PageLimit, MaxEvents} \subseteq Nat \ {0}

VARIABLES rows,       \* committed events, from the opening of the stream
          base,       \* how many of them come before the run and are not its own
          status,     \* of the run's row: "none" (not inserted), "running", "ended"
          cancel,     \* cancel_requested
          worker,     \* where the spawned task is
          chan,       \* the channel to the first client
          body,       \* its response body: "open", "ended" (end of stream seen),
                      \* "dropped" (before it), "closed" (after it)
          armed,      \* the body still holds the disconnect sender
          notice,     \* the disconnect watcher: "waiting", "told", "over"
          reader      \* per reconnected stream: position, page, channel, what it sent

\* History, read by the properties only: what the first client received, whether
\* a cancel was requested by POST, events emitted since cancel_requested was set.
VARIABLES got, asked, late

run == <<rows, base, status, cancel, worker>>
first == <<chan, body, armed, notice, got>>
vars == <<run, first, reader, asked, late>>

Unread == [pc |-> "new", start |-> 0, after |-> 0, page |-> <<>>, full |-> FALSE,
           chan |-> <<>>, got |-> <<>>, broken |-> FALSE]

\* The task begins with the setup events of a resumed or verbose run, if any.
Init ==
    /\ rows = 0 /\ base = 0 /\ status = "none" /\ cancel = FALSE
    /\ worker \in {"setup", "work"}
    /\ chan = <<>> /\ body = "open" /\ armed = TRUE /\ notice = "waiting" /\ got = <<>>
    /\ reader = [r \in Readers |-> Unread]
    /\ asked = FALSE /\ late = 0

----------------------------------------------------------------------------
(* The worker *)

\* What a save at the worker's place leaves in the run's row: the engine's first
\* checkpoint inserts it, one with a terminal status closes it, and so does the
\* failure.  A failure before the engine gave the run its id inserts nothing.
StatusAfter ==
    CASE worker = "work" -> IF status = "none" THEN {"running"} ELSE {status, "ended"}
      [] worker = "fail" -> IF status = "none" THEN {"none", "ended"} ELSE {"ended"}
      [] OTHER -> {status}

\* An event is committed; the events of the setup carry the id of an earlier run.
Commit ==
    /\ rows' = rows + 1 /\ status' \in StatusAfter
    /\ base' = IF worker = "setup" THEN rows + 1 ELSE base

\* The setup events, "restored" and the verbose one, are saved, then sent.
SaveSetup ==
    /\ worker = "setup" /\ Commit /\ worker' = "sendSetup"
    /\ UNCHANGED <<cancel, first, reader, asked, late>>

AfterSetup == IF base < 2 THEN {"setup", "work"} ELSE {"work"}

\* emit: the event is saved with the snapshot.
Emit ==
    /\ worker = "work" /\ rows <= MaxEvents
    /\ Commit /\ worker' = "check"
    /\ late' = IF cancel THEN late + 1 ELSE late
    /\ UNCHANGED <<cancel, first, reader, asked>>

\* Mutant: emit does not look at the request.
CheckNothing ==
    /\ worker = "check" /\ worker' = "send"
    /\ UNCHANGED <<rows, base, status, cancel, first, reader, asked, late>>

\* emit, after the save: a requested cancellation ends the run here.
Check ==
    /\ worker = "check" /\ worker' = IF cancel THEN "fail" ELSE "send"
    /\ UNCHANGED <<rows, base, status, cancel, first, reader, asked, late>>

\* emit, after the save: the query for the request fails.  The event is committed
\* and is not sent; the run fails.
CheckFails ==
    /\ worker = "check" /\ worker' = "fail"
    /\ UNCHANGED <<rows, base, status, cancel, first, reader, asked, late>>

\* A message on the stream: the committed event it shows, and the event id it
\* carries (0: none).
Put(row, id) == chan' = Append(chan, [row |-> row, id |-> id])

Room == body = "open" /\ Len(chan) < ChannelSize
Gone == body # "open"

\* emit, sent: the engine goes on, or was at its end, with the run's row closed.
Send ==
    /\ worker = "send" /\ Room /\ Put(rows, rows)
    /\ worker' \in IF status = "ended" THEN {"work", "finish"} ELSE {"work"}
    /\ UNCHANGED <<rows, base, status, cancel, body, armed, notice, got, reader, asked, late>>

\* emit, not sent: the receiver is gone, which is a cancellation.
SendGone ==
    /\ worker = "send" /\ Gone
    /\ cancel' = (cancel \/ status = "running") /\ worker' = "fail"
    /\ UNCHANGED <<rows, base, status, first, reader, asked, late>>

\* The engine, or a save of it, fails.
Fail ==
    /\ worker = "work" /\ worker' = "fail"
    /\ UNCHANGED <<rows, base, status, cancel, first, reader, asked, late>>

\* A save of the engine whose outcome is unknown, or a save of the setup, the
\* failure or the end that reports an error: the event is committed or not, and
\* the task gives up.
Lose ==
    /\ worker \in {"setup", "work", "fail", "finish"} /\ worker' = "sendLost"
    /\ Commit \/ UNCHANGED <<rows, base, status>>
    /\ UNCHANGED <<cancel, first, reader, asked, late>>

\* The error event is saved: with it the run's row is closed.
SaveFailure ==
    /\ worker = "fail" /\ Commit /\ worker' = "sendFailure"
    /\ UNCHANGED <<cancel, first, reader, asked, late>>

\* run_finished is saved.
SaveFinish ==
    /\ worker = "finish" /\ Commit /\ worker' = "sendFinish"
    /\ UNCHANGED <<cancel, first, reader, asked, late>>

\* Mutant: the worker waits for a receiver that is gone.
SendPlainWaiting(at, next, row, id) ==
    /\ worker = at /\ Room /\ Put(row, id)
    /\ worker' = next
    /\ UNCHANGED <<rows, base, status, cancel, body, armed, notice, got, reader, asked, late>>

\* The messages outside emit; a receiver that is gone is ignored.
SendPlain(at, next, row, id) ==
    /\ worker = at /\ worker' = next
    /\ \/ Room /\ Put(row, id)
       \/ Gone /\ UNCHANGED chan
    /\ UNCHANGED <<rows, base, status, cancel, body, armed, notice, got, reader, asked, late>>

\* decorate gives run_finished its event id; the error event is sent as it is.
Work ==
    \/ SaveSetup \/ (\E next \in AfterSetup : SendPlain("sendSetup", next, rows, rows))
    \/ Emit \/ Check \/ CheckFails \/ Send \/ SendGone \/ Fail \/ Lose \/ SaveFailure \/ SaveFinish
    \/ SendPlain("sendFailure", "finish", rows, 0) \/ SendPlain("sendFinish", "done", rows, rows)
    \/ SendPlain("sendLost", "done", 0, 0)

----------------------------------------------------------------------------
(* The first client *)

Receive ==
    /\ body = "open" /\ chan # <<>>
    /\ got' = Append(got, Head(chan)) /\ chan' = Tail(chan)
    /\ UNCHANGED <<run, body, armed, notice, reader, asked, late>>

\* Mutant: the end of the stream leaves the disconnect sender in place.
EndOfStreamArmed ==
    /\ body = "open" /\ chan = <<>> /\ worker = "done"
    /\ body' = "ended"
    /\ UNCHANGED <<run, chan, armed, notice, got, reader, asked, late>>

\* poll_next with every sender gone: the disconnect sender is discarded first.
EndOfStream ==
    /\ body = "open" /\ chan = <<>> /\ worker = "done"
    /\ body' = "ended" /\ armed' = FALSE
    /\ notice' = IF notice = "waiting" THEN "over" ELSE notice
    /\ UNCHANGED <<run, chan, got, reader, asked, late>>

\* The body is dropped, before the end of the stream or after it.
Drop ==
    /\ body \in {"open", "ended"} /\ body' = IF body = "open" THEN "dropped" ELSE "closed"
    /\ chan' = <<>>
    /\ armed' = FALSE /\ notice' = IF armed THEN "told" ELSE notice
    /\ UNCHANGED <<run, got, reader, asked, late>>

\* The watcher requests the cancellation of the run, if it is running.
Watch ==
    /\ notice = "told" /\ notice' = "over"
    /\ cancel' = (cancel \/ status = "running")
    /\ UNCHANGED <<rows, base, status, worker, chan, body, armed, got, reader, asked, late>>

\* POST cancel of this run.
Cancel ==
    /\ status = "running" /\ ~cancel /\ cancel' = TRUE /\ asked' = TRUE
    /\ UNCHANGED <<rows, base, status, worker, first, reader, late>>

----------------------------------------------------------------------------
(* A reconnected stream *)

Set(r, value) == reader' = [reader EXCEPT ![r] = value] /\ UNCHANGED <<run, first, asked, late>>

\* The run exists; the client asks for the events after the one it saw last.  A
\* cursor before the run's first event reads the same rows as base does.
Open(r) ==
    /\ reader[r].pc = "new" /\ status # "none"
    /\ \E after \in base..rows : Set(r, [reader[r] EXCEPT !.pc = "read", !.start = after, !.after = after])

\* One page of events after the cursor.
ReadRows(r) ==
    LET n == IF rows - reader[r].after > PageLimit THEN PageLimit ELSE rows - reader[r].after
    IN /\ reader[r].pc = "read"
       /\ Set(r, [reader[r] EXCEPT !.page = [i \in 1..n |-> reader[r].after + i], !.pc = "push",
                                   !.full = n = PageLimit])

\* The query fails: the stream ends as if all had been sent.
ReadFails(r) ==
    /\ reader[r].pc \in {"read", "status"}
    /\ Set(r, [reader[r] EXCEPT !.pc = "closed", !.broken = TRUE])

\* Mutant: the cursor stays where the page began.
PushKeepsCursor(r) ==
    /\ reader[r].pc = "push" /\ reader[r].page # <<>> /\ Len(reader[r].chan) < ChannelSize
    /\ Set(r, [reader[r] EXCEPT !.chan = Append(@, Head(reader[r].page)), !.page = Tail(@)])

\* One event goes into the channel, when it has room, and the cursor with it.
Push(r) ==
    /\ reader[r].pc = "push" /\ reader[r].page # <<>> /\ Len(reader[r].chan) < ChannelSize
    /\ LET id == Head(reader[r].page)
       IN Set(r, [reader[r] EXCEPT !.chan = Append(@, id), !.page = Tail(@), !.after = id])

PageDone(r) ==
    /\ reader[r].pc = "push" /\ reader[r].page = <<>>
    /\ Set(r, [reader[r] EXCEPT !.pc = IF reader[r].full THEN "read" ELSE "status"])

\* The status, read after the events; a running run is polled again.
ReadStatus(r) ==
    /\ reader[r].pc = "status"
    /\ Set(r, [reader[r] EXCEPT !.pc = IF status = "running" THEN "read" ELSE "closed"])

Fetch(r) ==
    /\ reader[r].pc \in {"read", "push", "status", "closed"} /\ reader[r].chan # <<>>
    /\ Set(r, [reader[r] EXCEPT !.got = Append(@, Head(reader[r].chan)), !.chan = Tail(@)])

\* The client leaves; the next send of the task fails and it returns.
Leave(r) ==
    /\ reader[r].pc \in {"read", "push", "status"}
    /\ Set(r, [reader[r] EXCEPT !.pc = "gone", !.chan = <<>>])

Reconnected(r) ==
    \/ Open(r) \/ ReadRows(r) \/ ReadFails(r) \/ Push(r) \/ PageDone(r) \/ ReadStatus(r)
    \/ Fetch(r) \/ Leave(r)

----------------------------------------------------------------------------
Next == Work \/ Receive \/ EndOfStream \/ Drop \/ Watch \/ Cancel \/ \E r \in Readers : Reconnected(r)

\* The tasks run; the client is free.
SlowSpec == Init /\ [][Next]_vars /\ WF_vars(Work) /\ WF_vars(Watch)

\* A client that does not drop its stream reads it.
Spec == SlowSpec /\ WF_vars(Receive \/ EndOfStream)

----------------------------------------------------------------------------
(* Properties *)

Messages == [row : Nat, id : Nat]

Streams ==
    [pc : {"new", "read", "push", "status", "closed", "gone"}, start : Nat, after : Nat,
     page : Seq(Nat), full : BOOLEAN, chan : Seq(Nat), got : Seq(Nat), broken : BOOLEAN]

\* The run's row and events, the two ends of the channels and the streams.
TypeOK ==
    /\ rows \in Nat /\ base \in Nat /\ status \in {"none", "running", "ended"}
    /\ cancel \in BOOLEAN /\ armed \in BOOLEAN /\ asked \in BOOLEAN /\ late \in Nat
    /\ worker \in {"setup", "sendSetup", "work", "check", "send", "fail", "finish", "sendFailure",
                   "sendFinish", "sendLost", "done"}
    /\ chan \in Seq(Messages) /\ got \in Seq(Messages)
    /\ body \in {"open", "ended", "dropped", "closed"}
    /\ notice \in {"waiting", "told", "over"}
    /\ reader \in [Readers -> Streams]

\* The channels and the pages stay within their capacities.
WithinCapacity ==
    /\ Len(chan) <= ChannelSize
    /\ \A r \in Readers : Len(reader[r].chan) <= ChannelSize /\ Len(reader[r].page) <= PageLimit

\* A reconnected stream gives its client the events after its cursor one by
\* one, none left out and none twice, over all pages (events.rs, stream).
ReadersInOrder ==
    \A r \in Readers :
        LET sent == reader[r].got \o reader[r].chan
        IN reader[r].pc # "gone" => sent = [i \in DOMAIN sent |-> reader[r].start + i]

\* The first client sees events in commit order, each once.  It misses one event
\* at most, the last before the error event: the one whose emit returned after
\* its save and before its send, for a cancellation or a failed query.
FirstStreamInOrder ==
    \A i \in DOMAIN got : i < Len(got) =>
        \/ got[i + 1].row = got[i].row + 1
        \/ got[i + 1].row = got[i].row + 2 /\ got[i + 1].id = 0
        \/ got[i + 1].row = 0

\* The streams of all clients, the first and those that reconnect.
StreamsInOrder == FirstStreamInOrder /\ ReadersInOrder

\* A run is cancelled only when somebody asked for it or when the client left
\* before the end of its stream: reading the stream to its end is neither.
NoSpuriousCancel == cancel => asked \/ body = "dropped"

\* After a cancellation is requested the engine emits one more event at most
\* ("stop at the next scheduling checkpoint", design_update.md).
StopsAtNextEvent == late <= 1

\* A run whose client reads or leaves comes to its end, and so does the stream.
StreamEnds == <>(worker = "done" /\ body # "open")

\* A requested cancellation ends the run.
CancelEndsRun == cancel ~> worker = "done"

\* A stream that closed without an error has sent every event of the ended run
\* after its cursor ("Reconnected SSE differs from retained PostgreSQL events").
ReconnectIsComplete ==
    \A r \in Readers :
        /\ reader[r].pc = "closed" /\ ~reader[r].broken /\ reader[r].chan = <<>>
        /\ worker = "done"
        => Len(reader[r].got) = rows - reader[r].start

\* Every durable event on the first stream carries its durable event id.
EventsCarryIds == \A i \in DOMAIN got : got[i].id = got[i].row
=============================================================================
