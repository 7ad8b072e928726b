-------------------------- MODULE EventStreamProofs --------------------------
(***************************************************************************)
(* Proofs about EventStream, for any capacity of the channels, any page    *)
(* size, any number of events and any number of reconnected streams.       *)
(*                                                                         *)
(* What a client has received and what its channel still holds are read as *)
(* one sequence.  Receiving does not change it; a send extends it, and the *)
(* invariant says, for every place the worker can be at, how its last row  *)
(* stands to the rows committed so far.                                    *)
(***************************************************************************)
EXTENDS EventStream, SequenceTheorems, TLAPS

\* Two messages that follow one another on the first stream.
Follows(m, n) ==
    \/ n.row = m.row + 1
    \/ n.row = m.row + 2 /\ n.id = 0
    \/ n.row = 0

\* The messages sent on the first stream so far, in order.
Sent == got \o chan
Ordered == \A i \in DOMAIN Sent : i < Len(Sent) => Follows(Sent[i], Sent[i + 1])

\* The last row sent, for the places where the worker may send again.
SentUpTo ==
    body = "open" /\ Len(Sent) > 0 =>
        LET last == Sent[Len(Sent)].row
        IN  /\ worker \in {"setup", "work", "finish"} => last = rows
            /\ worker \in {"sendSetup", "check", "send", "sendFinish"} => last + 1 = rows
            /\ worker = "fail" => last = rows \/ last + 1 = rows
            /\ worker = "sendFailure" => last + 1 = rows \/ last + 2 = rows

\* The body of the first stream, its disconnect sender and the watcher.
BodyInv ==
    /\ body \in {"ended", "closed"} => worker = "done"
    /\ armed => body = "open"
    /\ notice = "told" => body = "dropped"
    /\ cancel => asked \/ body = "dropped"

\* An engine that has emitted after the request does not come back to its work.
LateInv ==
    \/ late = 0
    \/ /\ late = 1 /\ cancel
       /\ worker \in {"check", "fail", "finish", "sendFailure", "sendFinish", "sendLost", "done"}

\* A reconnected stream v of a run with n events: what was sent, the cursor and
\* the rest of the page.
Continues(v, n) ==
    LET sent == v.got \o v.chan
    IN  /\ v.pc # "gone" => /\ \A i \in DOMAIN sent : sent[i] = v.start + i
                            /\ v.after = v.start + Len(sent)
        /\ v.pc = "new" => sent = <<>>
        /\ \A i \in DOMAIN v.page : v.page[i] = v.after + i
        /\ v.after + Len(v.page) <= n
        /\ v.pc \in {"new", "read", "status"} => v.page = <<>>

ReaderInv == \A r \in Readers : Continues(reader[r], rows)

IInv == TypeOK /\ WithinCapacity /\ Ordered /\ SentUpTo /\ BodyInv /\ LateInv /\ ReaderInv

----------------------------------------------------------------------------
(* Sequences *)

\* What was received and what is under way: an element moves over.
LEMMA MoveOver ==
    ASSUME NEW S, NEW g \in Seq(S), NEW c \in Seq(S), c # <<>>
    PROVE  /\ Head(c) \in S /\ Tail(c) \in Seq(S) /\ Len(Tail(c)) = Len(c) - 1
           /\ Append(g, Head(c)) \in Seq(S)
           /\ Append(g, Head(c)) \o Tail(c) = g \o c
<1>1. /\ Head(c) \in S /\ Tail(c) \in Seq(S) /\ Len(Tail(c)) = Len(c) - 1
      /\ Append(g, Head(c)) \in Seq(S) /\ Len(Append(g, Head(c))) = Len(g) + 1
      /\ Len(c) > 0
  OBVIOUS
<1> DEFINE left == Append(g, Head(c)) \o Tail(c)
<1>2. /\ left \in Seq(S) /\ g \o c \in Seq(S)
      /\ Len(left) = Len(g) + Len(c) /\ Len(g \o c) = Len(g) + Len(c)
  BY <1>1
<1>3. ASSUME NEW i \in 1..Len(left) PROVE left[i] = (g \o c)[i]
  BY <1>1, <1>2
<1>4. left = g \o c
  BY <1>2, <1>3, SeqEqual
<1> QED BY <1>1, <1>4

\* An element joins what is under way.
LEMMA JoinEnd ==
    ASSUME NEW S, NEW g \in Seq(S), NEW c \in Seq(S), NEW m \in S
    PROVE  /\ Append(c, m) \in Seq(S) /\ Len(Append(c, m)) = Len(c) + 1
           /\ g \o Append(c, m) = Append(g \o c, m)
<1>1. /\ Append(c, m) \in Seq(S) /\ Len(Append(c, m)) = Len(c) + 1
      /\ g \o c \in Seq(S) /\ Len(g \o c) = Len(g) + Len(c)
  OBVIOUS
<1> DEFINE left == g \o Append(c, m)
           right == Append(g \o c, m)
<1>2. /\ left \in Seq(S) /\ right \in Seq(S) /\ Len(left) = Len(g) + Len(c) + 1
      /\ Len(right) = Len(g) + Len(c) + 1
  BY <1>1
<1>3. ASSUME NEW i \in 1..Len(left) PROVE left[i] = right[i]
  BY <1>1, <1>2
<1>4. left = right
  BY <1>2, <1>3, SeqEqual
<1> QED BY <1>1, <1>4

----------------------------------------------------------------------------
(* The order of the first stream *)

LEMMA InitIInv == Init => IInv
<1> SUFFICES ASSUME Init PROVE IInv OBVIOUS
<1>1. /\ got = <<>> /\ chan = <<>> /\ <<>> \in Seq(Messages) /\ <<>> \in Seq(Nat)
      /\ <<>> \o <<>> = <<>> /\ Len(<<>>) = 0
  BY DEF Init
<1>2. Sent = <<>> /\ Len(Sent) = 0
  BY <1>1 DEF Sent
<1>3. Unread \in Streams
  BY DEF Unread, Streams
<1>4. TypeOK
  BY <1>1, <1>3 DEF Init, TypeOK
<1>5. WithinCapacity
  BY <1>1, StreamAssumption DEF Init, WithinCapacity, Unread
<1>6. Ordered /\ SentUpTo
  BY <1>2 DEF Ordered, SentUpTo
<1>7. BodyInv /\ LateInv
  BY DEF Init, BodyInv, LateInv
<1>8. ReaderInv
  <2> SUFFICES ASSUME NEW r \in Readers PROVE Continues(reader[r], rows)
    BY DEF ReaderInv
  <2>1. /\ reader[r].got = <<>> /\ reader[r].chan = <<>> /\ reader[r].page = <<>>
        /\ reader[r].start = 0 /\ reader[r].after = 0 /\ rows = 0
    BY DEF Init, Unread
  <2> QED BY <1>1, <2>1 DEF Continues
<1> QED BY <1>4, <1>5, <1>6, <1>7, <1>8 DEF IInv

\* A stream on which nothing is sent stays in order.
LEMMA OrderKept ==
    ASSUME TypeOK, Ordered, Sent' = Sent
    PROVE  Ordered'
BY DEF Ordered, Follows

\* A message that follows the last one sent.
LEMMA OrderExtended ==
    ASSUME TypeOK, Ordered, NEW m \in Messages,
           chan' = Append(chan, m), UNCHANGED got,
           Len(Sent) > 0 => Follows(Sent[Len(Sent)], m)
    PROVE  /\ Ordered' /\ chan' \in Seq(Messages) /\ Len(chan') = Len(chan) + 1
           /\ Len(Sent') = Len(Sent) + 1 /\ Sent'[Len(Sent')] = m
<1>1. /\ chan' \in Seq(Messages) /\ Len(chan') = Len(chan) + 1
      /\ Sent' = Append(Sent, m)
  BY JoinEnd DEF TypeOK, Sent
<1>2. Sent \in Seq(Messages)
  BY DEF Sent, TypeOK
<1>3. /\ Len(Sent') = Len(Sent) + 1 /\ Sent'[Len(Sent')] = m /\ Sent' \in Seq(Messages)
      /\ \A i \in 1..Len(Sent) : Sent'[i] = Sent[i]
      /\ DOMAIN Sent = 1..Len(Sent) /\ DOMAIN Sent' = 1..Len(Sent')
      /\ Len(Sent) \in Nat
  BY <1>1, <1>2
<1>4. ASSUME NEW i \in DOMAIN Sent', i < Len(Sent')
      PROVE  Follows(Sent[i], Sent'[i + 1]) /\ Sent'[i] = Sent[i]
  <2>1. i \in 1..Len(Sent) /\ Sent'[i] = Sent[i]
    BY <1>3, <1>4
  <2>2. CASE i = Len(Sent)
    <3>1. Sent'[i + 1] = m
      BY <1>3, <2>2
    <3> QED BY <2>1, <2>2, <3>1, <1>3
  <2>3. CASE i < Len(Sent)
    <3>1. i + 1 \in 1..Len(Sent)
      BY <2>1, <2>3, <1>3
    <3> QED BY <2>1, <2>3, <3>1, <1>3 DEF Ordered
  <2> QED BY <2>1, <2>2, <2>3, <1>3
<1>5. Ordered'
  BY <1>4 DEF Ordered, Follows
<1> QED BY <1>1, <1>3, <1>5

\* The reconnected streams look at the rows only, and those only grow.
LEMMA ReadersKept ==
    ASSUME TypeOK, ReaderInv, UNCHANGED reader, rows' \in Nat, rows' >= rows
    PROVE  ReaderInv'
<1> SUFFICES ASSUME NEW r \in Readers
             PROVE  Continues(reader[r], rows')
  BY DEF ReaderInv
<1>1. reader[r].after \in Nat /\ Len(reader[r].page) \in Nat /\ rows \in Nat
  BY DEF TypeOK, Streams
<1>2. Continues(reader[r], rows)
  BY DEF ReaderInv
<1>3. reader[r].after + Len(reader[r].page) <= rows'
  BY <1>1, <1>2 DEF Continues
<1> QED BY <1>2, <1>3 DEF Continues

----------------------------------------------------------------------------
(* The steps that send nothing on the first stream *)

LEMMA QuietStep ==
    ASSUME IInv,
           \/ SaveSetup \/ Emit \/ Check \/ CheckFails \/ SendGone \/ Fail \/ Lose \/ SaveFailure \/ SaveFinish
           \/ Watch \/ Cancel
    PROVE  IInv'
<1> USE DEF IInv
<1>0. /\ UNCHANGED <<chan, got, body, reader>> /\ Sent' = Sent
      /\ rows' \in Nat /\ rows' >= rows /\ cancel' \in BOOLEAN /\ (cancel => cancel')
  <2>1. UNCHANGED <<chan, got, body, reader>>
    BY DEF TypeOK, first, run, SaveSetup, Emit, Check, CheckFails, SendGone, Fail, Lose, SaveFailure,
           SaveFinish, Watch, Cancel
  <2>2. rows' \in Nat /\ rows' >= rows
    <3>1. rows' \in {rows, rows + 1}
      BY DEF first, run, SaveSetup, Emit, Check, CheckFails, SendGone, Fail, Lose, SaveFailure,
             SaveFinish, Watch, Cancel, Commit
    <3> QED BY <3>1 DEF TypeOK
  <2>3. cancel' = cancel \/ cancel' = TRUE \/ cancel' = (cancel \/ status = "running")
    BY DEF TypeOK, first, run, SaveSetup, Emit, Check, CheckFails, SendGone, Fail, Lose, SaveFailure,
           SaveFinish, Watch, Cancel
  <2>4. cancel' \in BOOLEAN /\ (cancel => cancel')
    BY <2>3 DEF TypeOK
  <2> QED BY <2>1, <2>2, <2>4 DEF Sent
<1>1. TypeOK'
  <2>1. late' \in Nat
    BY DEF TypeOK, first, run, SaveSetup, Emit, Check, CheckFails, SendGone, Fail, Lose, SaveFailure,
           SaveFinish, Watch, Cancel
  <2>3. armed' \in BOOLEAN /\ asked' \in BOOLEAN
    <3>1. armed' = armed /\ asked' \in {asked, TRUE}
      BY DEF first, run, SaveSetup, Emit, Check, CheckFails, SendGone, Fail, Lose, SaveFailure,
             SaveFinish, Watch, Cancel
    <3> QED BY <3>1 DEF TypeOK
  <2>2. /\ worker' \in {"setup", "sendSetup", "work", "check", "send", "fail", "finish",
                        "sendFailure", "sendFinish", "sendLost", "done"}
        /\ notice' \in {"waiting", "told", "over"}
    BY DEF TypeOK, first, run, SaveSetup, Emit, Check, CheckFails, SendGone, Fail, Lose, SaveFailure,
           SaveFinish, Watch, Cancel
  <2>4. base' \in Nat /\ status' \in {"none", "running", "ended"}
    <3>1. Commit \/ UNCHANGED <<base, status>>
      BY DEF first, run, SaveSetup, Emit, Check, CheckFails, SendGone, Fail, Lose, SaveFailure,
             SaveFinish, Watch, Cancel
    <3>2. CASE Commit
      BY <3>2 DEF TypeOK, Commit, StatusAfter
    <3> QED BY <3>1, <3>2 DEF TypeOK
  <2> QED BY <1>0, <2>1, <2>2, <2>3, <2>4 DEF TypeOK
<1>2. WithinCapacity'
  BY <1>0 DEF WithinCapacity
<1>3. Ordered'
  BY <1>0, OrderKept
<1>4. SentUpTo'
  <2> DEFINE last == Sent[Len(Sent)].row
  <2>1. SUFFICES ASSUME body = "open", Len(Sent) > 0 PROVE SentUpTo'
    BY <1>0 DEF SentUpTo
  <2>2. last \in Nat /\ rows \in Nat
    <3>1. Sent \in Seq(Messages) /\ Len(Sent) \in 1..Len(Sent)
      BY <2>1 DEF TypeOK, Sent
    <3>2. Sent[Len(Sent)] \in Messages
      BY <3>1
    <3> QED BY <3>2 DEF TypeOK, Messages
  <2>3. /\ worker \in {"setup", "work", "finish"} => last = rows
        /\ worker \in {"sendSetup", "check", "send", "sendFinish"} => last + 1 = rows
        /\ worker = "fail" => last = rows \/ last + 1 = rows
        /\ worker = "sendFailure" => last + 1 = rows \/ last + 2 = rows
    BY <2>1 DEF SentUpTo
  <2>4. last' = last
    BY <1>0
  <2> HIDE DEF last
  <2>5. /\ worker' \in {"setup", "work", "finish"} => last = rows'
        /\ worker' \in {"sendSetup", "check", "send", "sendFinish"} => last + 1 = rows'
        /\ worker' = "fail" => last = rows' \/ last + 1 = rows'
        /\ worker' = "sendFailure" => last + 1 = rows' \/ last + 2 = rows'
    <3>1. CASE SaveSetup
      BY <2>2, <2>3, <3>1 DEF SaveSetup, Commit
    <3>2. CASE Emit
      BY <2>2, <2>3, <3>2 DEF Emit, Commit
    <3>3. CASE Check
      BY <2>2, <2>3, <3>3 DEF Check
    <3>4. CASE SendGone
      BY <2>1, <3>4 DEF SendGone, Gone
    <3>5. CASE Fail
      BY <2>2, <2>3, <3>5 DEF Fail
    <3>6. CASE Lose
      BY <3>6 DEF Lose
    <3>7. CASE SaveFailure
      BY <2>2, <2>3, <3>7, <1>0 DEF SaveFailure, Commit
    <3>8. CASE SaveFinish
      BY <2>2, <2>3, <3>8 DEF SaveFinish, Commit
    <3>9. CASE Watch
      BY <2>3, <3>9, <1>0 DEF Watch
    <3>10. CASE Cancel
      BY <2>3, <3>10, <1>0 DEF Cancel
    <3>11. CASE CheckFails
      BY <2>2, <2>3, <3>11 DEF CheckFails
    <3> QED BY <3>1, <3>2, <3>3, <3>4, <3>5, <3>6, <3>7, <3>8, <3>9, <3>10, <3>11
  <2> QED BY <2>4, <2>5, <1>0 DEF SentUpTo, last
<1>5. BodyInv'
  <2>1. body \in {"ended", "closed"} => worker' = "done"
    BY DEF BodyInv, first, SaveSetup, Emit, Check, CheckFails, SendGone, Fail, Lose, SaveFailure, SaveFinish,
           Watch, Cancel
  <2>2. armed' => body = "open"
    BY DEF BodyInv, first, SaveSetup, Emit, Check, CheckFails, SendGone, Fail, Lose, SaveFailure, SaveFinish,
           Watch, Cancel
  <2>3. notice' = "told" => body = "dropped"
    BY DEF BodyInv, first, SaveSetup, Emit, Check, CheckFails, SendGone, Fail, Lose, SaveFailure, SaveFinish,
           Watch, Cancel
  <2>4. cancel' => asked' \/ body = "dropped"
    <3>1. CASE SendGone
      BY <3>1 DEF SendGone, Gone, BodyInv, TypeOK
    <3>2. CASE Watch
      BY <3>2 DEF Watch, BodyInv
    <3>3. CASE Cancel
      BY <3>3 DEF Cancel
    <3>4. CASE ~(SendGone \/ Watch \/ Cancel)
      BY <3>4 DEF BodyInv, first, SaveSetup, Emit, Check, CheckFails, Fail, Lose, SaveFailure, SaveFinish
    <3> QED BY <3>1, <3>2, <3>3, <3>4
  <2> QED BY <2>1, <2>2, <2>3, <2>4, <1>0 DEF BodyInv
<1>6. LateInv'
  <2>1. CASE Emit
    BY <2>1 DEF Emit, LateInv, TypeOK
  <2>2. CASE ~Emit
    <3>1. late' = late
      BY <2>2 DEF SaveSetup, Check, CheckFails, SendGone, Fail, Lose, SaveFailure, SaveFinish, Watch, Cancel
    <3>2. worker \in {"check", "fail", "finish", "sendFailure", "sendFinish", "sendLost", "done"}
          /\ cancel
          => worker' \in {"check", "fail", "finish", "sendFailure", "sendFinish", "sendLost", "done"}
      BY <2>2 DEF SaveSetup, Check, CheckFails, SendGone, Fail, Lose, SaveFailure, SaveFinish, Watch, Cancel
    <3> QED BY <3>1, <3>2, <1>0 DEF LateInv
  <2> QED BY <2>1, <2>2
<1>7. ReaderInv'
  BY <1>0, ReadersKept
<1> QED BY <1>1, <1>2, <1>3, <1>4, <1>5, <1>6, <1>7

----------------------------------------------------------------------------
(* The sends of the worker *)

\* A message that follows the last one, sent or thrown away with its receiver.
LEMMA SendStep ==
    ASSUME IInv, NEW row \in Nat, NEW id \in Nat,
           (Room /\ Put(row, id)) \/ (Gone /\ UNCHANGED chan),
           UNCHANGED <<rows, base, status, cancel, body, armed, notice, got, reader, asked, late>>,
           worker # "done",
           body = "open" /\ Len(Sent) > 0 => Follows(Sent[Len(Sent)], [row |-> row, id |-> id]),
           \/ worker' \in {"setup", "work", "finish"} /\ row = rows
           \/ worker' = "done",
           late = 0 \/ worker' \in {"finish", "done"}
    PROVE  IInv'
<1> USE DEF IInv
<1> DEFINE m == [row |-> row, id |-> id]
<1>1. m \in Messages
  BY DEF Messages
<1>2. BodyInv' /\ LateInv'
  BY DEF BodyInv, LateInv
<1>3. ReaderInv'
  BY ReadersKept DEF TypeOK
<1>4. CASE Room /\ Put(row, id)
  <2>1. /\ Ordered' /\ chan' \in Seq(Messages) /\ Len(chan') = Len(chan) + 1
        /\ Len(Sent') = Len(Sent) + 1 /\ Sent'[Len(Sent')] = m
    BY <1>1, <1>4, OrderExtended DEF Room, Put
  <2>2. TypeOK'
    BY <2>1 DEF TypeOK
  <2>3. WithinCapacity'
    <3>1. Len(chan) \in Nat /\ ChannelSize \in Nat
      BY StreamAssumption DEF TypeOK
    <3> QED BY <2>1, <1>4, <3>1 DEF WithinCapacity, Room
  <2>4. SentUpTo'
    BY <2>1 DEF SentUpTo
  <2> QED BY <2>1, <2>2, <2>3, <2>4, <1>2, <1>3
<1>5. CASE Gone /\ UNCHANGED chan
  <2>1. TypeOK' /\ WithinCapacity' /\ Sent' = Sent
    BY <1>5 DEF TypeOK, WithinCapacity, Sent
  <2>2. Ordered'
    BY <2>1, OrderKept
  <2>3. SentUpTo'
    BY <1>5 DEF SentUpTo, Gone
  <2> QED BY <2>1, <2>2, <2>3, <1>2, <1>3
<1> QED BY <1>4, <1>5

LEMMA SendsStep ==
    ASSUME IInv,
           \/ Send \/ (\E next \in AfterSetup : SendPlain("sendSetup", next, rows, rows))
           \/ SendPlain("sendFailure", "finish", rows, 0) \/ SendPlain("sendFinish", "done", rows, rows)
           \/ SendPlain("sendLost", "done", 0, 0)
    PROVE  IInv'
<1> USE DEF IInv
<1>1. rows \in Nat /\ 0 \in Nat
  BY DEF TypeOK
<1>2. ASSUME Len(Sent) > 0 PROVE Sent[Len(Sent)].row \in Nat
  <2>1. Sent \in Seq(Messages) /\ Len(Sent) \in 1..Len(Sent)
    BY <1>2 DEF TypeOK, Sent
  <2>2. Sent[Len(Sent)] \in Messages
    BY <2>1
  <2> QED BY <2>2 DEF Messages
<1>3. ASSUME worker \in {"sendSetup", "send", "sendFinish"}, body = "open" /\ Len(Sent) > 0, NEW id
      PROVE  Follows(Sent[Len(Sent)], [row |-> rows, id |-> id])
  BY <1>1, <1>2, <1>3 DEF SentUpTo, Follows
<1>9. ASSUME worker = "sendFailure", body = "open" /\ Len(Sent) > 0
      PROVE  Follows(Sent[Len(Sent)], [row |-> rows, id |-> 0])
  BY <1>1, <1>2, <1>9 DEF SentUpTo, Follows
<1>4. CASE Send
  <2>1. /\ worker = "send" /\ Room /\ Put(rows, rows) /\ worker' \in {"work", "finish"}
        /\ UNCHANGED <<rows, base, status, cancel, body, armed, notice, got, reader, asked, late>>
    BY <1>4 DEF Send
  <2>2. late = 0
    BY <2>1 DEF LateInv
  <2> QED BY <1>1, <1>3, <2>1, <2>2, SendStep
<1>5. ASSUME NEW next \in AfterSetup, SendPlain("sendSetup", next, rows, rows)
      PROVE  IInv'
  <2>1. /\ worker = "sendSetup" /\ worker' = next /\ next \in {"setup", "work"}
        /\ (Room /\ Put(rows, rows)) \/ (Gone /\ UNCHANGED chan)
        /\ UNCHANGED <<rows, base, status, cancel, body, armed, notice, got, reader, asked, late>>
    BY <1>5 DEF SendPlain, AfterSetup
  <2>2. late = 0
    BY <2>1 DEF LateInv
  <2> QED BY <1>1, <1>3, <2>1, <2>2, SendStep
<1>6. CASE SendPlain("sendFailure", "finish", rows, 0)
  <2>1. /\ worker = "sendFailure" /\ worker' = "finish"
        /\ (Room /\ Put(rows, 0)) \/ (Gone /\ UNCHANGED chan)
        /\ UNCHANGED <<rows, base, status, cancel, body, armed, notice, got, reader, asked, late>>
    BY <1>6 DEF SendPlain
  <2> QED BY <1>1, <1>9, <2>1, SendStep
<1>7. CASE SendPlain("sendFinish", "done", rows, rows)
  <2>1. /\ worker = "sendFinish" /\ worker' = "done"
        /\ (Room /\ Put(rows, rows)) \/ (Gone /\ UNCHANGED chan)
        /\ UNCHANGED <<rows, base, status, cancel, body, armed, notice, got, reader, asked, late>>
    BY <1>7 DEF SendPlain
  <2> QED BY <1>1, <1>3, <2>1, SendStep
<1>8. CASE SendPlain("sendLost", "done", 0, 0)
  <2>1. /\ worker = "sendLost" /\ worker' = "done"
        /\ (Room /\ Put(0, 0)) \/ (Gone /\ UNCHANGED chan)
        /\ UNCHANGED <<rows, base, status, cancel, body, armed, notice, got, reader, asked, late>>
    BY <1>8 DEF SendPlain
  <2>2. \A n : Follows(n, [row |-> 0, id |-> 0])
    BY DEF Follows
  <2> QED BY <1>1, <2>1, <2>2, SendStep
<1> QED BY <1>4, <1>5, <1>6, <1>7, <1>8

----------------------------------------------------------------------------
(* The first client *)

LEMMA ReceiveStep ==
    ASSUME IInv, Receive
    PROVE  IInv'
<1> USE DEF IInv
<1>1. /\ got' = Append(got, Head(chan)) /\ chan' = Tail(chan) /\ chan # <<>>
      /\ UNCHANGED <<rows, base, status, cancel, worker, body, armed, notice, reader, asked, late>>
  BY DEF Receive, run
<1>2. /\ got' \in Seq(Messages) /\ chan' \in Seq(Messages) /\ Len(chan') = Len(chan) - 1
      /\ Sent' = Sent
  BY <1>1, MoveOver DEF TypeOK, Sent
<1>3. TypeOK'
  BY <1>1, <1>2 DEF TypeOK
<1>4. WithinCapacity'
  <2>1. Len(chan) \in Nat /\ ChannelSize \in Nat
    BY StreamAssumption DEF TypeOK
  <2> QED BY <1>1, <1>2, <2>1 DEF WithinCapacity
<1>5. Ordered'
  BY <1>1, <1>2, OrderKept
<1>6. SentUpTo' /\ BodyInv' /\ LateInv'
  BY <1>1, <1>2 DEF SentUpTo, BodyInv, LateInv
<1>7. ReaderInv'
  BY <1>1, ReadersKept DEF TypeOK
<1> QED BY <1>3, <1>4, <1>5, <1>6, <1>7

LEMMA EndOfStreamStep ==
    ASSUME IInv, EndOfStream
    PROVE  IInv'
<1> USE DEF IInv
<1>1. /\ body' = "ended" /\ armed' = FALSE /\ worker = "done" /\ body = "open"
      /\ notice' = (IF notice = "waiting" THEN "over" ELSE notice)
      /\ UNCHANGED <<rows, base, status, cancel, worker, chan, got, reader, asked, late>>
  BY DEF EndOfStream, run
<1>2. TypeOK' /\ WithinCapacity' /\ Sent' = Sent
  BY <1>1 DEF TypeOK, WithinCapacity, Sent
<1>3. Ordered'
  BY <1>1, <1>2, OrderKept
<1>4. SentUpTo' /\ BodyInv' /\ LateInv'
  BY <1>1 DEF SentUpTo, BodyInv, LateInv, TypeOK
<1>5. ReaderInv'
  BY <1>1, ReadersKept DEF TypeOK
<1> QED BY <1>2, <1>3, <1>4, <1>5

\* What was under way is lost, and nothing is sent any more.
LEMMA DropStep ==
    ASSUME IInv, Drop
    PROVE  IInv'
<1> USE DEF IInv
<1>1. /\ body \in {"open", "ended"} /\ body' = (IF body = "open" THEN "dropped" ELSE "closed")
      /\ chan' = <<>> /\ armed' = FALSE /\ notice' = (IF armed THEN "told" ELSE notice)
      /\ UNCHANGED <<rows, base, status, cancel, worker, got, reader, asked, late>>
  BY DEF Drop, run
<1>2. TypeOK'
  <2>1. /\ chan' \in Seq(Messages) /\ body' \in {"open", "ended", "dropped", "closed"}
        /\ notice' \in {"waiting", "told", "over"}
    BY <1>1 DEF TypeOK
  <2> QED BY <1>1, <2>1 DEF TypeOK
<1>3. WithinCapacity'
  BY <1>1, StreamAssumption DEF WithinCapacity
<1>4. Ordered'
  <2>1. /\ Sent \in Seq(Messages) /\ Len(got) <= Len(Sent) /\ Len(got) \in Nat
        /\ DOMAIN Sent = 1..Len(Sent) /\ DOMAIN got = 1..Len(got)
        /\ \A i \in DOMAIN got : Sent[i] = got[i]
    BY DEF Sent, TypeOK
  <2>2. Sent' = got
    BY <1>1 DEF Sent, TypeOK
  <2>3. \A i \in DOMAIN got : i < Len(got) => Follows(got[i], got[i + 1])
    <3> SUFFICES ASSUME NEW i \in DOMAIN got, i < Len(got) PROVE Follows(got[i], got[i + 1])
      OBVIOUS
    <3>1. i \in DOMAIN Sent /\ i < Len(Sent) /\ i + 1 \in DOMAIN got
      BY <2>1
    <3>2. Follows(Sent[i], Sent[i + 1])
      BY <3>1 DEF Ordered
    <3> QED BY <2>1, <3>1, <3>2
  <2> QED BY <1>1, <2>2, <2>3 DEF Ordered, Follows
<1>5. SentUpTo' /\ BodyInv' /\ LateInv'
  BY <1>1 DEF SentUpTo, BodyInv, LateInv, TypeOK
<1>6. ReaderInv'
  BY <1>1, ReadersKept DEF TypeOK
<1> QED BY <1>2, <1>3, <1>4, <1>5, <1>6

----------------------------------------------------------------------------
(* The reconnected streams *)

\* A step of one stream touches nothing else.
LEMMA SetStep ==
    ASSUME IInv, NEW r \in Readers, NEW v \in Streams, Set(r, v), Continues(v, rows),
           Len(v.chan) <= ChannelSize, Len(v.page) <= PageLimit
    PROVE  IInv'
<1> USE DEF IInv
<1>1. /\ reader' = [reader EXCEPT ![r] = v]
      /\ UNCHANGED <<rows, base, status, cancel, worker, chan, body, armed, notice, got, asked, late>>
  BY DEF Set, run, first
<1>2. /\ reader' \in [Readers -> Streams]
      /\ \A q \in Readers : reader'[q] = IF q = r THEN v ELSE reader[q]
  BY <1>1 DEF TypeOK
<1>3. TypeOK' /\ Sent' = Sent
  BY <1>1, <1>2 DEF TypeOK, Sent
<1>4. WithinCapacity'
  BY <1>1, <1>2 DEF WithinCapacity
<1>5. Ordered'
  BY <1>1, <1>3, OrderKept
<1>6. SentUpTo' /\ BodyInv' /\ LateInv'
  BY <1>1, <1>3 DEF SentUpTo, BodyInv, LateInv
<1>7. ReaderInv'
  BY <1>1, <1>2 DEF ReaderInv
<1> QED BY <1>3, <1>4, <1>5, <1>6, <1>7

\* The parts of a stream, typed, and what the invariant says of it.
LEMMA StreamFacts ==
    ASSUME IInv, NEW r \in Readers
    PROVE  /\ reader[r] \in Streams /\ Continues(reader[r], rows)
           /\ Len(reader[r].chan) <= ChannelSize /\ Len(reader[r].page) <= PageLimit
           /\ rows \in Nat /\ ChannelSize \in Nat /\ PageLimit \in Nat
BY StreamAssumption DEF IInv, TypeOK, ReaderInv, WithinCapacity

LEMMA OpenStep ==
    ASSUME IInv, NEW r \in Readers, Open(r)
    PROVE  IInv'
<1>1. PICK after \in base..rows :
        Set(r, [reader[r] EXCEPT !.pc = "read", !.start = after, !.after = after])
  BY DEF Open
<1> DEFINE v == [reader[r] EXCEPT !.pc = "read", !.start = after, !.after = after]
<1>2. reader[r].pc = "new" /\ after \in Nat /\ after <= rows
  BY StreamFacts DEF Open, IInv, TypeOK
<1>3. v \in Streams
  BY <1>2, StreamFacts DEF Streams
<1>4. /\ v.pc = "read" /\ v.start = after /\ v.after = after
      /\ v.got = reader[r].got /\ v.chan = reader[r].chan /\ v.page = reader[r].page
  BY StreamFacts DEF Streams
<1>5. reader[r].got \o reader[r].chan = <<>> /\ reader[r].page = <<>>
  BY <1>2, StreamFacts DEF Continues, Streams
<1> HIDE DEF v
<1>6. Continues(v, rows)
  <2>1. v.got \o v.chan = <<>> /\ v.page = <<>> /\ v.after + 0 <= rows /\ v.after = v.start + 0
    BY <1>2, <1>4, <1>5
  <2>2. Len(<<>>) = 0 /\ DOMAIN <<>> = {}
    OBVIOUS
  <2> QED BY <2>1, <2>2 DEF Continues
<1>7. Set(r, v)
  BY <1>1 DEF v
<1> QED BY <1>3, <1>4, <1>6, <1>7, StreamFacts, SetStep

\* The page holds the rows right after the cursor, up to the last one committed.
LEMMA ReadRowsStep ==
    ASSUME IInv, NEW r \in Readers, ReadRows(r)
    PROVE  IInv'
<1> DEFINE n == IF rows - reader[r].after > PageLimit THEN PageLimit ELSE rows - reader[r].after
           p == [i \in 1..n |-> reader[r].after + i]
           v == [reader[r] EXCEPT !.page = p, !.pc = "push", !.full = n = PageLimit]
<1>1. reader[r].pc = "read" /\ Set(r, v)
  BY DEF ReadRows
<1>2. reader[r].page = <<>> /\ reader[r].after \in Nat /\ reader[r].after <= rows
  <2>1. reader[r].page = <<>> /\ reader[r].after + Len(reader[r].page) <= rows
    BY <1>1, StreamFacts DEF Continues
  <2>2. reader[r].after \in Nat
    BY StreamFacts DEF Streams
  <2> QED BY <2>1, <2>2, StreamFacts
<1>3. n \in Nat /\ n <= PageLimit /\ reader[r].after + n <= rows
  BY <1>2, StreamFacts
<1> HIDE DEF n
<1>4. p \in Seq(Nat) /\ Len(p) = n /\ DOMAIN p = 1..n /\ \A i \in 1..n : p[i] = reader[r].after + i
  <2>1. \A i \in 1..n : reader[r].after + i \in Nat
    BY <1>2, <1>3
  <2> QED BY <1>3, <2>1
<1> HIDE DEF p
<1>5. v \in Streams
  BY <1>4, StreamFacts DEF Streams
<1>6. /\ v.pc = "push" /\ v.start = reader[r].start /\ v.after = reader[r].after
      /\ v.got = reader[r].got /\ v.chan = reader[r].chan /\ v.page = p
  BY StreamFacts DEF Streams
<1> HIDE DEF v
<1>7. Continues(v, rows)
  BY <1>1, <1>3, <1>4, <1>6, StreamFacts DEF Continues
<1> QED BY <1>1, <1>3, <1>4, <1>5, <1>6, <1>7, StreamFacts, SetStep

\* The steps that move no event: what was sent, the cursor and the page stay.
LEMMA PlaceStep ==
    ASSUME IInv, NEW r \in Readers, ReadFails(r) \/ PageDone(r) \/ ReadStatus(r)
    PROVE  IInv'
<1>1. PICK v :
        /\ Set(r, v) /\ reader[r].pc \in {"read", "push", "status"}
        /\ reader[r].pc = "push" => reader[r].page = <<>>
        /\ \/ v = [reader[r] EXCEPT !.pc = "closed", !.broken = TRUE]
           \/ \E pc \in {"read", "status", "closed"} : v = [reader[r] EXCEPT !.pc = pc]
  <2>1. CASE ReadFails(r)
    BY <2>1 DEF ReadFails
  <2>2. CASE PageDone(r)
    BY <2>2 DEF PageDone
  <2>3. CASE ReadStatus(r)
    BY <2>3 DEF ReadStatus
  <2> QED BY <2>1, <2>2, <2>3
<1>2. v \in Streams
  BY <1>1, StreamFacts DEF Streams
<1>3. /\ v.pc \in {"read", "status", "closed"} /\ v.start = reader[r].start /\ v.after = reader[r].after
      /\ v.got = reader[r].got /\ v.chan = reader[r].chan /\ v.page = reader[r].page
  BY <1>1, StreamFacts DEF Streams
<1>4. Continues(v, rows)
  <2>1. reader[r].page = <<>>
    BY <1>1, StreamFacts DEF Continues
  <2>2. reader[r].pc # "gone" /\ v.pc # "gone" /\ v.pc # "new"
    BY <1>1, <1>3
  <2> QED BY <1>3, <2>1, <2>2, StreamFacts DEF Continues
<1> QED BY <1>1, <1>2, <1>3, <1>4, StreamFacts, SetStep

LEMMA LeaveStep ==
    ASSUME IInv, NEW r \in Readers, Leave(r)
    PROVE  IInv'
<1> DEFINE v == [reader[r] EXCEPT !.pc = "gone", !.chan = <<>>]
<1>1. Set(r, v)
  BY DEF Leave
<1>2. v \in Streams
  <2>1. <<>> \in Seq(Nat)
    OBVIOUS
  <2> QED BY <2>1, StreamFacts DEF Streams
<1>3. /\ v.pc = "gone" /\ v.after = reader[r].after /\ v.chan = <<>> /\ v.page = reader[r].page
  BY StreamFacts DEF Streams
<1> HIDE DEF v
<1>4. Continues(v, rows)
  BY <1>3, StreamFacts DEF Continues
<1>5. Len(v.chan) <= ChannelSize
  BY <1>3, StreamFacts
<1> QED BY <1>1, <1>2, <1>3, <1>4, <1>5, StreamFacts, SetStep

\* Receiving changes only where an event is, not the sequence of them.
LEMMA FetchStep ==
    ASSUME IInv, NEW r \in Readers, Fetch(r)
    PROVE  IInv'
<1> DEFINE g == reader[r].got
           c == reader[r].chan
           v == [reader[r] EXCEPT !.got = Append(@, Head(c)), !.chan = Tail(@)]
<1>1. Set(r, v) /\ c # <<>> /\ reader[r].pc \in {"read", "push", "status", "closed"}
  BY DEF Fetch
<1>2. g \in Seq(Nat) /\ c \in Seq(Nat)
  BY StreamFacts DEF Streams
<1>3. /\ Tail(c) \in Seq(Nat) /\ Len(Tail(c)) = Len(c) - 1
      /\ Append(g, Head(c)) \in Seq(Nat)
      /\ Append(g, Head(c)) \o Tail(c) = g \o c
  BY <1>1, <1>2, MoveOver
<1>4. v \in Streams
  BY <1>3, StreamFacts DEF Streams
<1>5. /\ v.pc = reader[r].pc /\ v.start = reader[r].start /\ v.after = reader[r].after
      /\ v.got = Append(g, Head(c)) /\ v.chan = Tail(c) /\ v.page = reader[r].page
  BY StreamFacts DEF Streams
<1> HIDE DEF v
<1>6. Continues(v, rows)
  <2>1. v.got \o v.chan = reader[r].got \o reader[r].chan
    BY <1>3, <1>5
  <2> QED BY <1>1, <1>5, <2>1, StreamFacts DEF Continues
<1>7. Len(v.chan) <= ChannelSize
  BY <1>2, <1>3, <1>5, StreamFacts
<1> QED BY <1>1, <1>4, <1>5, <1>6, <1>7, StreamFacts, SetStep

\* The head of the page is the event right after the cursor.
LEMMA PushStep ==
    ASSUME IInv, NEW r \in Readers, Push(r)
    PROVE  IInv'
<1> DEFINE g == reader[r].got
           c == reader[r].chan
           p == reader[r].page
           k == Head(p)
           s == g \o c
           v == [reader[r] EXCEPT !.chan = Append(@, k), !.page = Tail(@), !.after = k]
<1>1. Set(r, v) /\ p # <<>> /\ reader[r].pc = "push" /\ Len(c) < ChannelSize
  BY DEF Push
<1>2. /\ g \in Seq(Nat) /\ c \in Seq(Nat) /\ p \in Seq(Nat)
      /\ reader[r].after \in Nat /\ reader[r].start \in Nat
  BY StreamFacts DEF Streams
<1>3. /\ \A i \in DOMAIN p : p[i] = reader[r].after + i
      /\ reader[r].after + Len(p) <= rows /\ reader[r].after = reader[r].start + Len(s)
      /\ \A i \in DOMAIN s : s[i] = reader[r].start + i
  BY <1>1, StreamFacts DEF Continues
<1> HIDE DEF g, c, p, v
<1>4. /\ k \in Nat /\ k = p[1] /\ Tail(p) \in Seq(Nat) /\ Len(Tail(p)) = Len(p) - 1 /\ Len(p) \in Nat
      /\ 1 \in DOMAIN p /\ \A i \in DOMAIN Tail(p) : i + 1 \in DOMAIN p /\ Tail(p)[i] = p[i + 1] /\ i \in Nat
  BY <1>1, <1>2
<1> HIDE DEF k
<1>5. /\ Append(c, k) \in Seq(Nat) /\ Len(Append(c, k)) = Len(c) + 1
      /\ g \o Append(c, k) = Append(s, k)
  BY <1>2, <1>4, JoinEnd
<1>6. s \in Seq(Nat) /\ Len(s) \in Nat /\ DOMAIN s = 1..Len(s)
  BY <1>2
<1> HIDE DEF s
<1>7. v \in Streams
  BY <1>4, <1>5, StreamFacts DEF Streams, v, c, p
<1>8. /\ v.pc = "push" /\ v.start = reader[r].start /\ v.after = k
      /\ v.got = g /\ v.chan = Append(c, k) /\ v.page = Tail(p)
  BY <1>1, StreamFacts DEF Streams, v, g, c, p
<1>9. Continues(v, rows)
  <2>0. k = reader[r].after + 1
    BY <1>3, <1>4
  <2>1. v.got \o v.chan = Append(s, k)
    BY <1>5, <1>8 DEF s
  <2>2. /\ Len(Append(s, k)) = Len(s) + 1 /\ DOMAIN Append(s, k) = 1..(Len(s) + 1)
        /\ \A i \in 1..Len(s) : Append(s, k)[i] = s[i]
        /\ Append(s, k)[Len(s) + 1] = k
    BY <1>6, <1>4
  <2>3. k = reader[r].start + (Len(s) + 1)
    BY <1>2, <1>3, <1>6, <2>0
  <2>4. \A i \in DOMAIN Append(s, k) : Append(s, k)[i] = v.start + i
    <3> SUFFICES ASSUME NEW i \in 1..(Len(s) + 1) PROVE Append(s, k)[i] = reader[r].start + i
      BY <2>2, <1>8
    <3>1. CASE i = Len(s) + 1
      BY <2>2, <2>3, <3>1
    <3>2. CASE i \in 1..Len(s)
      BY <2>2, <1>3, <1>6, <3>2 DEF s
    <3> QED BY <3>1, <3>2, <1>6
  <2>5. v.after = v.start + Len(Append(s, k))
    BY <1>8, <2>2, <2>3
  <2>6. \A i \in DOMAIN v.page : v.page[i] = v.after + i
    <3>0. \A a, b \in Nat : a + (b + 1) = (a + 1) + b
      OBVIOUS
    <3> SUFFICES ASSUME NEW i \in DOMAIN Tail(p) PROVE Tail(p)[i] = k + i
      BY <1>8
    <3>1. Tail(p)[i] = reader[r].after + (i + 1) /\ i \in Nat
      BY <1>4, <1>3
    <3>2. reader[r].after \in Nat
      BY <1>2
    <3>3. reader[r].after + (i + 1) = (reader[r].after + 1) + i
      BY <3>0, <3>1, <3>2, Zenon
    <3> QED BY <3>1, <3>3, <2>0
  <2>7. v.after + Len(v.page) <= rows
    <3>1. ASSUME NEW a \in Nat, NEW l \in Nat, NEW n \in Nat, a + l <= n
          PROVE  (a + 1) + (l - 1) <= n
      BY <3>1
    <3>2. reader[r].after \in Nat /\ Len(p) \in Nat /\ rows \in Nat
      BY <1>2, <1>4, StreamFacts
    <3>3. (reader[r].after + 1) + (Len(p) - 1) <= rows
      BY <1>3, <3>1, <3>2
    <3> QED BY <1>4, <1>8, <2>0, <3>3
  <2> QED BY <1>8, <2>1, <2>4, <2>5, <2>6, <2>7 DEF Continues
<1>10. Len(v.chan) <= ChannelSize /\ Len(v.page) <= PageLimit
  <2>1. Len(c) \in Nat /\ Len(p) \in Nat /\ Len(p) <= PageLimit
    BY <1>2, StreamFacts DEF p
  <2> QED BY <1>1, <1>4, <1>5, <1>8, <2>1, StreamFacts
<1> QED BY <1>1, <1>7, <1>9, <1>10, SetStep

----------------------------------------------------------------------------
(* The theorems *)

LEMMA NextInv == IInv /\ [Next]_vars => IInv'
<1> SUFFICES ASSUME IInv, [Next]_vars PROVE IInv' OBVIOUS
<1>1. CASE Work
  BY <1>1, QuietStep, SendsStep DEF Work
<1>2. CASE Watch \/ Cancel
  BY <1>2, QuietStep
<1>3. CASE Receive
  BY <1>3, ReceiveStep
<1>4. CASE EndOfStream
  BY <1>4, EndOfStreamStep
<1>5. CASE Drop
  BY <1>5, DropStep
<1>6. ASSUME NEW r \in Readers, Reconnected(r) PROVE IInv'
  BY <1>6, OpenStep, ReadRowsStep, PlaceStep, PushStep, FetchStep, LeaveStep DEF Reconnected
<1>7. CASE UNCHANGED vars
  <2>1. /\ UNCHANGED <<rows, base, status, cancel, worker, chan, body, armed, notice, got>>
        /\ UNCHANGED <<reader, asked, late>>
    BY <1>7 DEF vars, run, first
  <2>2. TypeOK' /\ WithinCapacity'
    BY <2>1 DEF IInv, TypeOK, WithinCapacity
  <2>3. Ordered' /\ SentUpTo'
    BY <2>1 DEF IInv, Ordered, SentUpTo, Sent, Follows
  <2>4. BodyInv' /\ LateInv' /\ ReaderInv'
    BY <2>1 DEF IInv, BodyInv, LateInv, ReaderInv
  <2> QED BY <2>2, <2>3, <2>4 DEF IInv
<1> QED BY <1>1, <1>2, <1>3, <1>4, <1>5, <1>6, <1>7 DEF Next

\* The inductive invariant holds in every behaviour, slow clients included.
THEOREM Inductive == SlowSpec => []IInv
BY InitIInv, NextInv, PTL DEF SlowSpec

\* Every variable of the streams keeps its type.
THEOREM TypeCorrect == SlowSpec => []TypeOK
<1>1. IInv => TypeOK
  BY DEF IInv
<1> QED BY <1>1, Inductive, PTL

\* No channel holds more than its capacity and no page more than a page, however
\* slow the clients are (the bounded channels of sse.rs and events.rs).
THEOREM CapacitiesKept == SlowSpec => []WithinCapacity
<1>1. IInv => WithinCapacity
  BY DEF IInv
<1> QED BY <1>1, Inductive, PTL

\* Every client sees the events in commit order: the first one each once and with
\* a gap of one event at most, before the error event (emit returns between its
\* save and its send), one that reconnects every event after its cursor over all
\* pages (stream of events.rs).
THEOREM ClientsInOrder == SlowSpec => []StreamsInOrder
<1>1. ASSUME IInv PROVE FirstStreamInOrder
  <2>1. /\ Len(got) \in Nat /\ Len(got) <= Len(Sent) /\ Len(Sent) \in Nat
        /\ DOMAIN Sent = 1..Len(Sent) /\ DOMAIN got = 1..Len(got)
        /\ \A i \in DOMAIN got : Sent[i] = got[i]
    BY <1>1 DEF IInv, Sent, TypeOK
  <2> SUFFICES ASSUME NEW i \in DOMAIN got, i < Len(got) PROVE Follows(got[i], got[i + 1])
    BY DEF FirstStreamInOrder, Follows
  <2>2. i \in DOMAIN Sent /\ i < Len(Sent) /\ i + 1 \in DOMAIN got
    BY <2>1
  <2>3. Follows(Sent[i], Sent[i + 1])
    BY <1>1, <2>2 DEF IInv, Ordered
  <2> QED BY <2>1, <2>2, <2>3
<1>2. ASSUME IInv PROVE ReadersInOrder
  <2> SUFFICES ASSUME NEW r \in Readers, reader[r].pc # "gone",
                      NEW sent, sent = reader[r].got \o reader[r].chan
               PROVE  sent = [i \in DOMAIN sent |-> reader[r].start + i]
    BY DEF ReadersInOrder
  <2>1. \A i \in DOMAIN sent : sent[i] = reader[r].start + i
    BY <1>2, StreamFacts DEF Continues
  <2>2. sent \in Seq(Nat)
    BY <1>2, StreamFacts DEF Streams
  <2>3. sent \in [DOMAIN sent -> Nat]
    <3>1. Len(sent) \in Nat /\ DOMAIN sent = 1..Len(sent) /\ sent \in [1..Len(sent) -> Nat]
      BY <2>2, LenProperties
    <3> QED BY <3>1
  <2>4. sent = [i \in DOMAIN sent |-> sent[i]]
    BY <2>3
  <2> QED BY <2>1, <2>4
<1>3. IInv => StreamsInOrder
  BY <1>1, <1>2 DEF StreamsInOrder
<1> QED BY <1>3, Inductive, PTL

\* A run is cancelled only by a request or by a client that left before the end
\* of its stream: the disconnect sender is discarded at the end (poll_next).
THEOREM CancelIsMeant == SlowSpec => []NoSpuriousCancel
<1>1. IInv => NoSpuriousCancel
  BY DEF IInv, BodyInv, NoSpuriousCancel
<1> QED BY <1>1, Inductive, PTL

\* A requested cancellation lets the engine emit one event more at most (emit).
THEOREM CancelIsPrompt == SlowSpec => []StopsAtNextEvent
<1>1. IInv => StopsAtNextEvent
  BY DEF IInv, LateInv, StopsAtNextEvent
<1> QED BY <1>1, Inductive, PTL
=============================================================================
