------------------------------- MODULE Socket -------------------------------
(***************************************************************************)
(* One direction of an established connection: the SockInner::write of one *)
(* process, the TCP stream, and the SockInner::read loop of the other      *)
(* (src/src/common/socket.rs), as ActiveConnection drives them.            *)
(*                                                                         *)
(* A byte is a pair <<message, position>>; a frame is HeaderLen of them    *)
(* for the length field and one for each byte of the body.  Time is a      *)
(* counter: `aged' is the newest message older than MAX_MSG_AGE_SECS, so   *)
(* messages expire in the order they were given to `write'.                *)
(***************************************************************************)
EXTENDS Naturals, Sequences, FiniteSets, SequencesExt

CONSTANTS Priority,           \* the priorities used by the callers
          BodySize,           \* the sizes of serialised messages
          HeaderLen,          \* size_of::<u32>()
          MAX_PAYLOAD_SIZE,   \* the longest body the reader takes
          Window,             \* bytes the two kernel buffers hold
          MaxMsgs             \* bound: messages given to write

MSG_DROP_PRIORITY == 2

VARIABLES msgs,               \* the messages given to write: priority, size
          aged,               \* messages up to this one are too old
          write_queue,        \* per priority, the messages waiting
          current_write,      \* the bytes of the message being written
          writable_armed,     \* the writer is registered for writable
          flight,             \* bytes sent and not arrived
          received,           \* bytes arrived and not read
          readable_event,     \* an edge the reader has not been told of
          reading,            \* the reader is inside ActiveConnection::read
          read_buffer,
          read_len,
          tx,                 \* "up", or why the writer's side has ended
          rx,                 \* "up", or why the reader's side has ended
          started,            \* history: the messages taken to the stream
          delivered           \* history: the messages returned by read

writer == <<msgs, aged, write_queue, current_write, writable_armed, tx, started>>
reader == <<readable_event, reading, read_buffer, read_len, rx, delivered>>
vars == <<writer, flight, received, reader>>

(* The bytes of message m of the table ms.                                 *)
Frame(ms, m) == [k \in 1..(HeaderLen + ms[m].size) |-> <<m, k>>]

Init ==
    /\ msgs = <<>>
    /\ aged = 0
    /\ write_queue = [p \in Priority |-> <<>>]
    /\ current_write = <<>>
    /\ writable_armed = FALSE
    /\ flight = <<>>
    /\ received = <<>>
    /\ readable_event = FALSE
    /\ reading = FALSE
    /\ read_buffer = <<>>
    /\ read_len = 0
    /\ tx = "up"
    /\ rx = "up"
    /\ started = <<>>
    /\ delivered = <<>>

-----------------------------------------------------------------------------
(* SockInner::write                                                        *)

(* A mistaken Expired: every priority may be dropped.                      *)
ExpiredAny ==
    {p \in Priority : write_queue[p] # <<>> /\ Head(write_queue[p]) <= aged}

(* The queues whose oldest message is too old, and may be dropped.         *)
Expired ==
    {p \in Priority : /\ p >= MSG_DROP_PRIORITY
                      /\ write_queue[p] # <<>>
                      /\ Head(write_queue[p]) <= aged}

(* skip_while: everything from the first expired queue on is removed.      *)
WithoutExpired ==
    [p \in Priority |-> IF \E e \in Expired : e <= p THEN <<>>
                        ELSE write_queue[p]]

NonEmpty(q) == {p \in Priority : q[p] # <<>>}
First(q) == CHOOSE p \in NonEmpty(q) : \A other \in NonEmpty(q) : p <= other

(* A mistaken TakeNext: a waiting message replaces the one being written.  *)
TakeNextPreempts(q, ms) ==
    IF NonEmpty(q) = {}
    THEN [queue |-> q, data |-> current_write, started |-> started]
    ELSE LET p == First(q)
         IN  [queue |-> [q EXCEPT ![p] = Tail(@)],
              data |-> Frame(ms, Head(q[p])),
              started |-> Append(started, Head(q[p]))]

(* current_write stays if there is one; otherwise the front of the most    *)
(* urgent queue of q takes its place.                                      *)
TakeNext(q, ms) ==
    IF current_write # <<>>
    THEN [queue |-> q, data |-> current_write, started |-> started]
    ELSE LET p == First(q)
         IN  [queue |-> [q EXCEPT ![p] = Tail(@)],
              data |-> Frame(ms, Head(q[p])),
              started |-> Append(started, Head(q[p]))]

(* A mistaken StillToSend: the queues are not looked at.                   *)
StillToSendThis(left, q) == left # <<>>

(* Whether the socket is registered for writable.                          *)
StillToSend(left, q) == left # <<>> \/ NonEmpty(q) # {}

(* stream.write and the reregistration: what fits in the kernel's buffer   *)
(* goes, the rest stays in current_write.                                  *)
Transmit(q, ms) ==
    LET t == TakeNext(q, ms)
        room == Window - Len(flight) - Len(received)
        n == IF room < Len(t.data) THEN room ELSE Len(t.data)
    IN  /\ write_queue' = t.queue
        /\ started' = t.started
        /\ flight' = flight \o SubSeq(t.data, 1, n)
        /\ current_write' = SubSeq(t.data, n + 1, Len(t.data))
        /\ writable_armed' = StillToSend(current_write', t.queue)

(* write(Some((msg, priority))): Service::send, or a heartbeat.            *)
WriteMsg(p, size) ==
    /\ tx = "up"
    /\ Len(msgs) < MaxMsgs
    /\ msgs' = Append(msgs, [priority |-> p, size |-> size])
    /\ Transmit([WithoutExpired EXCEPT ![p] = Append(@, Len(msgs) + 1)], msgs')
    /\ UNCHANGED <<aged, tx, received, reader>>

(* ActiveConnection::ready with a writable event: write(None).             *)
WriteReady ==
    /\ tx = "up"
    /\ writable_armed
    /\ Len(flight) + Len(received) < Window
    /\ IF current_write = <<>> /\ NonEmpty(WithoutExpired) = {}
       THEN /\ write_queue' = WithoutExpired
            /\ writable_armed' = FALSE
            /\ UNCHANGED <<current_write, started, flight>>
       ELSE Transmit(WithoutExpired, msgs)
    /\ UNCHANGED <<msgs, aged, tx, received, reader>>

(* stream.write fails for good, or the state that owns the socket is       *)
(* terminated; dropping SockInner shuts the stream down.                   *)
CloseTx ==
    /\ tx = "up"
    /\ tx' = "closed"
    /\ writable_armed' = FALSE
    /\ UNCHANGED <<msgs, aged, write_queue, current_write, started,
                   flight, received, reader>>

(* A minute passes for the oldest message that was still young.            *)
Age ==
    /\ aged < Len(msgs)
    /\ aged' = aged + 1
    /\ UNCHANGED <<msgs, write_queue, current_write, writable_armed, tx,
                   started, flight, received, reader>>

-----------------------------------------------------------------------------
(* The stream and SockInner::read                                          *)

Arrive ==
    /\ flight # <<>>
    /\ received' = received \o flight
    /\ flight' = <<>>
    /\ readable_event' = TRUE
    /\ UNCHANGED <<writer, reading, read_buffer, read_len, rx, delivered>>

(* A mistaken Prohibitive: the longest body allowed is refused.            *)
ProhibitiveAtLimit(size) == size >= MAX_PAYLOAD_SIZE

Prohibitive(size) == size > MAX_PAYLOAD_SIZE

(* What read_from_buffer makes of a buffer: `msg' is the message it        *)
(* returns (0: Ok(None)), `err' the error, buf and len what it leaves.     *)
(* A length read from anything but a header, and a body that is not one    *)
(* message's, are the errors of a stream that has lost its framing.        *)
ReadFromBuffer(buf, len) ==
    LET none == [msg |-> 0, err |-> "none", buf |-> buf, len |-> len]
        m == buf[1][1]
        framed == SubSeq(buf, 1, HeaderLen) = SubSeq(Frame(msgs, m), 1, HeaderLen)
        size == IF len = 0 THEN msgs[m].size ELSE len
        body == IF len = 0 THEN SubSeq(buf, HeaderLen + 1, Len(buf)) ELSE buf
    IN  IF len = 0 /\ Len(buf) < HeaderLen THEN none
        ELSE IF len = 0 /\ ~framed THEN [none EXCEPT !.err = "Serialisation"]
        ELSE IF len = 0 /\ Prohibitive(size)
             THEN [none EXCEPT !.err = "PayloadSizeProhibitive", !.len = size]
        ELSE IF size > Len(body) THEN [none EXCEPT !.buf = body, !.len = size]
        ELSE IF SubSeq(body, 1, size) # SubSeq(Frame(msgs, body[1][1]), HeaderLen + 1,
                                               HeaderLen + size)
             THEN [none EXCEPT !.err = "Serialisation", !.buf = body, !.len = size]
        ELSE [msg |-> body[1][1], err |-> "none",
              buf |-> SubSeq(body, size + 1, Len(body)), len |-> 0]

(* The stream has ended: the writer is gone and its last byte is here.     *)
AtEnd == tx # "up" /\ flight = <<>>

(* SockInner::read: the buffer first; then everything the kernel has, and  *)
(* the buffer once more; the end of the stream is an error once the        *)
(* buffer holds no message.                                                *)
SocketRead ==
    LET first == ReadFromBuffer(read_buffer, read_len)
        again == ReadFromBuffer(first.buf \o received, first.len)
        ended == AtEnd /\ again.msg = 0 /\ again.err = "none"
    IN  IF first.msg # 0 \/ first.err # "none"
        THEN [r |-> first, left |-> received]
        ELSE [r |-> IF ended THEN [again EXCEPT !.err = "ZeroByteRead"] ELSE again,
              left |-> <<>>]

(* ActiveConnection::ready with a readable event.                          *)
ReadReady ==
    /\ rx = "up"
    /\ readable_event
    /\ ~reading
    /\ readable_event' = FALSE
    /\ reading' = TRUE
    /\ UNCHANGED <<writer, flight, received, read_buffer, read_len, rx, delivered>>

(* One turn of the loop in ActiveConnection::read.                         *)
ReadTurn ==
    /\ rx = "up"
    /\ reading
    /\ LET res == SocketRead
       IN  /\ read_buffer' = res.r.buf
           /\ read_len' = res.r.len
           /\ received' = res.left
           /\ reading' = (res.r.msg # 0)
           /\ rx' = IF res.r.err = "none" THEN "up" ELSE res.r.err
           /\ delivered' = IF res.r.msg = 0 THEN delivered
                           ELSE Append(delivered, res.r.msg)
    /\ UNCHANGED <<writer, flight, readable_event>>

(* ActiveConnection::ready with hup: terminate, whatever is unread.        *)
Hup ==
    /\ rx = "up"
    /\ ~reading
    /\ AtEnd
    /\ rx' = "hup"
    /\ UNCHANGED <<writer, flight, received, readable_event, reading,
                   read_buffer, read_len, delivered>>

Write == \E p \in Priority, size \in BodySize : WriteMsg(p, size)

Next == \/ Write \/ WriteReady \/ CloseTx \/ Age
        \/ Arrive \/ ReadReady \/ ReadTurn \/ Hup

(* Both event loops keep polling and TCP keeps moving bytes; nobody has to *)
(* send, close or let a minute pass.                                       *)
Fairness == /\ WF_vars(WriteReady)
            /\ WF_vars(Arrive)
            /\ WF_vars(ReadReady)
            /\ WF_vars(ReadTurn)

Spec == Init /\ [][Next]_vars
FairSpec == Spec /\ Fairness

-----------------------------------------------------------------------------
(* Properties                                                              *)

MsgId == 1..MaxMsgs
Byte == MsgId \X Nat

(* Type invariant of the pair of sockets.                                  *)
TypeOK ==
    /\ msgs \in Seq([priority : Priority, size : BodySize])
    /\ Len(msgs) <= MaxMsgs /\ aged \in 0..Len(msgs)
    /\ write_queue \in [Priority -> Seq(MsgId)]
    /\ \A s \in {current_write, flight, received, read_buffer} : s \in Seq(Byte)
    /\ \A b \in {writable_armed, readable_event, reading} : b \in BOOLEAN
    /\ read_len \in {0} \cup BodySize /\ (rx = "up" => read_len <= MAX_PAYLOAD_SIZE)
    /\ tx \in {"up", "closed"}
    /\ rx \in {"up", "hup", "ZeroByteRead", "Serialisation", "PayloadSizeProhibitive"}
    /\ started \in Seq(MsgId) /\ delivered \in Seq(MsgId)

(* However the writes are cut, queues dropped and reads split, the bytes   *)
(* the reader still has to see are exactly the rest of the messages taken  *)
(* to the stream, in order, less the header already turned into read_len:  *)
(* no message is cut short, repeated or mixed with another one.            *)
StreamIntact ==
    LET n == Len(delivered)
        rest == FlattenSeq([i \in 1..(Len(started) - n) |-> Frame(msgs, started[n + i])])
        taken == IF read_len = 0 THEN 0 ELSE HeaderLen
    IN  /\ IsPrefix(delivered, started)
        /\ rx = "up" => SubSeq(rest, taken + 1, Len(rest))
                           = read_buffer \o received \o flight \o current_write

(* The reader gives up only when the writer's side has ended, or because   *)
(* the message it has come to is longer than MAX_PAYLOAD_SIZE: it never    *)
(* takes body bytes for a length or one message's bytes for another's.     *)
ReaderFailsForCause ==
    \/ rx = "up"
    \/ rx \in {"hup", "ZeroByteRead"} /\ tx # "up"
    \/ /\ rx = "PayloadSizeProhibitive"
       /\ msgs[started[Len(delivered) + 1]].size > MAX_PAYLOAD_SIZE

(* The sockets implement the channel the callers rely on.                  *)
Channel == INSTANCE MessageChannel WITH
               accepted <- Len(msgs),
               queue <- write_queue,
               sending <- SubSeq(started, Len(delivered) + 1, Len(started)),
               open <- (tx = "up")
ImplementsChannel == Channel!Spec

(* A message more urgent than MSG_DROP_PRIORITY reaches the other side     *)
(* whatever is sent, expires or is dropped around it, unless one of the    *)
(* sides ends: no readiness event it depends on is ever lost.              *)
UrgentDelivered ==
    \A m \in MsgId :
        []<>(\/ ~(m <= Len(msgs) /\ msgs[m].priority < MSG_DROP_PRIORITY)
             \/ \E i \in 1..Len(delivered) : delivered[i] = m
             \/ tx # "up" \/ rx # "up")
=============================================================================
