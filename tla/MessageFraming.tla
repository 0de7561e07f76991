--------------------------- MODULE MessageFraming ---------------------------
(***************************************************************************)
(* The reading side of an established connection: how the bytes a peer      *)
(* sends become OnReceiveMessages and OnMalformedMessage (connectionbase.cpp *)
(* and message.cpp).                                                        *)
(*                                                                         *)
(* libevent reads into the input buffer while reading is enabled and the    *)
(* buffer is below the high watermark, and calls the read callback when it  *)
(* has read something and the buffer has reached the low one; the callback  *)
(* is deferred. read_cb_message moves both watermarks to fit the message    *)
(* that comes next. Nothing but an arrival calls the callback again, so     *)
(* whatever a callback leaves in the buffer must be less than the low       *)
(* watermark it leaves behind, and that not above the high one.             *)
(*                                                                         *)
(* The stream is a sequence of messages, each known by the offset of its    *)
(* end and by whether its start is other than message_start. In a network   *)
(* with chunk_size the messages are the chunks. Closing, and the other half *)
(* of the bufferevent, are in module Connection.                            *)
(***************************************************************************)
EXTENDS Integers, Sequences

CONSTANT Setups   \* network configurations, each with a peer's stream

Message == [end : Nat, bad : BOOLEAN]

\* size_needed is header_msg_size_offset + header_msg_size_size. early is how much
\* of the stream is in the input before InitConnection: what a proxy sent behind
\* its last reply.
SetupType == [chunk_size : Nat, header_size : Nat, size_needed : Nat,
              message_max_size : Nat, stream : Seq(Message), early : Nat]

\* Offset of the end of message k of stream s, the beginning of message k + 1.
EndOf(s, k) == IF k = 0 THEN 0 ELSE s[k].end

\* A message is at least its header, a chunk is a chunk; the buffer may at least
\* hold what the size of a message is read from.
ASSUME SetupsAssumption ==
    /\ Setups \subseteq SetupType
    /\ \A s \in Setups :
        /\ s.early <= EndOf(s.stream, Len(s.stream))
        /\ s.chunk_size = 0 =>
            /\ 0 < s.size_needed /\ s.size_needed <= s.header_size
            /\ s.message_max_size = 0 \/ s.size_needed <= s.message_max_size
        /\ \A k \in 1 .. Len(s.stream) :
            LET size == s.stream[k].end - EndOf(s.stream, k - 1)
            IN  IF s.chunk_size = 0 THEN s.header_size <= size ELSE size = s.chunk_size

VARIABLES
    setup,      \* never changes
    open,       \* the connection has its bufferevent and its callbacks
    received,   \* bytes of the stream read from the socket
    taken,      \* messages taken out of the input
    low, high,  \* the watermarks for reading; 0: no high one
    reading,    \* EV_READ is enabled
    eof,        \* nothing will be read from the socket any more
    pending,    \* deferred callbacks: "read", "event"
    app_msgs,       \* messages the application was given
    app_malformed   \* it was told OnMalformedMessage

input == <<received, taken>>
marks == <<low, high>>
app == <<app_msgs, app_malformed>>
vars == <<setup, open, input, marks, reading, eof, pending, app>>

max == setup.message_max_size
Count == Len(setup.stream)
Offset(k) == EndOf(setup.stream, k)
Size(k) == Offset(k) - Offset(k - 1)

\* evbuffer_get_length(input), if k messages have been taken out.
LengthAfter(k) == received - Offset(k)
Length == LengthAfter(taken)

\* bufferevent_inbuf_wm_cb, bufferevent_setwatermark: no more is read.
Suspended == high # 0 /\ Length >= high

Init ==
    /\ setup \in Setups
    /\ open = TRUE
    /\ received = setup.early /\ taken = 0
    /\ IF setup.chunk_size > 0 THEN low = setup.chunk_size /\ high = 0
                               ELSE low = setup.size_needed /\ high = max
    /\ reading = TRUE /\ eof = FALSE
    /\ pending = {}
    /\ app_msgs = 0 /\ app_malformed = FALSE

-----------------------------------------------------------------------------
(* libevent. *)

\* n bytes are read; the read callback is deferred if there are enough.
Arrive(n) ==
    /\ open /\ reading /\ ~eof
    /\ high # 0 => Length + n <= high
    /\ received + n <= Offset(Count)
    /\ received' = received + n
    /\ pending' = IF Length + n >= low THEN pending \cup {"read"} ELSE pending
    /\ UNCHANGED <<setup, open, taken, marks, reading, eof, app>>

\* The peer closes, reading fails or times out; or writing does.
Fails(onRead) ==
    /\ open
    /\ onRead => reading /\ ~Suspended
    /\ eof' = (eof \/ onRead)
    /\ pending' = pending \cup {"event"}
    /\ UNCHANGED <<setup, open, input, marks, reading, app>>

-----------------------------------------------------------------------------
(* The API; DisconnectInt for reasons outside this module. *)

PauseRecv ==
    /\ open
    /\ reading' = FALSE
    /\ UNCHANGED <<setup, open, input, marks, eof, pending, app>>

UnpauseRecv ==
    /\ open
    /\ reading' = TRUE
    /\ UNCHANGED <<setup, open, input, marks, eof, pending, app>>

DisconnectInt ==
    /\ open' = FALSE
    /\ reading' = FALSE
    /\ pending' = {}
    /\ UNCHANGED <<setup, eof>>

Disconnect ==
    /\ open
    /\ DisconnectInt
    /\ UNCHANGED <<input, marks, app>>

\* The deferred callback looks at reading first.
event_cb ==
    /\ open /\ "event" \in pending /\ "read" \notin pending
    /\ DisconnectInt
    /\ UNCHANGED <<input, marks, app>>

-----------------------------------------------------------------------------
(* first_complete_message_size, when k messages have been taken out: what it *)
(* finds out about the next one.                                             *)

HeaderIn(k) == k < Count /\ LengthAfter(k) >= setup.size_needed
BadStart(k) == HeaderIn(k) /\ setup.stream[k + 1].bad
SizeKnown(k) == HeaderIn(k) /\ ~BadStart(k)
Complete(k) == SizeKnown(k) /\ LengthAfter(k) >= Size(k + 1)
TooBig(k) == SizeKnown(k) /\ max > 0 /\ Size(k + 1) > max
Deliverable(k) == Complete(k) /\ ~TooBig(k)

\* Mutant: one message a callback.
LoopEndsAt_Once(k) ==
    IF Deliverable(taken) THEN k = taken + 1 ELSE k = taken
\* The loop of read_cb_message stops when k messages are out of the input.
LoopEndsAt(k) ==
    /\ \A i \in taken .. k - 1 : Deliverable(i)
    /\ ~Deliverable(k)

\* Mutant: the watermark of the last message stays.
SetMarks_Stay(k) ==
    IF SizeKnown(k) THEN low' = Size(k + 1) /\ high' = Size(k + 1) + max
    ELSE UNCHANGED marks
\* Mutant: the header is counted twice.
SetMarks_HeaderTwice(k) ==
    IF SizeKnown(k) THEN /\ low' = Size(k + 1) + setup.header_size
                         /\ high' = Size(k + 1) + max
    ELSE IF BadStart(k) THEN UNCHANGED marks
    ELSE low' = setup.size_needed /\ high' = max
SetMarks(k) ==
    IF SizeKnown(k) THEN low' = Size(k + 1) /\ high' = Size(k + 1) + max
    ELSE IF BadStart(k) THEN UNCHANGED marks
    ELSE low' = setup.size_needed /\ high' = max

\* Mutant: nothing is delivered with a malformed message.
read_cb_message_DropsBefore(k) ==
    /\ open /\ "read" \in pending
    /\ setup.chunk_size = 0
    /\ LoopEndsAt(k)
    /\ SetMarks(k)
    /\ taken' = IF TooBig(k) /\ Complete(k) THEN k + 1 ELSE k
    /\ UNCHANGED received
    /\ IF TooBig(k) \/ BadStart(k)
       THEN app_malformed' = TRUE /\ DisconnectInt /\ UNCHANGED app_msgs
       ELSE /\ pending' = pending \ {"read"}
            /\ app_msgs' = k
            /\ UNCHANGED <<setup, open, reading, eof, app_malformed>>

\* OnReceiveMessages for the messages before k, if any; then a malformed one ends
\* the connection.
read_cb_message(k) ==
    /\ open /\ "read" \in pending
    /\ setup.chunk_size = 0
    /\ LoopEndsAt(k)
    /\ SetMarks(k)
    /\ taken' = IF TooBig(k) /\ Complete(k) THEN k + 1 ELSE k
    /\ UNCHANGED received
    /\ app_msgs' = k
    /\ IF TooBig(k) \/ BadStart(k)
       THEN app_malformed' = TRUE /\ DisconnectInt
       ELSE /\ pending' = pending \ {"read"}
            /\ UNCHANGED <<setup, open, reading, eof, app_malformed>>

\* As many chunks as there are.
read_cb_chunk(k) ==
    /\ open /\ "read" \in pending
    /\ setup.chunk_size > 0
    /\ k >= taken /\ LengthAfter(k) >= 0
    /\ LengthAfter(k) < setup.chunk_size
    /\ taken' = k
    /\ app_msgs' = k
    /\ pending' = pending \ {"read"}
    /\ UNCHANGED <<setup, open, received, marks, reading, eof, app_malformed>>

-----------------------------------------------------------------------------
ReadCallback == \E k \in taken .. Count : read_cb_message(k) \/ read_cb_chunk(k)
Arrival == \E n \in 1 .. Offset(Count) : Arrive(n)

Next ==
    \/ Arrival
    \/ \E onRead \in BOOLEAN : Fails(onRead)
    \/ PauseRecv \/ UnpauseRecv \/ Disconnect
    \/ ReadCallback
    \/ event_cb

Spec == Init /\ [][Next]_vars

\* The event thread runs what is deferred, and the socket is polled for as long
\* as it may be read; the peer sends all of its stream.
Fairness == WF_vars(ReadCallback) /\ WF_vars(event_cb) /\ WF_vars(Arrival)

FairSpec == Spec /\ Fairness

-----------------------------------------------------------------------------
(* Properties. *)

\* Types; no callback takes more out of the input than there is.
TypeOK ==
    /\ setup \in Setups
    /\ {open, reading, eof, app_malformed} \subseteq BOOLEAN
    /\ pending \subseteq {"read", "event"}
    /\ taken \in 0 .. Count /\ app_msgs \in 0 .. Count
    /\ received \in 0 .. Offset(Count)
    /\ Length >= 0
    /\ low \in Nat /\ high \in Nat

\* handler.h, OnReceiveMessages: "Called when at least one complete message has
\* been received". A message that is complete, or recognisably malformed, does not
\* lie in the input without a callback on its way.
NothingWithheldAtAll ==
    open /\ taken < Count /\
        (IF setup.chunk_size = 0
         THEN Complete(taken) \/ TooBig(taken) \/ BadStart(taken)
         ELSE Length >= setup.chunk_size)
    => "read" \in pending

\* It holds of what is read once the connection has its callbacks.
NothingWithheld == setup.early = 0 => NothingWithheldAtAll

\* The two watermarks never lock each other out: when the buffer is too full to
\* be read into, the callback that empties it is on its way.
NeverStuck == setup.early = 0 /\ open /\ Suspended => "read" \in pending

\* Between two callbacks, the rest of the next message can come: there is more of the stream,
\* and the high watermark leaves room for it.
RestCanArrive ==
    setup.early = 0 /\ open /\ taken < Count /\ "read" \notin pending =>
        received < Offset(Count) /\ ~Suspended

\* A peer makes a connection buffer no more than two messages of the maximal size.
BoundedInput ==
    open /\ setup.chunk_size = 0 /\ max > 0 /\ setup.early = 0 => Length <= 2 * max

\* The input between two callbacks of read_cb_message: what is taken was there, and the
\* watermarks that bound it leave a way to empty it.
Consistent == TypeOK /\ NeverStuck /\ RestCanArrive /\ BoundedInput

\* Whether the application may be given message k; any chunk it may.
WellFormed(k) ==
    setup.chunk_size = 0 => ~setup.stream[k].bad /\ (max > 0 => Size(k) <= max)
Messages == [k \in 1 .. Count |-> WellFormed(k)]
ArrivedWhole == {k \in 1 .. Count : Offset(k) <= received}

\* handler.h, OnReceiveMessages, OnMalformedMessage: however the stream is cut up, the
\* application is given its messages whole, once, in order and none behind a malformed one;
\* after OnMalformedMessage or the end of the connection it hears no more.
M == INSTANCE MessageContract WITH stream <- Messages, arrived <- ArrivedWhole
MessagesAsPromised == M!Contract

\* However the peer cuts its stream up and however often the application pauses:
\* if it does not stay paused, it is given all of the stream, or the connection ends.
StreamDelivered ==
    <>[]reading /\ setup.early = 0 => <>(~open \/ app_msgs = Count)
=============================================================================
