----------------------------- MODULE Connection -----------------------------
(***************************************************************************)
(* ConnectionBase (src/connectionbase.cpp) from the moment it is connected *)
(* to the moment the handler destroys it or makes it retry: the events it   *)
(* activates for itself, its write buffer with the callbacks that watch it, *)
(* the two ways to close it.                                               *)
(*                                                                         *)
(* The event thread runs what is in `queue`, libevent's queue of active     *)
(* events restricted to this connection, first in first out; between two of *)
(* them other connections' callbacks run, and from those, or from other     *)
(* threads, the application calls the API. With BEV_OPT_DEFER_CALLBACKS a   *)
(* bufferevent callback is not run when its condition arises: the condition *)
(* is recorded (`pending`), a deferred callback is queued, and it runs      *)
(* whatever callback is in force by then. The deferred callback looks at    *)
(* reading, writing and events in this order; the three stand in `queue` as *)
(* "read", "write", "event", always queued together.                       *)
(*                                                                         *)
(* DisconnectInt is two steps: CConnectionHandlerInt::OnDisconnected takes  *)
(* the connection out of m_connected, under m_conn_mutex, only after        *)
(* DisconnectInt has deleted the events, and in a threaded handler another  *)
(* thread may find the connection in between.                              *)
(*                                                                         *)
(* Sizes are in units; the id, the rate limits and the byte counts are left *)
(* out. What the bytes are is left out too: the read callback finds the     *)
(* input well formed or not.                                               *)
(***************************************************************************)
EXTENDS Integers, Sequences, FiniteSets

CONSTANTS
    Options,          \* settings and uses of a connection, see `opts`
    nMaxSendBuffer,   \* the connection's option
    Sizes,            \* sizes the application passes to Send
    MaxOutput,        \* bound: length of the output buffer
    MaxSends,         \* bound: calls of Send
    MaxQueue          \* bound: the API is called while the queue is shorter than this

\* threaded is m_enable_threading; fPersistent the connection's option, if it is
\* outgoing; sendsAfterClose says whether the application sends after
\* CloseConnection(id, false).
AllOptions == [threaded : BOOLEAN, fPersistent : BOOLEAN, sendsAfterClose : BOOLEAN]

ASSUME ConstantsAssumption ==
    /\ Options \subseteq AllOptions
    /\ nMaxSendBuffer \in Nat \ {0}
    /\ Sizes \subseteq Nat \ {0}
    /\ MaxOutput \in Nat
    /\ MaxSends \in Nat
    /\ MaxQueue \in Nat

VARIABLES
    opts,       \* the options, which never change
    state,      \* "connected"; "closing": inside DisconnectInt, not yet erased
                \* from m_connected; "retrying": in m_connecting, without m_bev;
                \* "gone"
    queue,      \* the active events of this connection
    ping_timer, \* whether m_ping_timeout_func is added
    output,     \* length of m_bev's output buffer
    low,        \* m_bev's low watermark for writing
    reading, writing,           \* EV_READ, EV_WRITE enabled on m_bev
    readcb, writecb, eventcb,   \* m_bev's callbacks: set or not; which
    pending,    \* conditions the deferred callback has yet to look at
    sends,      \* calls of Send
    app_full,   \* the application was told OnWriteBufferFull, not ...Ready
    app_finish  \* it has called CloseConnection(id, false)

bev == <<output, low, reading, writing, readcb, writecb, eventcb, pending>>
app == <<opts, sends, app_full, app_finish>>
vars == <<state, queue, ping_timer, bev, app>>

OwnEvents == {"disconnect", "wait", "check", "ping"}  \* the CEvents
Deferred == <<"read", "write", "event">>
Tokens == OwnEvents \cup {"readable", "writable", "read", "write", "event"}

Queued(e) == \E i \in DOMAIN queue : queue[i] = e
\* event_active: nothing happens to an event that is active already.
Activate(e) == IF Queued(e) THEN queue ELSE Append(queue, e)
\* event_del of the events in S: the others move up. (The k-th of what is left is the
\* one with k kept up to it; SelectSeq, in a form that can be reasoned about.)
Delete(q, S) ==
    LET kept(n) == {i \in 1 .. n : q[i] \notin S}
        left == kept(Len(q))
    IN  [k \in 1 .. Cardinality(left) |->
            q[CHOOSE i \in left : Cardinality(kept(i)) = k]]
\* bufferevent_trigger: after the head of the queue has run, the deferred
\* callback is queued unless it is already.
Schedule == IF Queued("event") THEN Tail(queue) ELSE Tail(queue) \o Deferred

\* InitConnection and Enable, on a new bufferevent.
FreshBev ==
    /\ output' = 0
    /\ low' = nMaxSendBuffer
    /\ reading' = TRUE /\ writing' = TRUE
    /\ readcb' = TRUE /\ writecb' = "none" /\ eventcb' = TRUE
    /\ pending' = {}

Init ==
    /\ opts \in Options
    /\ state = "connected"
    /\ queue = <<>>
    /\ ping_timer = FALSE
    /\ output = 0
    /\ low = nMaxSendBuffer
    /\ reading = TRUE /\ writing = TRUE
    /\ readcb = TRUE /\ writecb = "none" /\ eventcb = TRUE
    /\ pending = {}
    /\ sends = 0
    /\ app_full = FALSE
    /\ app_finish = FALSE

-----------------------------------------------------------------------------
(* The API. Every call looks the id up in m_connected, under m_conn_mutex. *)

Reachable ==
    /\ state = "connected" \/ (opts.threaded /\ state = "closing")
    /\ Len(queue) < MaxQueue

Disconnect ==
    /\ Reachable
    /\ queue' = Activate("disconnect")
    /\ UNCHANGED <<state, ping_timer, bev, app>>

DisconnectWhenFinished ==
    /\ Reachable
    /\ queue' = Activate("wait")
    /\ app_finish' = TRUE
    /\ UNCHANGED <<state, ping_timer, bev, opts, sends, app_full>>

Write(size) ==
    /\ Reachable
    /\ app_finish => opts.sendsAfterClose
    /\ sends < MaxSends
    /\ output + size <= MaxOutput
    /\ output' = output + size
    /\ queue' = Activate("check")
    /\ sends' = sends + 1
    /\ UNCHANGED <<state, ping_timer, low, reading, writing, readcb, writecb, eventcb,
                   pending, opts, app_full, app_finish>>

PauseRecv ==
    /\ Reachable
    /\ reading' = FALSE
    /\ queue' = Delete(queue, {"readable"})
    /\ UNCHANGED <<state, ping_timer, output, low, writing, readcb, writecb, eventcb,
                   pending, app>>

UnpauseRecv ==
    /\ Reachable
    /\ reading' = TRUE
    /\ UNCHANGED <<state, queue, ping_timer, output, low, writing, readcb, writecb,
                   eventcb, pending, app>>

\* ResetPingTimeout: adding or deleting a timer also takes it off the active queue.
ResetPingTimeout(on) ==
    /\ Reachable
    /\ ping_timer' = on
    /\ queue' = Delete(queue, {"ping"})
    /\ UNCHANGED <<state, bev, app>>

-----------------------------------------------------------------------------
(* libevent: the socket becomes ready or a timeout expires. *)

\* The event thread is not inside a callback of this connection.
Polled == state = "connected" /\ (queue # <<>> => Head(queue) \notin {"write", "event"})

PollReadable ==
    /\ Polled
    /\ reading
    /\ ~Queued("readable")
    /\ queue' = Append(queue, "readable")
    /\ UNCHANGED <<state, ping_timer, bev, app>>

PollWritable ==
    /\ Polled
    /\ writing /\ output > 0
    /\ ~Queued("writable")
    /\ queue' = Append(queue, "writable")
    /\ UNCHANGED <<state, ping_timer, bev, app>>

PingExpires ==
    /\ Polled
    /\ ping_timer
    /\ ping_timer' = FALSE
    /\ queue' = Activate("ping")
    /\ UNCHANGED <<state, bev, app>>

-----------------------------------------------------------------------------
(* The event thread runs the head of the queue. *)

Runs(e) == state = "connected" /\ queue # <<>> /\ Head(queue) = e

\* The socket was readable; `enough` came in for the read watermark.
Readable(enough) ==
    /\ Runs("readable")
    /\ IF enough /\ readcb
       THEN pending' = pending \cup {"read"} /\ queue' = Schedule
       ELSE pending' = pending /\ queue' = Tail(queue)
    /\ UNCHANGED <<state, ping_timer, output, low, reading, writing, readcb, writecb,
                   eventcb, app>>

\* The event `e` brings an end of file, an error or a timeout.
Fails(e) ==
    /\ Runs(e)
    /\ pending' = pending \cup {"event"}
    /\ queue' = Schedule
    /\ IF e = "readable" THEN reading' = FALSE /\ UNCHANGED writing
                         ELSE writing' = FALSE /\ UNCHANGED reading
    /\ UNCHANGED <<state, ping_timer, output, low, readcb, writecb, eventcb, app>>

\* The socket took all but `left` of the output.
Writable(left) ==
    /\ Runs("writable")
    /\ left < output
    /\ output' = left
    /\ IF left <= low /\ writecb # "none"
       THEN pending' = pending \cup {"write"} /\ queue' = Schedule
       ELSE pending' = pending /\ queue' = Tail(queue)
    /\ UNCHANGED <<state, ping_timer, low, reading, writing, readcb, writecb, eventcb, app>>

\* Mutant: the ping timer is not deleted.
DisconnectInt_KeepsPing(q) ==
    /\ state' = "closing"
    /\ queue' = Delete(q, OwnEvents \cup {"readable", "writable"})
    /\ reading' = FALSE /\ writing' = FALSE
    /\ readcb' = FALSE /\ writecb' = "none" /\ eventcb' = FALSE
    /\ UNCHANGED <<ping_timer, output, low, app>>

\* DisconnectInt up to its call of the handler; `q` is what was left to run.
DisconnectInt(q) ==
    /\ state' = "closing"
    /\ queue' = Delete(q, OwnEvents \cup {"readable", "writable"})
    /\ ping_timer' = FALSE
    /\ reading' = FALSE /\ writing' = FALSE
    /\ readcb' = FALSE /\ writecb' = "none" /\ eventcb' = FALSE
    /\ UNCHANGED <<output, low, app>>

RunDisconnect ==
    /\ Runs("disconnect")
    /\ DisconnectInt(Tail(queue))
    /\ UNCHANGED pending

\* There is output to wait for. Mutant: the empty buffer is not told apart.
Unsent_Always == TRUE
Unsent == output # 0

DisconnectWhenFinishedInt ==
    /\ Runs("wait")
    /\ UNCHANGED pending
    /\ IF Unsent
       THEN /\ reading' = FALSE
            /\ low' = 0
            /\ readcb' = FALSE /\ writecb' = "close" /\ eventcb' = TRUE
            /\ queue' = Delete(Tail(queue), {"readable"})
            /\ UNCHANGED <<state, ping_timer, output, writing, app>>
       ELSE DisconnectInt(Tail(queue))

\* The write buffer is full.
Full == output >= nMaxSendBuffer

\* Mutant: OnWriteBufferFull without setcb.
CheckWriteBufferInt_NoCallback ==
    /\ Runs("check")
    /\ queue' = Tail(queue)
    /\ app_full' = (app_full \/ Full)
    /\ UNCHANGED <<state, ping_timer, bev, opts, sends, app_finish>>

CheckWriteBufferInt ==
    /\ Runs("check")
    /\ queue' = Tail(queue)
    /\ IF Full
       THEN /\ readcb' = TRUE /\ writecb' = "write_cb" /\ eventcb' = TRUE
            /\ app_full' = TRUE
       ELSE UNCHANGED <<readcb, writecb, eventcb, app_full>>
    /\ UNCHANGED <<state, ping_timer, output, low, reading, writing, pending, opts,
                   sends, app_finish>>

PingTimeoutInt ==
    /\ Runs("ping")
    /\ queue' = Tail(queue)
    /\ UNCHANGED <<state, ping_timer, bev, app>>

\* A part of the deferred callback that finds nothing to do.
Idle(e, cb) ==
    /\ Runs(e)
    /\ ~(e \in pending /\ cb)
    /\ queue' = Tail(queue)
    /\ UNCHANGED <<state, ping_timer, bev, app>>

\* The read callback: OnReceiveMessages, and OnMalformedMessage with
\* DisconnectInt if the input is not well formed.
read_cb(malformed) ==
    /\ Runs("read")
    /\ "read" \in pending /\ readcb
    /\ pending' = pending \ {"read"}
    /\ IF malformed
       THEN DisconnectInt(Tail(queue))
       ELSE /\ queue' = Tail(queue)
            /\ UNCHANGED <<state, ping_timer, output, low, reading, writing, readcb,
                           writecb, eventcb, app>>

\* Mutant: OnWriteBufferReady without setcb.
write_cb_Stays ==
    /\ Runs("write")
    /\ "write" \in pending /\ writecb = "write_cb"
    /\ pending' = pending \ {"write"}
    /\ queue' = Tail(queue)
    /\ app_full' = FALSE
    /\ UNCHANGED <<state, ping_timer, output, low, reading, writing, readcb, writecb,
                   eventcb, opts, sends, app_finish>>

\* OnWriteBufferReady.
write_cb ==
    /\ Runs("write")
    /\ "write" \in pending /\ writecb = "write_cb"
    /\ pending' = pending \ {"write"}
    /\ queue' = Tail(queue)
    /\ readcb' = TRUE /\ writecb' = "none" /\ eventcb' = TRUE
    /\ app_full' = FALSE
    /\ UNCHANGED <<state, ping_timer, output, low, reading, writing, opts, sends,
                   app_finish>>

close_on_finished_writecb ==
    /\ Runs("write")
    /\ "write" \in pending /\ writecb = "close"
    /\ pending' = pending \ {"write"}
    /\ DisconnectInt(Tail(queue))

event_cb ==
    /\ Runs("event")
    /\ "event" \in pending /\ eventcb
    /\ pending' = pending \ {"event"}
    /\ DisconnectInt(Tail(queue))

-----------------------------------------------------------------------------
(* The handler's side. *)

Released ==
    /\ output' = 0
    /\ low' = nMaxSendBuffer
    /\ reading' = FALSE /\ writing' = FALSE
    /\ readcb' = FALSE /\ writecb' = "none" /\ eventcb' = FALSE
    /\ pending' = {}

\* OnDisconnected: out of m_connected; then Retry keeps the object, and with it
\* its CEvents, but frees m_bev; or the object is destroyed, CEvents and all.
OnDisconnected(ret) ==
    /\ state = "closing"
    /\ Released
    /\ app_full' = FALSE /\ app_finish' = FALSE
    /\ IF opts.fPersistent /\ ret
       THEN /\ state' = "retrying"
            /\ queue' = Delete(queue, {"read", "write", "event"})
            /\ UNCHANGED ping_timer
       ELSE /\ state' = "gone"
            /\ queue' = <<>>
            /\ ping_timer' = FALSE
    /\ UNCHANGED <<opts, sends>>

\* OnOutgoingConnected for the attempt that followed; the CEvents are those of
\* the former connection.
OnOutgoingConnected ==
    /\ state = "retrying"
    /\ state' = "connected"
    /\ FreshBev
    /\ UNCHANGED <<queue, ping_timer, app>>

\* ShutdownInt destroys the object.
ShutdownInt ==
    /\ state \in {"connected", "retrying"}
    /\ state' = "gone"
    /\ queue' = <<>>
    /\ ping_timer' = FALSE
    /\ Released
    /\ app_full' = FALSE /\ app_finish' = FALSE
    /\ UNCHANGED <<opts, sends>>

-----------------------------------------------------------------------------
Call ==
    \/ Disconnect \/ DisconnectWhenFinished \/ PauseRecv \/ UnpauseRecv
    \/ \E size \in Sizes : Write(size)
    \/ \E on \in BOOLEAN : ResetPingTimeout(on)

RunEvent ==
    \/ RunDisconnect \/ DisconnectWhenFinishedInt \/ CheckWriteBufferInt \/ PingTimeoutInt
    \/ \E enough \in BOOLEAN : Readable(enough)
    \/ \E left \in 0 .. MaxOutput : Writable(left)
    \/ Fails("readable") \/ Fails("writable")
    \/ \E malformed \in BOOLEAN : read_cb(malformed)
    \/ write_cb \/ close_on_finished_writecb \/ event_cb
    \/ Idle("read", readcb) \/ Idle("write", writecb # "none") \/ Idle("event", eventcb)

Next ==
    \/ Call
    \/ PollReadable \/ PollWritable \/ PingExpires
    \/ RunEvent
    \/ \E ret \in BOOLEAN : OnDisconnected(ret)
    \/ OnOutgoingConnected
    \/ ShutdownInt

Spec == Init /\ [][Next]_vars

(***************************************************************************)
(* Fairness. The event thread keeps pumping: it runs what is queued and     *)
(* completes OnDisconnected; output that waits is taken by the socket, a    *)
(* part at a time, or fails (nSendTimeout at the latest). Strong fairness of *)
(* PollWritable: each poll reports every descriptor that is ready, so a     *)
(* socket ready whenever libevent polls is reported, however often others   *)
(* are too.                                                                 *)
(***************************************************************************)
Fairness ==
    /\ WF_vars(RunEvent)
    /\ SF_vars(PollWritable)
    /\ WF_vars(\E ret \in BOOLEAN : OnDisconnected(ret))

FairSpec == Spec /\ Fairness

-----------------------------------------------------------------------------
(* Properties. *)

\* Types; a connected bufferevent always has event_cb, so that a failure is seen.
TypeOK ==
    /\ state \in {"connected", "closing", "retrying", "gone"}
    /\ queue \in Seq(Tokens)
    /\ output \in Nat /\ low \in {0, nMaxSendBuffer}
    /\ writecb \in {"none", "write_cb", "close"}
    /\ pending \subseteq {"read", "write", "event"}
    /\ sends \in Nat /\ opts \in Options
    /\ {ping_timer, reading, writing, readcb, eventcb, app_full, app_finish} \subseteq BOOLEAN
    /\ state = "connected" => eventcb

\* connectionbase.cpp, "assert(m_bev)" in DisconnectWhenFinishedInt and
\* CheckWriteBufferInt: an event of a connection never fires once its
\* bufferevent is gone, nor in a later connection the same object makes.
NoStaleEventsAtAll ==
    state = "retrying" => (\A e \in OwnEvents : ~Queued(e)) /\ ~ping_timer

\* It holds as long as nothing comes between DisconnectInt and OnDisconnected.
NoStaleEvents == ~opts.threaded => NoStaleEventsAtAll

\* A write callback that waits for an empty buffer is not left waiting when the
\* buffer is empty: whichever way output, watermark and callback were changed,
\* the deferred callback is on its way.
NoLostWakeup ==
    state = "connected" /\ writecb # "none" /\ output = 0 =>
        "write" \in pending /\ Queued("write")

\* The backpressure the application believes in is the one that is armed: it has
\* been told Full and not Ready exactly while a callback will tell it Ready, or a
\* graceful close has taken that callback's place.
FullArmed ==
    state = "connected" =>
        /\ writecb = "write_cb" => app_full
        /\ app_full => writecb # "none"

\* What is in the output can be sent: the socket is polled for writing, until an error that
\* event_cb has yet to hear of.
OutputPolled ==
    state = "connected" /\ ~writing => "event" \in pending /\ Queued("event")

\* The application sends nothing more and no event of a former connection can interfere
\* (see NoStaleEvents). A Send that fills the buffer again would put write_cb in the
\* place of the callback that is to close it.
Undisturbed == ~opts.sendsAfterClose /\ ~(opts.threaded /\ opts.fPersistent)

\* A graceful close is not forgotten: its event is queued or its callback armed, and no
\* check of the buffer, queued before it or not, puts write_cb in its place.
CloseOnItsWay ==
    app_finish /\ Undisturbed /\ state = "connected" => Queued("wait") \/ writecb = "close"

\* What OnWriteBufferFull, OnWriteBufferReady, CheckWriteBufferInt and a graceful close
\* leave to each other: watermark, callback, deferred callback and the application agree.
Consistent == TypeOK /\ FullArmed /\ NoLostWakeup /\ OutputPolled /\ CloseOnItsWay

\* OnWriteBufferFull is always followed by OnWriteBufferReady or by the end of
\* the connection: an application that stops sending on Full is woken up.
FullIsAnswered == app_full ~> ~app_full

\* handler.h, CloseConnection: "Disconnect the remote. Optionally wait for an
\* empty send buffer": a graceful close ends the connection, if it is Undisturbed.
GracefulCloseCompletes == app_finish /\ Undisturbed ~> ~app_finish

\* The same doc: "wait for an empty send buffer": the callback that completes a
\* graceful close finds nothing left to send.
ClosesWhenEmpty == [][close_on_finished_writecb => output = 0]_vars
=============================================================================
