----------------------------- MODULE ConnTimers -----------------------------
(***************************************************************************)
(* The time limits of an established connection (src/connectionbase.cpp):   *)
(* nInitialTimeout, nRecvTimeout, nSendTimeout, nRetryInterval, the ping    *)
(* timer, and the totals reported with OnBytesRead and OnBytesWritten, from *)
(* one connection of the object to the next.                                *)
(*                                                                         *)
(* Time passes in ticks, and only when nothing is due. The bufferevent's    *)
(* part is libevent's: an event that is added and has a timeout runs out    *)
(* unless there is progress, which arms it anew; the write event is added   *)
(* when there is something to write and removed when there is not. A        *)
(* timeout leads through event_cb to DisconnectInt within the same turn of  *)
(* the event loop, one step here. What happens between two turns, and from  *)
(* other threads, is in modules Connection and ApiThreads.                  *)
(***************************************************************************)
EXTENDS Integers

CONSTANTS
    Options,    \* the CConnectionOptions, see Option
    Pings,      \* what ResetPingTimeout is called with
    MaxOutput,  \* bound: units in the output
    Ages,       \* bound: the histories of time stop at Ages
    ULongMod    \* 2^w of unsigned long

\* A limit of 0 is none. sendsAfterClose: the application goes on sending after
\* CloseConnection(id, false).
Option == [nInitialTimeout : Nat, nRecvTimeout : Nat, nSendTimeout : Nat,
           nRetryInterval : Nat, fPersistent : BOOLEAN, sendsAfterClose : BOOLEAN]

\* The histories reach past every limit they are compared with.
ASSUME ConstantsAssumption ==
    /\ Options \subseteq Option
    /\ \A o \in Options : o.nRecvTimeout <= Ages /\ o.nSendTimeout <= Ages
    /\ Pings \subseteq Nat
    /\ MaxOutput \in Nat /\ Ages \in Nat /\ ULongMod \in Nat \ {0}

Off == -1    \* a timer that does not run

VARIABLES
    opts,                  \* never changes
    phase,                 \* "connecting", "connected", "waiting" to reconnect, "gone"
    limits,                \* the timeouts set for the bufferevent
    reading, read_timer,   \* the read event is added; what is left of its timeout
    writing, write_timer,  \* likewise for the write event
    output,                \* units in the output
    closing,               \* "no", "waiting" for the output to drain, "drained"
    m_first_data_func,     \* added
    m_reconnect_func, m_ping_timeout_func,   \* what is left of them
    m_bytes_read, m_bytes_written,
    \* Histories: time since the peer was heard, since UnpauseRecv, since progress in
    \* writing or the output was empty; the true totals; this is not the object's
    \* first connection.
    silent, resumed, stalled, total_read, total_written, again

bev == <<limits, reading, read_timer, writing, write_timer, output, closing>>
timers == <<m_first_data_func, m_reconnect_func, m_ping_timeout_func>>
totals == <<m_bytes_read, m_bytes_written, total_read, total_written>>
ages == <<silent, resumed, stalled>>
vars == <<opts, phase, bev, timers, totals, ages, again>>

\* The members m_bytes_read and m_bytes_written have no initial value.
Init ==
    /\ opts \in Options
    /\ phase = "connecting"
    /\ limits = [read |-> 0, write |-> 0]
    /\ reading = FALSE /\ read_timer = Off
    /\ writing = FALSE /\ write_timer = Off
    /\ output = 0 /\ closing = "no"
    /\ m_first_data_func = FALSE
    /\ m_reconnect_func = Off /\ m_ping_timeout_func = Off
    /\ m_bytes_read \in 0 .. ULongMod - 1 /\ m_bytes_written \in 0 .. ULongMod - 1
    /\ total_read = 0 /\ total_written = 0
    /\ silent = 0 /\ resumed = 0 /\ stalled = 0
    /\ again = FALSE

\* External: bufferevent_add_event. A timeout of 0 is none.
Armed(limit) == IF limit = 0 THEN Off ELSE limit

-----------------------------------------------------------------------------
(* The connection begins. *)

\* InitConnection and Enable. Enabling EV_WRITE adds the write event although there is
\* nothing to write yet.
Connected ==
    /\ phase = "connecting"
    /\ phase' = "connected"
    /\ limits' = [read |-> opts.nInitialTimeout, write |-> opts.nInitialTimeout]
    /\ m_first_data_func' = TRUE
    /\ reading' = TRUE /\ read_timer' = Armed(opts.nInitialTimeout)
    /\ writing' = TRUE /\ write_timer' = Armed(opts.nInitialTimeout)
    /\ output' = 0 /\ closing' = "no"
    /\ silent' = 0 /\ resumed' = 0 /\ stalled' = 0
    /\ total_read' = 0 /\ total_written' = 0
    /\ UNCHANGED <<opts, m_reconnect_func, m_ping_timeout_func, m_bytes_read,
                   m_bytes_written, again>>

\* External: bufferevent_set_timeouts arms anew the events that are added.
SetTimeouts(recvTimeout, sendTimeout) ==
    /\ limits' = [read |-> recvTimeout, write |-> sendTimeout]
    /\ read_timer' = IF reading THEN Armed(recvTimeout) ELSE Off
    /\ write_timer' = IF writing THEN Armed(sendTimeout) ELSE Off

\* Mutant: the two limits are exchanged.
FirstDataInt_Swapped ==
    /\ m_first_data_func
    /\ m_first_data_func' = FALSE
    /\ SetTimeouts(opts.nSendTimeout, opts.nRecvTimeout)
    /\ UNCHANGED <<opts, phase, reading, writing, output, closing, m_reconnect_func,
                   m_ping_timeout_func, totals, ages, again>>
\* m_first_data_func waits for the socket to be readable or writable, and a socket just
\* connected is writable.
FirstDataInt ==
    /\ m_first_data_func
    /\ m_first_data_func' = FALSE
    /\ SetTimeouts(opts.nRecvTimeout, opts.nSendTimeout)
    /\ UNCHANGED <<opts, phase, reading, writing, output, closing, m_reconnect_func,
                   m_ping_timeout_func, totals, ages, again>>

-----------------------------------------------------------------------------
(* Traffic. *)

\* read_data
Heard ==
    /\ phase = "connected" /\ reading
    /\ m_bytes_read' = (m_bytes_read + 1) % ULongMod
    /\ total_read' = (total_read + 1) % ULongMod
    /\ silent' = 0
    /\ read_timer' = Armed(limits.read)
    /\ UNCHANGED <<opts, phase, limits, reading, writing, write_timer, output, closing,
                   timers, m_bytes_written, total_written, resumed, stalled, again>>

\* wrote_data, and the write event's part: n units are taken by the socket.
Written(n) ==
    /\ phase = "connected" /\ writing /\ n <= output
    /\ m_bytes_written' = (m_bytes_written + n) % ULongMod
    /\ total_written' = (total_written + n) % ULongMod
    /\ stalled' = 0
    /\ output' = output - n
    /\ writing' = (output' > 0)
    /\ write_timer' = IF output' > 0 THEN Armed(limits.write) ELSE Off
    /\ closing' = IF closing = "waiting" /\ output' = 0 THEN "drained" ELSE closing
    /\ UNCHANGED <<opts, phase, limits, reading, read_timer, timers, m_bytes_read,
                   total_read, silent, resumed, again>>

\* External: the write event finds nothing to write and is removed.
NothingToWrite ==
    /\ phase = "connected" /\ writing /\ output = 0
    /\ writing' = FALSE /\ write_timer' = Off
    /\ UNCHANGED <<opts, phase, limits, reading, read_timer, output, closing, timers,
                   totals, ages, again>>

\* Write. Adding to an output that is not empty does not arm the timer anew.
Send ==
    /\ phase = "connected" /\ output < MaxOutput
    /\ closing # "no" => opts.sendsAfterClose
    /\ output' = output + 1
    /\ stalled' = IF output = 0 THEN 0 ELSE stalled
    /\ writing' = TRUE
    /\ write_timer' = IF writing THEN write_timer ELSE Armed(limits.write)
    /\ UNCHANGED <<opts, phase, limits, reading, read_timer, closing, timers, totals,
                   silent, resumed, again>>

PauseRecv ==
    /\ phase = "connected"
    /\ reading' = FALSE /\ read_timer' = Off
    /\ UNCHANGED <<opts, phase, limits, writing, write_timer, output, closing, timers,
                   totals, ages, again>>

\* Enabling what is enabled arms it anew too.
UnpauseRecv ==
    /\ phase = "connected"
    /\ reading' = TRUE /\ read_timer' = Armed(limits.read)
    /\ resumed' = 0
    /\ UNCHANGED <<opts, phase, limits, writing, write_timer, output, closing, timers,
                   totals, silent, stalled, again>>

\* ResetPingTimeout: 0 disables it.
ResetPingTimeout(seconds) ==
    /\ phase = "connected"
    /\ m_ping_timeout_func' = IF seconds = 0 THEN Off ELSE seconds
    /\ UNCHANGED <<opts, phase, bev, m_first_data_func, m_reconnect_func, totals, ages,
                   again>>

\* OnPingTimeout reaches the application, and the timer is not added again.
PingTimeoutInt ==
    /\ m_ping_timeout_func = 0
    /\ m_ping_timeout_func' = Off
    /\ UNCHANGED <<opts, phase, bev, m_first_data_func, m_reconnect_func, totals, ages,
                   again>>

-----------------------------------------------------------------------------
(* The connection ends. *)

\* Retry, after OnDisconnected or a failure to connect.
Retry ==
    /\ phase' = "waiting"
    /\ m_bytes_read' = 0 /\ m_bytes_written' = 0
    /\ m_reconnect_func' = opts.nRetryInterval
    /\ again' = TRUE

Destroyed ==
    /\ phase' = "gone"
    /\ m_reconnect_func' = Off
    /\ UNCHANGED <<m_bytes_read, m_bytes_written, again>>

\* Mutant: the ping timer is forgotten.
DisconnectInt_KeepsPing ==
    /\ reading' = FALSE /\ read_timer' = Off
    /\ writing' = FALSE /\ write_timer' = Off
    /\ output' = 0 /\ closing' = "no"
    /\ m_first_data_func' = FALSE /\ m_ping_timeout_func' = m_ping_timeout_func
    /\ Destroyed \/ (opts.fPersistent /\ Retry)
    /\ UNCHANGED <<opts, limits, total_read, total_written, ages>>
\* Every timer is deleted, the bufferevent is disabled and, by Retry or the destructor,
\* freed. The application's answer to OnDisconnected decides between the two.
DisconnectInt ==
    /\ reading' = FALSE /\ read_timer' = Off
    /\ writing' = FALSE /\ write_timer' = Off
    /\ output' = 0 /\ closing' = "no"
    /\ m_first_data_func' = FALSE /\ m_ping_timeout_func' = Off
    /\ Destroyed \/ (opts.fPersistent /\ Retry)
    /\ UNCHANGED <<opts, limits, total_read, total_written, ages>>

RecvTimeout == reading /\ read_timer = 0 /\ DisconnectInt
SendTimeout == writing /\ write_timer = 0 /\ DisconnectInt

\* EOF, an error, CloseConnection(id, true), a message refused.
Disconnect == phase = "connected" /\ DisconnectInt

\* Mutant: writing is turned off as well as reading.
DisconnectWhenFinishedInt_NoWrite ==
    /\ phase = "connected"
    /\ IF output = 0 THEN DisconnectInt
       ELSE /\ reading' = FALSE /\ read_timer' = Off
            /\ closing' = "waiting"
            /\ writing' = FALSE /\ write_timer' = Off
            /\ UNCHANGED <<opts, phase, limits, output, timers, totals, ages, again>>
\* CloseConnection(id, false)
DisconnectWhenFinishedInt ==
    /\ phase = "connected"
    /\ IF output = 0 THEN DisconnectInt
       ELSE /\ reading' = FALSE /\ read_timer' = Off
            /\ closing' = "waiting"
            /\ UNCHANGED <<opts, phase, limits, writing, write_timer, output, timers,
                           totals, ages, again>>

close_on_finished_writecb == closing = "drained" /\ DisconnectInt

\* Connect. The attempt takes its time; module ConnAttempt has it.
Reconnect ==
    /\ m_reconnect_func = 0
    /\ phase' = "connecting"
    /\ m_reconnect_func' = Off
    /\ UNCHANGED <<opts, bev, m_first_data_func, m_ping_timeout_func, totals, ages,
                   again>>

OnConnectFailure ==
    /\ phase = "connecting"
    /\ Destroyed \/ Retry
    /\ UNCHANGED <<opts, bev, m_first_data_func, m_ping_timeout_func, total_read,
                   total_written, ages>>

-----------------------------------------------------------------------------
(* Time. *)

Due ==
    \/ m_first_data_func
    \/ phase = "connected" /\ writing /\ output = 0
    \/ closing = "drained"
    \/ 0 \in {read_timer, write_timer, m_ping_timeout_func, m_reconnect_func}

Less(timer) == IF timer = Off THEN Off ELSE timer - 1
Older(age) == IF age < Ages THEN age + 1 ELSE age

Tick ==
    /\ phase \in {"connected", "waiting"}
    /\ ~Due
    /\ read_timer' = Less(read_timer) /\ write_timer' = Less(write_timer)
    /\ m_ping_timeout_func' = Less(m_ping_timeout_func)
    /\ m_reconnect_func' = Less(m_reconnect_func)
    /\ silent' = Older(silent) /\ resumed' = Older(resumed)
    /\ stalled' = IF output > 0 THEN Older(stalled) ELSE 0
    /\ UNCHANGED <<opts, phase, limits, reading, writing, output, closing,
                   m_first_data_func, totals, again>>

\* What the event loop runs when it is due.
Event ==
    \/ FirstDataInt \/ NothingToWrite \/ close_on_finished_writecb
    \/ RecvTimeout \/ SendTimeout \/ PingTimeoutInt \/ Reconnect

Next ==
    \/ Event \/ Tick
    \/ Connected \/ OnConnectFailure
    \/ Heard \/ \E n \in 1 .. MaxOutput : Written(n)
    \/ Send \/ PauseRecv \/ UnpauseRecv
    \/ \E seconds \in Pings : ResetPingTimeout(seconds)
    \/ Disconnect \/ DisconnectWhenFinishedInt

Spec == Init /\ [][Next]_vars

\* The event loop runs what is due, and time passes. The peer, the application and an
\* attempt to connect owe nothing.
Fairness == WF_vars(Event) /\ WF_vars(Tick)

FairSpec == Spec /\ Fairness

-----------------------------------------------------------------------------
(* Properties. *)

\* Types; a timeout runs only for an event that is added.
TypeOK ==
    /\ opts \in Options
    /\ phase \in {"connecting", "connected", "waiting", "gone"}
    /\ limits \in [read : Nat, write : Nat]
    /\ reading \in BOOLEAN /\ writing \in BOOLEAN
    /\ \A timer \in {read_timer, write_timer, m_reconnect_func, m_ping_timeout_func} :
            timer \in Nat \cup {Off}
    /\ read_timer # Off => reading
    /\ write_timer # Off => writing
    /\ output \in 0 .. MaxOutput
    /\ closing \in {"no", "waiting", "drained"}
    /\ {m_bytes_read, m_bytes_written, total_read, total_written} \subseteq 0 .. ULongMod - 1
    /\ {silent, resumed, stalled} \subseteq 0 .. Ages

\* No timer outlives its connection: DisconnectInt leaves none behind that would reach
\* the application, or the next connection of the object, after OnDisconnected; and the
\* object waits to reconnect exactly while m_reconnect_func will wake it.
TimersBelong ==
    /\ phase # "connected" =>
        ~reading /\ ~writing /\ ~m_first_data_func /\ m_ping_timeout_func = Off
    /\ m_reconnect_func # Off <=> phase = "waiting"

\* The totals that OnBytesRead and OnBytesWritten report begin anew with each
\* connection. The first is left out: its totals begin with whatever was in memory.
TotalsRight ==
    phase = "connected" /\ again =>
        m_bytes_read = total_read /\ m_bytes_written = total_written

\* What a connection of a reused object (Retry, DisconnectInt) has of the one before it:
\* no timer, and no byte in its totals.
Consistent == TypeOK /\ TimersBelong /\ TotalsRight

\* A peer that is not heard for nRecvTimeout is dropped, unless the application has
\* paused it or has called UnpauseRecv since.
SilentPeerBound ==
    phase = "connected" /\ reading /\ opts.nRecvTimeout > 0 =>
        silent <= opts.nRecvTimeout \/ resumed <= opts.nRecvTimeout

\* A peer that takes nothing for nSendTimeout is dropped, whatever the application adds
\* to the output meanwhile, and also during a graceful close.
StalledPeerBound ==
    phase = "connected" /\ opts.nSendTimeout > 0 => stalled <= opts.nSendTimeout

\* When a timeout strikes the peer had its full time, and something to take.
NotDroppedEarly ==
    /\ reading /\ read_timer = 0 => opts.nRecvTimeout > 0 /\ silent >= opts.nRecvTimeout
    /\ writing /\ write_timer = 0 =>
        output > 0 /\ opts.nSendTimeout > 0 /\ stalled >= opts.nSendTimeout

\* nRecvTimeout and nSendTimeout, which FirstDataInt puts in the place of nInitialTimeout,
\* are kept to in both directions: no peer is kept for longer, or dropped before.
Punctual == SilentPeerBound /\ StalledPeerBound /\ NotDroppedEarly

\* A graceful close ends although the peer may never take another byte: nSendTimeout
\* sees to that, if there is one and the application does not send any more.
GracefulCloseEnds ==
    closing # "no" /\ opts.nSendTimeout > 0 /\ ~opts.sendsAfterClose
        ~> phase # "connected"
=============================================================================
