----------------------------- MODULE ApiThreads -----------------------------
(***************************************************************************)
(* A threaded CConnectionHandler: the application's threads call its API    *)
(* while the event thread (Loop) runs callbacks, from which the application *)
(* calls the API too.                                                      *)
(*                                                                         *)
(* Three things make one wait for another: m_conn_mutex, under which every *)
(* call about a connection looks it up and uses it; libevent's lock of a    *)
(* bufferevent, which is held while OnBytesRead and OnBytesWritten run,     *)
(* because evbuffer callbacks run inside the reading and writing of the     *)
(* socket (the other callbacks of a bufferevent are deferred and run        *)
(* unlocked: BEV_OPT_UNLOCK_CALLBACKS); and event_del, which waits while    *)
(* the event thread is inside the callback of that event, unless it is      *)
(* called there. The other locks are held over nothing that waits.          *)
(*                                                                         *)
(* A call is in steps: enter m_conn_mutex and find the connection, use it   *)
(* and return. ShutdownInt is in steps too: what it frees, other threads    *)
(* may be about to use. And the object of a connection that is retried goes *)
(* on under another id, with the events that threads have given it. How ids *)
(* are drawn and connections counted is module ConnHandler, what happens on *)
(* one connection is Connection.                                           *)
(***************************************************************************)
EXTENDS Integers

CONSTANTS
    Threads,      \* the application's threads other than the event thread
    Loop,         \* the event thread
    Nobody,       \* holder of a free mutex; the connection of a callback about none
    Conns,        \* connection ids
    Listeners,    \* ids of listeners
    Apps,         \* applications, see `app`
    MaxCalls      \* bound: calls of the API

\* The calls that look a connection up. ResetPingTimeout(id, 0) is StopPing;
\* UnpauseRecv and SetRateLimit take the same locks as PauseRecv.
BevOps == {"Send", "PauseRecv"}
TableOps == BevOps \cup {"CloseConnection", "ResetPingTimeout", "StopPing"}
\* SetIncomingRateLimit and SetOutgoingRateLimit are SetGroupLimit.
Ops == TableOps \cup {"Shutdown", "SetGroupLimit", "Bind"}

\* Callbacks about a connection in m_connected; callbacks; where they may call from.
ConnCallbacks == {"OnReadyForFirstSend", "OnReceiveMessages", "OnBytes", "OnPingTimeout"}
Callbacks == ConnCallbacks \cup {"OnStartup", "OnOutgoingConnection",
    "OnIncomingConnection", "OnDisconnected", "OnConnectionFailure", "OnShutdown"}
Contexts == Callbacks \cup {"thread"}

ASSUME ConstantsAssumption ==
    /\ Loop \notin Threads
    /\ Nobody \notin Threads \cup {Loop} \cup Conns
    /\ Apps \subseteq [uses : SUBSET (Contexts \X Ops), once : BOOLEAN, fPersistent : BOOLEAN]
    /\ MaxCalls \in Nat

VARIABLES
    app,                \* uses: what the application calls from where; once: whether it
                        \* calls Shutdown only once; fPersistent: of its candidates. It
                        \* never changes.
    where,              \* Conns -> "unused"; "attempt" (m_connecting); "offered" (in
                        \* neither map); "connected" (m_connected); "leaving" (taken out
                        \* of it, not yet destroyed or retried); "gone"
    incoming,           \* connections that are not IsOutgoing()
    m_conn_mutex,       \* its holder
    m_disconnect_func, m_ping_timeout_func,  \* objects, by their id, where it is active; added
    m_binds, binds,     \* the handler's listeners; those ShutdownInt has taken
    m_event_base, rate_limits,               \* allocated or not
    m_shutdown_event,   \* "free", "idle" or "active"
    m_shutdown,
    cb,                 \* what the event thread is at, and the connection it is about
    call,               \* per thread: the call it is in, its connection, its next step
    calls, asked,       \* calls made; whether Shutdown was among them
    app_knows           \* history: connections that one of ConnCallbacks was about, until
                        \* OnDisconnected

conn_events == <<m_disconnect_func, m_ping_timeout_func>>
listeners == <<m_binds, binds>>
objects == <<m_event_base, rate_limits, m_shutdown_event, m_shutdown>>
asking == <<app, calls, asked>>
history == <<asking, incoming, app_knows>>
vars == <<where, m_conn_mutex, conn_events, listeners, objects, cb, call, history>>

Places == {"unused", "attempt", "offered", "connected", "leaving", "gone"}
At(place) == {id \in Conns : where[id] = place}
Callers == Threads \cup {Loop}
NoCall == [op |-> "none", id |-> Nobody, at |-> "none"]
Calling(p) == call[p].at # "none"
Doing(at, id) == [at |-> at, id |-> id]
Idle == Doing("none", Nobody)

Init ==
    /\ app \in Apps
    /\ where = [id \in Conns |-> "unused"]
    /\ m_conn_mutex = Nobody
    /\ m_disconnect_func = {} /\ m_ping_timeout_func = {}
    /\ m_binds = {} /\ binds = {}
    /\ m_event_base = FALSE /\ rate_limits = FALSE
    /\ m_shutdown_event = "free"
    /\ m_shutdown = FALSE
    /\ cb = Idle
    /\ call = [p \in Callers |-> NoCall]
    /\ calls = 0
    /\ asked = FALSE
    /\ incoming = {}
    /\ app_knows = {}

-----------------------------------------------------------------------------
(* The API. *)

\* The place of a call's first step.
First(op) ==
    CASE op \in TableOps -> "enter" [] op = "Shutdown" -> "active"
      [] op = "SetGroupLimit" -> "set_cfg" [] op = "Bind" -> "bind"

\* What a call does with the connection it has found.
Use(op) ==
    CASE op \in BevOps -> "bev" [] op = "CloseConnection" -> "disconnect"
      [] op = "ResetPingTimeout" -> "add" [] op = "StopPing" -> "del"

Context(p) == IF p = Loop THEN cb.at ELSE "thread"

\* The application calls. Bind is for the event thread (assert(IsEventThread())).
Begin(p, op, id) ==
    /\ ~Calling(p)
    /\ calls < MaxCalls
    /\ m_event_base \/ m_shutdown
    /\ <<Context(p), op>> \in app.uses
    /\ op = "Bind" => p = Loop
    /\ op = "Shutdown" /\ app.once => ~asked
    /\ call' = [call EXCEPT ![p] = [op |-> op, id |-> id, at |-> First(op)]]
    /\ calls' = calls + 1
    /\ asked' = (asked \/ op = "Shutdown")
    /\ UNCHANGED <<where, m_conn_mutex, conn_events, listeners, objects, cb, app, incoming,
                   app_knows>>

Returned(p) == [call EXCEPT ![p] = NoCall]

\* Mutant: a call that finds nothing returns without unlocking.
Enter_KeepsMutex(p) ==
    /\ call[p].at = "enter"
    /\ m_conn_mutex = Nobody
    /\ m_conn_mutex' = p
    /\ call' = IF where[call[p].id] = "connected"
               THEN [call EXCEPT ![p].at = Use(call[p].op)] ELSE Returned(p)
    /\ UNCHANGED <<where, conn_events, listeners, objects, cb, history>>

\* optional_lock(m_conn_mutex) and the find; a connection that is not there ends it.
Enter(p) ==
    /\ call[p].at = "enter"
    /\ m_conn_mutex = Nobody
    /\ IF where[call[p].id] = "connected"
       THEN /\ m_conn_mutex' = p
            /\ call' = [call EXCEPT ![p].at = Use(call[p].op)]
       ELSE /\ call' = Returned(p)
            /\ UNCHANGED m_conn_mutex
    /\ UNCHANGED <<where, conn_events, listeners, objects, cb, history>>

\* A call that has used its connection leaves the mutex and returns.
Leave(p) ==
    /\ m_conn_mutex' = Nobody
    /\ call' = Returned(p)
    /\ UNCHANGED <<where, listeners, objects, cb, history>>

\* Disconnect and DisconnectWhenFinished activate an event.
UseDisconnect(p) ==
    /\ call[p].at = "disconnect"
    /\ m_disconnect_func' = m_disconnect_func \cup {call[p].id}
    /\ UNCHANGED m_ping_timeout_func
    /\ Leave(p)

\* Mutant: the deferred callbacks run locked, without BEV_OPT_UNLOCK_CALLBACKS.
BevLocked_Deferred(id) == cb.id = id /\ cb.at \in {"OnBytes", "OnReceiveMessages"}

\* The event thread holds the lock of id's bufferevent.
BevLocked(id) == cb = Doing("OnBytes", id)

\* Write, PauseRecv, SetRateLimit: bufferevent_lock, which its holder may take again.
UseBev(p) ==
    /\ call[p].at = "bev"
    /\ p # Loop => ~BevLocked(call[p].id)
    /\ UNCHANGED conn_events
    /\ Leave(p)

UseAdd(p) ==
    /\ call[p].at = "add"
    /\ m_ping_timeout_func' = m_ping_timeout_func \cup {call[p].id}
    /\ UNCHANGED m_disconnect_func
    /\ Leave(p)

\* event_del waits for a callback of that event that another thread is in.
UseDel(p) ==
    /\ call[p].at = "del"
    /\ p # Loop => cb # Doing("OnPingTimeout", call[p].id)
    /\ m_ping_timeout_func' = m_ping_timeout_func \ {call[p].id}
    /\ UNCHANGED m_disconnect_func
    /\ Leave(p)

\* Shutdown: CEvent::active does nothing to an event that has been freed.
UseShutdown(p) ==
    /\ call[p].at = "active"
    /\ m_shutdown_event' = IF m_shutdown_event = "free" THEN "free" ELSE "active"
    /\ call' = Returned(p)
    /\ UNCHANGED <<where, m_conn_mutex, conn_events, listeners, m_event_base, rate_limits,
                   m_shutdown, cb, history>>

\* bufferevent_rate_limit_group_set_cfg, on the group as it is by then.
UseGroup(p) ==
    /\ call[p].at = "set_cfg"
    /\ call' = Returned(p)
    /\ UNCHANGED <<where, m_conn_mutex, conn_events, listeners, objects, cb, history>>

\* Bind of a listener, which may fail.
UseBind(p) ==
    /\ call[p].at = "bind"
    /\ \/ \E l \in Listeners \ (m_binds \cup binds) : m_binds' = m_binds \cup {l}
       \/ UNCHANGED m_binds
    /\ call' = Returned(p)
    /\ UNCHANGED <<where, m_conn_mutex, conn_events, binds, objects, cb, history>>

Step(p) ==
    \/ Enter(p) \/ UseDisconnect(p) \/ UseBev(p) \/ UseAdd(p) \/ UseDel(p)
    \/ UseShutdown(p) \/ UseGroup(p) \/ UseBind(p)

-----------------------------------------------------------------------------
(* The event thread. *)

LoopAt(at) == cb.at = at /\ ~Calling(Loop)
\* Between two callbacks; an active m_shutdown_event has priority.
Dispatch == LoopAt("none") /\ m_event_base /\ ~m_shutdown /\ m_shutdown_event # "active"
\* A callback of ConnCallbacks about id: the application may use the id from now on.
Names(id) == app_knows' = app_knows \cup {id}
Place(id, place) == where' = [where EXCEPT ![id] = place]

Start ==
    /\ LoopAt("none") /\ ~m_event_base /\ ~m_shutdown
    /\ m_event_base' = TRUE /\ rate_limits' = TRUE
    /\ m_shutdown_event' = "idle"
    /\ cb' = Doing("OnStartup", Nobody)
    /\ UNCHANGED <<where, m_conn_mutex, conn_events, listeners, m_shutdown, call, history>>

StartConnection(id) ==
    /\ Dispatch
    /\ where[id] = "unused"
    /\ Place(id, "attempt")
    /\ UNCHANGED <<m_conn_mutex, conn_events, listeners, objects, cb, call, history>>

\* OnOutgoingConnected takes the attempt out of m_connecting and asks the application.
OnOutgoingConnected(id) ==
    /\ Dispatch
    /\ where[id] = "attempt"
    /\ Place(id, "offered")
    /\ cb' = Doing("OnOutgoingConnection", id)
    /\ UNCHANGED <<m_conn_mutex, conn_events, listeners, objects, call, history>>

\* OnIncomingConnection runs through m_connecting to the same question.
OnIncomingConnected(id) ==
    /\ Dispatch
    /\ m_binds # {}
    /\ where[id] = "unused"
    /\ Place(id, "offered")
    /\ incoming' = incoming \cup {id}
    /\ cb' = Doing("OnIncomingConnection", id)
    /\ UNCHANGED <<m_conn_mutex, conn_events, listeners, objects, call, asking, app_knows>>

\* The object of the connection goes, and with it its events.
Destroyed(id) ==
    /\ Place(id, "gone")
    /\ m_disconnect_func' = m_disconnect_func \ {id}
    /\ m_ping_timeout_func' = m_ping_timeout_func \ {id}
    /\ incoming' = incoming \ {id}

\* The application accepts: the connection is enabled, next it is inserted; or not.
Answer(accept) ==
    /\ LoopAt("OnOutgoingConnection") \/ LoopAt("OnIncomingConnection")
    /\ IF accept
       THEN /\ cb' = Doing(IF cb.at = "OnOutgoingConnection" THEN "insert_outgoing"
                                                             ELSE "insert_incoming", cb.id)
            /\ UNCHANGED <<where, conn_events, incoming>>
       ELSE cb' = Idle /\ Destroyed(cb.id)
    /\ UNCHANGED <<m_conn_mutex, listeners, objects, call, asking, app_knows>>

\* m_connected.emplace_hint under m_conn_mutex, then OnReadyForFirstSend if outgoing.
Insert ==
    /\ cb.at \in {"insert_outgoing", "insert_incoming"}
    /\ m_conn_mutex = Nobody
    /\ Place(cb.id, "connected")
    /\ IF cb.at = "insert_outgoing"
       THEN cb' = Doing("OnReadyForFirstSend", cb.id) /\ Names(cb.id)
       ELSE cb' = Idle /\ UNCHANGED app_knows
    /\ UNCHANGED <<m_conn_mutex, conn_events, listeners, objects, call, asking, incoming>>

OnConnectionFailure(id) ==
    /\ Dispatch
    /\ where[id] = "attempt"
    /\ Place(id, "leaving")
    /\ cb' = Doing("OnConnectionFailure", id)
    /\ UNCHANGED <<m_conn_mutex, conn_events, listeners, objects, call, history>>

\* read_cb_message and read_cb_chunk; read_data and wrote_data.
Traffic(at, id) ==
    /\ Dispatch
    /\ where[id] = "connected"
    /\ at \in {"OnReceiveMessages", "OnBytes"}
    /\ cb' = Doing(at, id)
    /\ Names(id)
    /\ UNCHANGED <<where, m_conn_mutex, conn_events, listeners, objects, call, asking,
                   incoming>>

\* m_ping_timeout_func fires, for the object it was added to, whatever its id is by now.
PingTimeoutInt(id) ==
    /\ Dispatch
    /\ id \in m_ping_timeout_func
    /\ m_ping_timeout_func' = m_ping_timeout_func \ {id}
    /\ cb' = Doing("OnPingTimeout", id)
    /\ Names(id)
    /\ UNCHANGED <<where, m_conn_mutex, m_disconnect_func, listeners, objects, call, asking,
                   incoming>>

\* Mutant: m_ping_timeout_func.del() is missing.
DisconnectInt_KeepsPing(id) ==
    /\ Dispatch
    /\ where[id] = "connected" \/ id \in m_disconnect_func
    /\ m_disconnect_func' = m_disconnect_func \ {id}
    /\ cb' = Doing(IF where[id] = "connected" THEN "remove" ELSE "abort", id)
    /\ UNCHANGED <<where, m_conn_mutex, m_ping_timeout_func, listeners, objects, call, history>>

\* DisconnectInt, asked for by CloseConnection or by the peer, up to the mutex. For an
\* object that is in m_connecting by now it finds no bufferevent and no connection: the
\* assert of OnDisconnected, at the latest, ends the process.
DisconnectInt(id) ==
    /\ Dispatch
    /\ where[id] = "connected" \/ id \in m_disconnect_func
    /\ m_disconnect_func' = m_disconnect_func \ {id}
    /\ m_ping_timeout_func' = m_ping_timeout_func \ {id}
    /\ cb' = Doing(IF where[id] = "connected" THEN "remove" ELSE "abort", id)
    /\ UNCHANGED <<where, m_conn_mutex, listeners, objects, call, history>>

\* Mutant: it does so without the mutex.
Remove_Unlocked ==
    /\ cb.at = "remove"
    /\ Place(cb.id, "leaving")
    /\ cb' = Doing("OnDisconnected", cb.id)
    /\ app_knows' = app_knows \ {cb.id}
    /\ UNCHANGED <<m_conn_mutex, conn_events, listeners, objects, call, asking, incoming>>

\* The handler's OnDisconnected takes it out of m_connected under m_conn_mutex.
Remove ==
    /\ cb.at = "remove"
    /\ m_conn_mutex = Nobody
    /\ Place(cb.id, "leaving")
    /\ cb' = Doing("OnDisconnected", cb.id)
    /\ app_knows' = app_knows \ {cb.id}
    /\ UNCHANGED <<m_conn_mutex, conn_events, listeners, objects, call, asking, incoming>>

\* What the event thread is back at when a callback has returned.
Resume == IF m_shutdown THEN Doing("stopping", Nobody) ELSE Idle

\* The application returns from OnDisconnected or OnConnectionFailure, and the object
\* is destroyed.
Destroy ==
    /\ LoopAt("OnDisconnected") \/ LoopAt("OnConnectionFailure")
    /\ Destroyed(cb.id)
    /\ cb' = Resume
    /\ UNCHANGED <<m_conn_mutex, listeners, objects, call, asking, app_knows>>

\* What OnDisconnected and OnConnectionFailure retry: persistent outgoing connections, and
\* attempts; nothing in a shutdown.
Reconnects ==
    /\ ~m_shutdown
    /\ cb.at = "OnDisconnected" => app.fPersistent /\ cb.id \notin incoming

\* An event goes on with its object, under another id.
CarriedOver(func, old, new) == IF old \in func THEN (func \ {old}) \cup {new} ELSE func

\* Or the application has it retried: ConnectionBase::Retry under another id, which deletes
\* no event. (Conns also bounds the retries.)
Retry(new) ==
    /\ LoopAt("OnDisconnected") \/ LoopAt("OnConnectionFailure")
    /\ Reconnects
    /\ where[new] = "unused"
    /\ where' = [where EXCEPT ![cb.id] = "gone", ![new] = "attempt"]
    /\ m_disconnect_func' = CarriedOver(m_disconnect_func, cb.id, new)
    /\ m_ping_timeout_func' = CarriedOver(m_ping_timeout_func, cb.id, new)
    /\ cb' = Idle
    /\ UNCHANGED <<m_conn_mutex, listeners, objects, call, history>>

Return ==
    /\ \E at \in ConnCallbacks \cup {"OnStartup"} : LoopAt(at)
    /\ cb' = Resume
    /\ UNCHANGED <<where, m_conn_mutex, conn_events, listeners, objects, call, history>>

ShutdownInt ==
    /\ LoopAt("none") /\ m_event_base /\ ~m_shutdown
    /\ m_shutdown_event = "active"
    /\ m_shutdown_event' = "idle"
    /\ cb' = Doing("swap", Nobody)
    /\ UNCHANGED <<where, m_conn_mutex, conn_events, listeners, m_event_base, rate_limits,
                   m_shutdown, call, history>>

\* Mutant: the groups are freed before the connections are told.
Swap_FreesGroups ==
    /\ cb.at = "swap"
    /\ m_conn_mutex = Nobody
    /\ where' = [id \in Conns |-> IF where[id] = "connected" THEN "leaving" ELSE where[id]]
    /\ m_binds' = binds /\ binds' = m_binds
    /\ m_shutdown' = TRUE
    /\ rate_limits' = FALSE
    /\ cb' = Resume'
    /\ UNCHANGED <<m_conn_mutex, conn_events, m_event_base, m_shutdown_event, call, history>>

\* disconnecting.swap(m_connected) under m_conn_mutex; binds.swap(m_binds).
Swap ==
    /\ cb.at = "swap"
    /\ m_conn_mutex = Nobody
    /\ where' = [id \in Conns |-> IF where[id] = "connected" THEN "leaving" ELSE where[id]]
    /\ m_binds' = binds /\ binds' = m_binds
    /\ m_shutdown' = TRUE
    /\ cb' = Resume'
    /\ UNCHANGED <<m_conn_mutex, conn_events, m_event_base, rate_limits, m_shutdown_event,
                   call, history>>

\* The two loops of ShutdownInt: first over the connections, then over the attempts.
DisconnectNext(id) ==
    /\ cb.at = "stopping"
    /\ where[id] = "leaving"
    /\ cb' = Doing("OnDisconnected", id)
    /\ app_knows' = app_knows \ {id}
    /\ UNCHANGED <<where, m_conn_mutex, conn_events, listeners, objects, call, asking,
                   incoming>>

CancelNext(id) ==
    /\ cb.at = "stopping"
    /\ At("leaving") = {}
    /\ where[id] = "attempt"
    /\ cb' = Doing("OnConnectionFailure", id)
    /\ UNCHANGED <<where, m_conn_mutex, conn_events, listeners, objects, call, history>>

\* Mutant: binds.clear() is missing.
FreeObjects_KeepsBinds ==
    /\ cb.at = "stopping"
    /\ At("leaving") \cup At("attempt") = {}
    /\ rate_limits' = FALSE
    /\ m_shutdown_event' = "free"
    /\ cb' = Doing("loopbreak", Nobody)
    /\ UNCHANGED <<where, m_conn_mutex, conn_events, listeners, m_event_base, m_shutdown,
                   call, history>>

FreeObjects ==
    /\ cb.at = "stopping"
    /\ At("leaving") \cup At("attempt") = {}
    /\ binds' = {}
    /\ rate_limits' = FALSE
    /\ m_shutdown_event' = "free"
    /\ cb' = Doing("loopbreak", Nobody)
    /\ UNCHANGED <<where, m_conn_mutex, conn_events, m_binds, m_event_base, m_shutdown,
                   call, history>>

\* PumpEvents, back from the loop.
PumpEvents ==
    /\ cb.at = "loopbreak"
    /\ m_event_base' = FALSE
    /\ cb' = Doing("OnShutdown", Nobody)
    /\ UNCHANGED <<where, m_conn_mutex, conn_events, listeners, rate_limits,
                   m_shutdown_event, m_shutdown, call, history>>

\* OnShutdown returns, and PumpEvents with false.
Stopped ==
    /\ LoopAt("OnShutdown")
    /\ cb' = Idle
    /\ UNCHANGED <<where, m_conn_mutex, conn_events, listeners, objects, call, history>>

\* The event thread completes what it has begun.
Complete ==
    \/ \E accept \in BOOLEAN : Answer(accept)
    \/ Insert \/ Remove \/ Destroy \/ Return
    \/ ShutdownInt \/ Swap \/ FreeObjects \/ PumpEvents \/ Stopped
    \/ \E id \in Conns : Retry(id) \/ DisconnectNext(id) \/ CancelNext(id)

Arrives(id) ==
    \/ StartConnection(id) \/ OnOutgoingConnected(id) \/ OnIncomingConnected(id)
    \/ OnConnectionFailure(id) \/ PingTimeoutInt(id) \/ DisconnectInt(id)
    \/ \E at \in {"OnReceiveMessages", "OnBytes"} : Traffic(at, id)

Next ==
    \/ Start
    \/ \E p \in Callers, op \in TableOps, id \in Conns : Begin(p, op, id)
    \/ \E p \in Callers, op \in Ops \ TableOps : Begin(p, op, Nobody)
    \/ \E p \in Callers : Step(p)
    \/ Complete
    \/ \E id \in Conns : Arrives(id)

Spec == Init /\ [][Next]_vars

(***************************************************************************)
(* Fairness. PumpEvents "must continue to be called" (handler.h:78), and    *)
(* the application's callbacks return: the event thread completes what it   *)
(* has begun. A thread makes its next step if again and again it can: a      *)
(* bufferevent that is always busy, or a ping timer that always expires,     *)
(* does not shut it out for ever. (POSIX promises that of no mutex; the      *)
(* event thread is out of the locks whenever it polls.) Nothing of the       *)
(* network is assumed to happen.                                             *)
(***************************************************************************)
Fairness ==
    /\ WF_vars(Complete)
    /\ WF_vars(Step(Loop))
    /\ \A p \in Threads : SF_vars(Step(p))

FairSpec == Spec /\ Fairness

-----------------------------------------------------------------------------
(* Properties. *)

\* Types: a CEvent that is active is a connection's, a call's steps are those of its
\* operation, an id is one that was given out.
TypeOK ==
    /\ app \in Apps
    /\ where \in [Conns -> Places]
    /\ m_conn_mutex \in Callers \cup {Nobody}
    /\ m_disconnect_func \subseteq Conns /\ m_ping_timeout_func \subseteq Conns
    /\ m_binds \subseteq Listeners /\ binds \subseteq Listeners
    /\ m_event_base \in BOOLEAN /\ rate_limits \in BOOLEAN
    /\ m_shutdown_event \in {"free", "idle", "active"}
    /\ m_shutdown \in BOOLEAN
    /\ cb \in [at : Callbacks \cup {"none", "insert_outgoing", "insert_incoming", "remove",
                                    "abort", "swap", "stopping", "loopbreak"},
               id : Conns \cup {Nobody}]
    /\ call \in [Callers -> [op : Ops \cup {"none"}, id : Conns \cup {Nobody},
                             at : {"none", "enter", "bev", "disconnect", "add", "del",
                                   "active", "set_cfg", "bind"}]]
    /\ calls \in 0 .. MaxCalls
    /\ asked \in BOOLEAN
    /\ incoming \subseteq Conns /\ app_knows \subseteq Conns

\* handler.cpp, "optional_lock(m_conn_mutex, m_enable_threading)": a connection that a
\* call has found is still in m_connected when the call comes to use it, so that the
\* event thread does not destroy it meanwhile.
InUse(p) == call[p].at \in {"bev", "disconnect", "add", "del"}
UsesConnected == \A p \in Callers : InUse(p) => where[call[p].id] = "connected"

\* What m_conn_mutex is for: the fields it guards are well formed whichever thread moves,
\* and nothing that a call holds on to is taken away under it.
Consistent == TypeOK /\ UsesConnected

\* No thread activates or adds an event of a connection that may be retried: one that does so
\* between DisconnectInt and the erasure from m_connected (connectionbase.cpp:118,
\* handler.cpp:220) finds the connection, and its event goes on with the object.
NothingCarriedOver ==
    app.fPersistent =>
        \A op \in {"CloseConnection", "ResetPingTimeout"} : <<"thread", op>> \notin app.uses

\* A connection that a callback has named as connected is found by every call about it, from
\* whichever thread, until OnDisconnected says that it is gone; in a shutdown OnDisconnected is
\* still to come. So what a callback tells the application it may do has its effect, and no
\* event reports an id that only names an attempt. OnOutgoingConnection and
\* OnIncomingConnection name it earlier, before the insertion, and do not count.
KnownIsFoundAtAll ==
    \A id \in app_knows :
        \/ where[id] = "connected"
        \/ m_shutdown /\ where[id] = "leaving"

KnownIsFound == NothingCarriedOver => KnownIsFoundAtAll

\* An application that calls Shutdown once, and sets the limits of the groups only
\* from the event thread and not from OnShutdown.
Careful ==
    /\ app.once
    /\ \A context \in {"thread", "OnShutdown"} : <<context, "SetGroupLimit">> \notin app.uses

\* handler.cpp, "assert(m_shutdown_event)" in Shutdown, and the group that
\* SetIncomingRateLimit configures: no call finds an object of the session freed.
UsesSessionAtAll ==
    \A p \in Callers :
        /\ call[p].at = "active" => m_shutdown_event # "free"
        /\ call[p].at = "set_cfg" => rate_limits
        /\ call[p].at = "bind" => m_event_base

BindsWhileRunning ==
    \A context \in {"OnDisconnected", "OnConnectionFailure", "OnShutdown"} :
        <<context, "Bind">> \notin app.uses

\* A careful application's calls find the objects of the session allocated, however
\* they fall into ShutdownInt.
UsesSession == Careful /\ BindsWhileRunning => UsesSessionAtAll

\* handler.h, OnShutdown: "connections have been torn down, and binds have been unbound":
\* nothing outlives the event base it was made with.
TornDownAtAll ==
    m_shutdown /\ ~m_event_base =>
        /\ \A id \in Conns : where[id] \in {"unused", "gone"}
        /\ m_binds = {} /\ binds = {}
        /\ m_disconnect_func = {} /\ m_ping_timeout_func = {}

\* It holds if the application binds nothing in the callbacks of ShutdownInt.
TornDown == BindsWhileRunning => TornDownAtAll

\* p's next step waits for q.
WaitsFor(p, q) ==
    \/ /\ m_conn_mutex = q
       /\ \/ call[p].at = "enter"
          \/ p = Loop /\ cb.at \in {"insert_outgoing", "insert_incoming", "remove", "swap"}
    \/ /\ q = Loop /\ p # Loop
       /\ \/ call[p].at = "bev" /\ BevLocked(call[p].id)
          \/ call[p].at = "del" /\ cb = Doing("OnPingTimeout", call[p].id)

\* handler.h, "Whether the handler should be threadsafe": whichever threads there are, one of
\* them waits for none of them. No thread waits for itself, and no threads in a circle.
NoDeadlockAtAll ==
    \A S \in SUBSET Callers : S # {} => \E p \in S : \A q \in S : ~WaitsFor(p, q)

\* An application that looks a connection up in OnBytesRead or OnBytesWritten only if no
\* other thread sends or pauses, and in OnPingTimeout only if none stops a ping timer.
Compatible ==
    /\ (\E op \in TableOps : <<"OnBytes", op>> \in app.uses) =>
           \A op \in BevOps : <<"thread", op>> \notin app.uses
    /\ (\E op \in TableOps : <<"OnPingTimeout", op>> \in app.uses) =>
           <<"thread", "StopPing">> \notin app.uses

\* With such an application the locks are taken in one order.
NoDeadlock == Compatible => NoDeadlockAtAll

\* Every call returns, whatever it waits for. handler.h, Shutdown: "Once finished,
\* OnShutdown is called": whatever the threads hold and wait for, a shutdown that has been
\* asked for completes.
WaitsEnd ==
    Compatible /\ NothingCarriedOver =>
        /\ \A p \in Callers : Calling(p) ~> ~Calling(p)
        /\ m_shutdown_event = "active" ~> m_shutdown /\ ~m_event_base
=============================================================================
