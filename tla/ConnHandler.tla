----------------------------- MODULE ConnHandler -----------------------------
(***************************************************************************)
(* CConnectionHandlerInt (src/handler.cpp): the table of connections and   *)
(* connection attempts, the outgoing slots, the ids, start and shutdown.   *)
(*                                                                         *)
(* All the handler's own code runs on the event thread, one libevent       *)
(* callback at a time; an action is one callback, with everything it calls *)
(* synchronously, except that RequestOutgoingInt's loop over its candidates *)
(* is one step per candidate (`todo`), because other threads may call      *)
(* Shutdown() and CloseConnection() in between. The application's answers  *)
(* (accept or refuse, retry or not, which candidates) and the network's are *)
(* chosen with \E.                                                         *)
(*                                                                         *)
(* A connection object moves between m_connecting and m_connected; it is   *)
(* [kind, persistent, pending], where pending is the one-shot event armed  *)
(* on it: "reconnect" (m_reconnect_func) while it waits out nRetryInterval *)
(* in m_connecting, "disconnect" (m_disconnect_func) after                 *)
(* CloseConnection, else "none". How one object makes its attempts is      *)
(* module ConnAttempt; how a connected one carries data is Connection.     *)
(***************************************************************************)
EXTENDS Integers, Sequences, FiniteSets

CONSTANTS
    MaxSimultaneous,  \* g_max_simultaneous_connecting (8 in the code)
    SizeMod,          \* 2^w of size_t
    MaxConnID,        \* numeric_limits<ConnID>::max(); ids stop short of it
    Limits,           \* values passed to Start(outgoing_limit)
    Candidates,       \* what OnNeedOutgoingConnections may return
    MaxOffer,         \* bound: candidates returned by one such call
    MaxBinds          \* bound: listeners at a time

OutgoingKinds == {"direct", "dns", "proxy"}
ResolveKinds == {"resolve", "proxy_resolve"}
CandidateKinds == OutgoingKinds \cup ResolveKinds \cup {"unset"}

ASSUME ConstantsAssumption ==
    /\ MaxSimultaneous \in Nat
    /\ SizeMod \in Nat
    /\ MaxConnID \in Nat
    /\ Limits \subseteq Nat
    /\ Candidates \subseteq [kind : CandidateKinds, persistent : BOOLEAN]
    /\ MaxOffer \in Nat
    /\ MaxBinds \in Nat

VARIABLES
    m_connected, m_connecting,   \* ConnID -> connection object
    m_dns_resolves,              \* ConnID -> "requested" or "retry"
    m_binds,                     \* the ids of the listeners
    m_connection_index,
    m_outgoing_conn_count, m_incoming_conn_count, m_outgoing_conn_limit,
    m_shutdown, m_event_base,    \* m_event_base: whether it is allocated
    m_request_event,             \* "free", "timer" or "active"
    m_shutdown_event,            \* "free", "idle" or "active"
    todo,                        \* candidates RequestOutgoingInt has yet to start
    app_running, app_out, app_in, app_seen, app_waiting, app_resolving,
                                 \* history of the application's callbacks
    app_dropped                  \* of the resolve-only candidates in app_resolving,
                                 \* those the handler has dropped without an answer

tables == <<m_connected, m_connecting, m_dns_resolves, m_binds>>
counts == <<m_outgoing_conn_count, m_incoming_conn_count>>
events == <<m_request_event, m_shutdown_event>>
session == <<m_outgoing_conn_limit, m_shutdown, m_event_base>>
app == <<app_running, app_out, app_in, app_seen, app_waiting, app_resolving, app_dropped>>
vars == <<tables, m_connection_index, counts, events, session, todo, app>>

ConnIDs == 0 .. MaxConnID
Connections == [kind : OutgoingKinds \cup {"incoming"}, persistent : BOOLEAN,
                pending : {"none", "reconnect", "disconnect"}]
IsOutgoing(conn) == conn.kind \in OutgoingKinds

Put(map, key, val) == [k \in DOMAIN map \cup {key} |-> IF k = key THEN val ELSE map[k]]
Drop(map, key) == [k \in DOMAIN map \ {key} |-> map[k]]
Empty == [k \in {} |-> "none"]
OutgoingIn(map) == {id \in DOMAIN map : IsOutgoing(map[id])}
IncomingIn(map) == {id \in DOMAIN map : ~IsOutgoing(map[id])}

Init ==
    /\ m_connected = Empty
    /\ m_connecting = Empty
    /\ m_dns_resolves = Empty
    /\ m_binds = {}
    /\ m_connection_index = 0
    /\ m_outgoing_conn_count = 0
    /\ m_incoming_conn_count = 0
    /\ m_outgoing_conn_limit = 0
    /\ m_shutdown = FALSE
    /\ m_event_base = FALSE
    /\ m_request_event = "free"
    /\ m_shutdown_event = "free"
    /\ todo = <<>>
    /\ app_running = FALSE
    /\ app_out = {}
    /\ app_in = {}
    /\ app_seen = {}
    /\ app_waiting = 0
    /\ app_resolving = 0
    /\ app_dropped = 0

-----------------------------------------------------------------------------
(* The event loop and the pieces the handlers share. *)

\* Mutant: ShutdownInt does not break the loop.
Dispatch_NoLoopbreak ==
    /\ m_event_base
    /\ m_shutdown_event # "active"
    /\ todo = <<>>

\* libevent runs a callback only inside PumpEvents, when the previous one has
\* returned, and runs an active m_shutdown_event (priority 0) before any other.
Dispatch ==
    /\ m_event_base
    /\ ~m_shutdown
    /\ m_shutdown_event # "active"
    /\ todo = <<>>

\* event_active on m_request_event, skipped when it has been freed.
Activated(event) == IF event = "free" THEN "free" ELSE "active"

\* Mutants: the post-increment is lost; the wrap comes one id early.
NextIndex_Stuck(index) == index
NextIndex_WrapsEarly(index) == IF index + 1 # MaxConnID THEN index + 1 ELSE 0

\* GetNextConnectionIndex hands out `index` and moves it on, wrapping at the maximum.
NextIndex(index) == IF index # MaxConnID THEN index + 1 ELSE 0

\* Bound: the application asks for nothing that needs more ids than are left.
Room(n) == m_connection_index + n <= MaxConnID

\* Conversion of an int to size_t.
SizeT(n) == IF n < 0 THEN n + SizeMod ELSE n
Least(a, b) == IF a <= b THEN a ELSE b

\* Mutant: m_reconnect_func is not added.
Requeue_NoTimer(map, id, conn) == Put(map, id, [conn EXCEPT !.pending = "none_armed"])

\* ConnectionBase::Retry under a new id: back in m_connecting, waiting for
\* nRetryInterval.
Requeue(map, id, conn) == Put(map, id, [conn EXCEPT !.pending = "reconnect"])

\* OnConnectionFailure for the attempt `id` of `connecting`, with `index` the
\* next id and `waiting` the candidates not answered yet; `ret` is the answer
\* of OnConnectionFailure / OnProxyFailure / OnDnsFailure.
FailAttempt(connecting, index, waiting, id, retry, ret) ==
    IF retry /\ ~m_shutdown /\ ret
    THEN /\ m_connecting' = Requeue(Drop(connecting, id), index, connecting[id])
         /\ m_connection_index' = NextIndex(index)
         /\ app_waiting' = waiting
         /\ UNCHANGED m_request_event
    ELSE /\ m_connecting' = Drop(connecting, id)
         /\ m_connection_index' = index
         /\ app_waiting' = waiting - 1
         /\ m_request_event' = Activated(m_request_event)

\* OnResolveFailure for the request `id` of `resolves`.
FailResolve(resolves, resolving, id, retry, ret) ==
    /\ IF retry /\ ~m_shutdown /\ ret
       THEN /\ m_dns_resolves' = Put(resolves, id, "retry")
            /\ app_resolving' = resolving
       ELSE /\ m_dns_resolves' = Drop(resolves, id)
            /\ app_resolving' = resolving - 1
    /\ m_request_event' = Activated(m_request_event)

-----------------------------------------------------------------------------
(* Start, shutdown and the pump. *)

\* Start(outgoing_limit), up to and including m_request_event.active(). It may
\* be called again once OnShutdown has been delivered.
Start(outgoing_limit) ==
    /\ ~app_running
    /\ m_shutdown' = FALSE
    /\ m_outgoing_conn_limit' = outgoing_limit
    /\ m_event_base' = TRUE
    /\ m_request_event' = "active"
    /\ m_shutdown_event' = "idle"
    /\ app_running' = TRUE
    /\ app_resolving' = 0
    /\ app_dropped' = 0
    /\ UNCHANGED <<tables, m_connection_index, counts, todo, app_out, app_in,
                   app_seen, app_waiting>>

\* Shutdown(), from any thread, at any time the handler is up.
Shutdown ==
    /\ m_shutdown_event # "free"
    /\ m_shutdown_event' = "active"
    /\ UNCHANGED <<tables, m_connection_index, counts, session, m_request_event,
                   todo, app>>

\* ShutdownInt: OnDisconnected for every connection, OnConnectionFailure for
\* every outgoing attempt, nothing for the pending resolves.
ShutdownInt ==
    /\ m_event_base /\ ~m_shutdown
    /\ m_shutdown_event = "active"
    /\ todo = <<>>
    /\ m_connected' = Empty
    /\ m_connecting' = Empty
    /\ m_dns_resolves' = Empty
    /\ m_binds' = {}
    /\ m_shutdown' = TRUE
    /\ m_outgoing_conn_count' = m_outgoing_conn_count - Cardinality(OutgoingIn(m_connected))
    /\ m_incoming_conn_count' = m_incoming_conn_count - Cardinality(IncomingIn(m_connected))
    /\ m_request_event' = "free"
    /\ m_shutdown_event' = "free"
    /\ app_out' = app_out \ DOMAIN m_connected
    /\ app_in' = app_in \ DOMAIN m_connected
    /\ app_waiting' = app_waiting - Cardinality(OutgoingIn(m_connecting))
    /\ app_dropped' = app_dropped + Cardinality(DOMAIN m_dns_resolves)
    /\ UNCHANGED <<m_connection_index, m_outgoing_conn_limit, m_event_base, todo,
                   app_running, app_seen, app_resolving>>

\* Mutants: m_shutdown is tested before the loop only; the base is not freed.
PumpEvents_TestsBefore == m_event_base /\ m_shutdown /\ UNCHANGED vars
PumpEvents_KeepsBase ==
    /\ m_event_base /\ m_shutdown
    /\ app_running' = FALSE
    /\ UNCHANGED <<tables, m_connection_index, counts, events, session, todo,
                   app_out, app_in, app_seen, app_waiting, app_resolving, app_dropped>>

\* PumpEvents after ShutdownInt broke the loop: the base goes, OnShutdown.
PumpEvents ==
    /\ m_event_base /\ m_shutdown
    /\ m_event_base' = FALSE
    /\ app_running' = FALSE
    /\ UNCHANGED <<tables, m_connection_index, counts, events, todo,
                   m_outgoing_conn_limit, m_shutdown, app_out, app_in, app_seen,
                   app_waiting, app_resolving, app_dropped>>

-----------------------------------------------------------------------------
(* Outgoing attempts. *)

\* Mutant: attempts under way take no slot.
Need_IgnoresAttempts ==
    SizeT(Least(MaxSimultaneous, m_outgoing_conn_limit - m_outgoing_conn_count))

\* The number RequestOutgoingInt asks the application for.
Need == SizeT(Least(MaxSimultaneous,
                    m_outgoing_conn_limit - m_outgoing_conn_count
                        - Cardinality(DOMAIN m_connecting)))

\* RequestOutgoingInt, fired by its 500 ms timer or by active(): the first
\* `Need` of the candidates offered will be started.
RequestOutgoingInt(offer) ==
    /\ Dispatch
    /\ m_request_event # "free"
    /\ m_request_event' = "timer"
    /\ Room(Len(offer))
    /\ IF Need > 0
       THEN todo' = SubSeq(offer, 1, Least(Len(offer), Need))
       ELSE offer = <<>> /\ UNCHANGED todo
    /\ UNCHANGED <<tables, m_connection_index, counts, session, m_shutdown_event, app>>

\* The loop body of RequestOutgoingInt skips candidates that are not IsSet().
SkipUnset ==
    /\ todo # <<>>
    /\ Head(todo).kind = "unset"
    /\ todo' = Tail(todo)
    /\ UNCHANGED <<tables, m_connection_index, counts, events, session, app>>

\* StartConnection for a resolve-only candidate through a proxy: an id is
\* drawn, and nothing else ("TODO").
StartProxyResolve ==
    /\ todo # <<>>
    /\ Head(todo).kind = "proxy_resolve"
    /\ todo' = Tail(todo)
    /\ m_connection_index' = NextIndex(m_connection_index)
    /\ app_resolving' = app_resolving + 1
    /\ app_dropped' = app_dropped + 1
    /\ UNCHANGED <<tables, counts, events, session, app_running, app_out, app_in,
                   app_seen, app_waiting>>

\* The same without a proxy, for a name evdns answers from within Resolve() (the
\* hosts file): OnDnsResponse, and the request is gone when StartConnection returns.
StartResolveKnown ==
    /\ todo # <<>>
    /\ Head(todo).kind = "resolve"
    /\ todo' = Tail(todo)
    /\ m_connection_index' = NextIndex(m_connection_index)
    /\ UNCHANGED <<tables, counts, events, session, app>>

\* StartConnection for a resolve-only candidate. Resolve() is asynchronous, or
\* fails at once (`sync`: CanResolve() or SetResolveFamily() says no).
StartResolve(sync, retry, ret) ==
    /\ todo # <<>>
    /\ Head(todo).kind = "resolve"
    /\ todo' = Tail(todo)
    /\ m_connection_index' = NextIndex(m_connection_index)
    /\ LET resolves == Put(m_dns_resolves, m_connection_index, "requested")
       IN  IF sync
           THEN FailResolve(resolves, app_resolving + 1, m_connection_index, retry, ret)
           ELSE /\ m_dns_resolves' = resolves
                /\ app_resolving' = app_resolving + 1
                /\ UNCHANGED m_request_event
    /\ UNCHANGED <<m_connected, m_connecting, m_binds, counts, m_shutdown_event, session,
                   app_running, app_out, app_in, app_seen, app_waiting, app_dropped>>

\* StartConnection for a candidate to connect to: Connect() leaves an attempt
\* under way, or fails at once (`sync`: the address cannot be used). Only the
\* DNS path asks for a retry then (dnsconn.cpp: OnResolveFailure).
StartConnection(sync, retry, ret) ==
    /\ todo # <<>>
    /\ Head(todo).kind \in OutgoingKinds
    /\ todo' = Tail(todo)
    /\ LET id == m_connection_index
           conn == [kind |-> Head(todo).kind, persistent |-> Head(todo).persistent,
                    pending |-> "none"]
           connecting == Put(m_connecting, id, conn)
       IN  IF sync
           THEN /\ retry => conn.kind = "dns"
                /\ ret => Room(Len(todo) + 1)
                /\ FailAttempt(connecting, NextIndex(id), app_waiting + 1, id, retry, ret)
           ELSE /\ m_connecting' = connecting
                /\ m_connection_index' = NextIndex(id)
                /\ app_waiting' = app_waiting + 1
                /\ UNCHANGED m_request_event
    /\ UNCHANGED <<m_connected, m_dns_resolves, m_binds, counts, m_shutdown_event, session,
                   app_running, app_out, app_in, app_seen, app_resolving, app_dropped>>

\* m_reconnect_func fires: ConnectionBase::Connect starts the attempt again. A
\* Connect that fails at once is a ConnectionFailure right after it.
Reconnect(id) ==
    /\ Dispatch
    /\ id \in DOMAIN m_connecting
    /\ m_connecting[id].pending = "reconnect"
    /\ m_connecting' = [m_connecting EXCEPT ![id].pending = "none"]
    /\ UNCHANGED <<m_connected, m_dns_resolves, m_binds, m_connection_index, counts, events,
                   session, todo, app>>

\* OnConnectionFailure for an attempt under way.
ConnectionFailure(id, retry, ret) ==
    /\ Dispatch
    /\ id \in DOMAIN m_connecting
    /\ m_connecting[id].pending = "none"
    /\ ret => Room(1)
    /\ FailAttempt(m_connecting, m_connection_index, app_waiting, id, retry, ret)
    /\ UNCHANGED <<m_connected, m_dns_resolves, m_binds, counts, m_shutdown_event, session,
                   todo, app_running, app_out, app_in, app_seen, app_resolving,
                   app_dropped>>

\* OnOutgoingConnected: the application keeps the connection or refuses it,
\* which destroys it on the spot.
OnOutgoingConnected(id, accept) ==
    /\ Dispatch
    /\ id \in DOMAIN m_connecting
    /\ m_connecting[id].pending = "none"
    /\ m_connecting' = Drop(m_connecting, id)
    /\ app_seen' = app_seen \cup {id}
    /\ app_waiting' = app_waiting - 1
    /\ IF accept
       THEN /\ m_connected' = Put(m_connected, id, m_connecting[id])
            /\ m_outgoing_conn_count' = m_outgoing_conn_count + 1
            /\ app_out' = app_out \cup {id}
       ELSE UNCHANGED <<m_connected, m_outgoing_conn_count, app_out>>
    /\ UNCHANGED <<m_dns_resolves, m_binds, m_connection_index, m_incoming_conn_count,
                   events, session, todo, app_running, app_in, app_resolving, app_dropped>>

-----------------------------------------------------------------------------
(* Established connections and listeners. *)

\* accept_conn, OnIncomingConnection, CIncomingConn::Connect and
\* OnIncomingConnected, which all run in one callback.
OnIncomingConnection(accept) ==
    /\ Dispatch
    /\ m_binds # {}
    /\ Room(1)
    /\ m_connection_index' = NextIndex(m_connection_index)
    /\ app_seen' = app_seen \cup {m_connection_index}
    /\ IF accept
       THEN /\ m_connected' = Put(m_connected, m_connection_index,
                    [kind |-> "incoming", persistent |-> FALSE, pending |-> "none"])
            /\ m_incoming_conn_count' = m_incoming_conn_count + 1
            /\ app_in' = app_in \cup {m_connection_index}
       ELSE UNCHANGED <<m_connected, m_incoming_conn_count, app_in>>
    /\ UNCHANGED <<m_connecting, m_dns_resolves, m_binds, m_outgoing_conn_count, events,
                   session, todo, app_running, app_out, app_waiting, app_resolving,
                   app_dropped>>

\* CloseConnection(id, true), from any thread; an id that is not in m_connected
\* is ignored. The graceful form is in module Connection.
CloseConnection(id) ==
    /\ id \in DOMAIN m_connected
    /\ m_connected' = [m_connected EXCEPT ![id].pending = "disconnect"]
    /\ UNCHANGED <<m_connecting, m_dns_resolves, m_binds, m_connection_index, counts, events,
                   session, todo, app>>

\* Mutant: DisconnectInt returns before it tells the handler.
OnDisconnected_Lost(id, ret) ==
    /\ Dispatch
    /\ id \in DOMAIN m_connected
    /\ m_connected' = [m_connected EXCEPT ![id].pending = "none"]
    /\ UNCHANGED <<m_connecting, m_dns_resolves, m_binds, m_connection_index, counts,
                   events, session, todo, app>>

\* DisconnectInt and OnDisconnected: by m_disconnect_func, or when the peer
\* closes, errs or times out. `ret` is the application's answer to a persistent
\* outgoing connection, which then reconnects under a new id.
OnDisconnected(id, ret) ==
    /\ Dispatch
    /\ id \in DOMAIN m_connected
    /\ LET conn == m_connected[id]
           reconnect == conn.persistent /\ IsOutgoing(conn) /\ ~m_shutdown
       IN  /\ m_connected' = Drop(m_connected, id)
           /\ IF IsOutgoing(conn)
              THEN /\ m_outgoing_conn_count' = m_outgoing_conn_count - 1
                   /\ app_out' = app_out \ {id}
                   /\ UNCHANGED <<m_incoming_conn_count, app_in>>
              ELSE /\ m_incoming_conn_count' = m_incoming_conn_count - 1
                   /\ app_in' = app_in \ {id}
                   /\ UNCHANGED <<m_outgoing_conn_count, app_out>>
           /\ ret => Room(1)
           /\ IF reconnect /\ ret
              THEN /\ m_connecting' = Requeue(m_connecting, m_connection_index, conn)
                   /\ m_connection_index' = NextIndex(m_connection_index)
                   /\ app_waiting' = app_waiting + 1
                   /\ UNCHANGED m_request_event
              ELSE /\ m_request_event' = Activated(m_request_event)
                   /\ UNCHANGED <<m_connecting, m_connection_index, app_waiting>>
    /\ UNCHANGED <<m_dns_resolves, m_binds, m_shutdown_event, session, todo, app_running,
                   app_seen, app_resolving, app_dropped>>

\* Bind(conn), on the event thread: an id is drawn whether or not the listener
\* could be opened (`ok`).
Bind(ok) ==
    /\ Dispatch
    /\ Room(1)
    /\ Cardinality(m_binds) < MaxBinds
    /\ m_connection_index' = NextIndex(m_connection_index)
    /\ m_binds' = IF ok THEN m_binds \cup {m_connection_index} ELSE m_binds
    /\ UNCHANGED <<m_connected, m_connecting, m_dns_resolves, counts, events, session, todo,
                   app>>

-----------------------------------------------------------------------------
(* Resolve-only requests. *)

\* Mutant: the answered request is not erased.
OnResolveComplete_Kept(id) ==
    /\ Dispatch
    /\ id \in DOMAIN m_dns_resolves
    /\ m_dns_resolves[id] = "requested"
    /\ app_resolving' = app_resolving - 1
    /\ UNCHANGED <<tables, m_connection_index, counts, events, session, todo,
                   app_running, app_out, app_in, app_seen, app_waiting, app_dropped>>

\* OnResolveComplete: OnDnsResponse and the request is gone.
OnResolveComplete(id) ==
    /\ Dispatch
    /\ id \in DOMAIN m_dns_resolves
    /\ m_dns_resolves[id] = "requested"
    /\ m_dns_resolves' = Drop(m_dns_resolves, id)
    /\ app_resolving' = app_resolving - 1
    /\ UNCHANGED <<m_connected, m_connecting, m_binds, m_connection_index, counts, events,
                   session, todo, app_running, app_out, app_in, app_seen, app_waiting,
                   app_dropped>>

\* OnResolveFailure: OnDnsFailure, and the same request, under the same id, is
\* made again or gone.
OnResolveFailure(id, retry, ret) ==
    /\ Dispatch
    /\ id \in DOMAIN m_dns_resolves
    /\ m_dns_resolves[id] = "requested"
    /\ FailResolve(m_dns_resolves, app_resolving, id, retry, ret)
    /\ UNCHANGED <<m_connected, m_connecting, m_binds, m_connection_index, counts,
                   m_shutdown_event, session, todo, app_running, app_out, app_in,
                   app_seen, app_waiting, app_dropped>>

\* CResolveOnly's m_retry_event fires: Resolve() again.
RetryResolve(id) ==
    /\ Dispatch
    /\ id \in DOMAIN m_dns_resolves
    /\ m_dns_resolves[id] = "retry"
    /\ m_dns_resolves' = [m_dns_resolves EXCEPT ![id] = "requested"]
    /\ UNCHANGED <<m_connected, m_connecting, m_binds, m_connection_index, counts, events,
                   session, todo, app>>

-----------------------------------------------------------------------------
Offers == UNION {[1 .. n -> Candidates] : n \in 0 .. MaxOffer}

\* The candidates of one callback, one step each.
StartNext ==
    \/ SkipUnset
    \/ StartProxyResolve
    \/ StartResolveKnown
    \/ \E sync, retry, ret \in BOOLEAN :
           StartResolve(sync, retry, ret) \/ StartConnection(sync, retry, ret)

\* An attempt under way ends: connected, refused or failed.
AttemptEnds(id) ==
    \/ \E accept \in BOOLEAN : OnOutgoingConnected(id, accept)
    \/ \E retry, ret \in BOOLEAN : ConnectionFailure(id, retry, ret)

ResolveEnds(id) ==
    \/ OnResolveComplete(id)
    \/ \E retry, ret \in BOOLEAN : OnResolveFailure(id, retry, ret)

Next ==
    \/ \E limit \in Limits : Start(limit)
    \/ Shutdown
    \/ ShutdownInt
    \/ PumpEvents
    \/ \E offer \in Offers : RequestOutgoingInt(offer)
    \/ StartNext
    \/ \E ok \in BOOLEAN : Bind(ok)
    \/ \E accept \in BOOLEAN : OnIncomingConnection(accept)
    \/ \E id \in ConnIDs :
           \/ AttemptEnds(id)
           \/ Reconnect(id)
           \/ CloseConnection(id)
           \/ \E ret \in BOOLEAN : OnDisconnected(id, ret)
           \/ ResolveEnds(id)
           \/ RetryResolve(id)

Spec == Init /\ [][Next]_vars

(***************************************************************************)
(* Fairness. The application keeps calling PumpEvents until it returns     *)
(* false (handler.h, PumpEvents), so every event that stays active or whose *)
(* timer runs out is delivered: the pump itself, the candidates of a       *)
(* callback that has begun, the reconnect timer, the end of an attempt     *)
(* (nConnTimeout bounds it), m_disconnect_func and the answer to a DNS     *)
(* request (libevent times it out). Those of single connections get strong *)
(* fairness: the loop runs active events of one priority in the order they *)
(* became active, so none is passed over for ever for the sake of callbacks *)
(* that come again and again. Nothing is assumed of the application or the *)
(* peers.                                                                   *)
(***************************************************************************)
\* What the loop has in store for `id`, which is in one table at a time.
Serve(id) ==
    \/ Reconnect(id) \/ AttemptEnds(id)
    \/ RetryResolve(id) \/ ResolveEnds(id)
    \/ /\ id \in DOMAIN m_connected
       /\ m_connected[id].pending = "disconnect"
       /\ \E ret \in BOOLEAN : OnDisconnected(id, ret)

Fairness ==
    /\ WF_vars(ShutdownInt)
    /\ WF_vars(PumpEvents)
    /\ WF_vars(StartNext)
    /\ \A id \in ConnIDs : SF_vars(Serve(id))

FairSpec == Spec /\ Fairness

-----------------------------------------------------------------------------
(* Properties. *)

TablesOK ==
    /\ DOMAIN m_connected \subseteq ConnIDs
    /\ \A id \in DOMAIN m_connected : m_connected[id] \in Connections
    /\ DOMAIN m_connecting \subseteq ConnIDs
    /\ \A id \in DOMAIN m_connecting :
           /\ m_connecting[id] \in Connections
           /\ IsOutgoing(m_connecting[id])
           /\ m_connecting[id].pending # "disconnect"
    /\ DOMAIN m_dns_resolves \subseteq ConnIDs
    /\ m_binds \subseteq ConnIDs

FieldsOK ==
    /\ m_connection_index \in ConnIDs
    /\ m_outgoing_conn_count \in Int /\ m_incoming_conn_count \in Int
    /\ m_outgoing_conn_limit \in Nat
    /\ m_request_event \in {"free", "timer", "active"}
    /\ m_shutdown_event \in {"free", "idle", "active"}
    /\ todo \in Seq(Candidates)

AppOK ==
    /\ app_out \subseteq ConnIDs /\ app_in \subseteq ConnIDs /\ app_seen \subseteq ConnIDs
    /\ app_waiting \in Int /\ app_resolving \in Int /\ app_dropped \in Int

FlagsOK == m_shutdown \in BOOLEAN /\ m_event_base \in BOOLEAN /\ app_running \in BOOLEAN

\* Types. m_connecting holds outgoing attempts only, and an attempt never has
\* the m_disconnect_func of its former connection armed: DisconnectInt deletes it.
TypeOK == TablesOK /\ FieldsOK /\ AppOK /\ FlagsOK

\* The counters RequestOutgoingInt budgets with are the sizes of the table they
\* stand for. They are kept by hand in four handlers (OnOutgoingConnected,
\* OnIncomingConnected, OnDisconnected, ShutdownInt); ShutdownInt and Start
\* assert that they end at 0.
CountsMatch ==
    /\ m_outgoing_conn_count = Cardinality(OutgoingIn(m_connected))
    /\ m_incoming_conn_count = Cardinality(IncomingIn(m_connected))

\* RequestOutgoingInt never overshoots the target of Start, whatever is retried,
\* reconnected or started in between: connected, attempted and about to be
\* attempted together fit in the limit. With it the int computed there is never
\* negative, so its conversion to size_t never asks for 2^w connections.
OutgoingBudget ==
    m_event_base => m_outgoing_conn_count + Cardinality(DOMAIN m_connecting) + Len(todo)
                        <= m_outgoing_conn_limit

\* An id names one thing in the handler, and an id an application has been told
\* of is never given to a new attempt: a reconnection gets a new one.
IdsUnique ==
    /\ DOMAIN m_connecting \cap app_seen = {}
    /\ DOMAIN m_connected \subseteq app_seen
    /\ DOMAIN m_dns_resolves \cap (DOMAIN m_connecting \cup app_seen) = {}
    /\ m_binds \cap (DOMAIN m_connecting \cup DOMAIN m_dns_resolves \cup app_seen) = {}

\* Every asserted state: when the handler stops (the asserts at the end of
\* ShutdownInt) and when it may be started again (those at the top of Start).
CleanStop ==
    m_shutdown \/ ~m_event_base =>
        /\ DOMAIN m_connected = {} /\ DOMAIN m_connecting = {}
        /\ DOMAIN m_dns_resolves = {} /\ m_binds = {} /\ todo = <<>>
        /\ m_outgoing_conn_count = 0 /\ m_incoming_conn_count = 0
        /\ m_request_event = "free" /\ m_shutdown_event = "free"

\* What handler.cpp relies on from one callback to the next and asserts in ShutdownInt and
\* Start: well-typed tables, counters that are their sizes, and an end that leaves nothing.
Consistent == TypeOK /\ CountsMatch /\ CleanStop

\* What an application reconstructs from its callbacks alone is what the handler
\* holds: it knows exactly the connections that are open, and it is owed an
\* outcome for exactly the attempts that exist.
AppViewMatches ==
    /\ app_running = m_event_base
    /\ app_out = OutgoingIn(m_connected)
    /\ app_in = IncomingIn(m_connected)
    /\ app_waiting = Cardinality(DOMAIN m_connecting)

\* The handler implements the promises of handler.h, told from the callbacks.
C == INSTANCE HandlerContract WITH
         Ids <- ConnIDs, app_limit <- m_outgoing_conn_limit
KeepsContract == C!Contract

\* A Shutdown() that was called is followed by OnShutdown ("Once finished,
\* OnShutdown is called").
ShutdownCompletes == m_shutdown_event = "active" ~> ~app_running

\* An attempt is never stuck: its id is connected, refused, failed or retried
\* under another id.
AttemptsEnd ==
    \A id \in ConnIDs : id \in DOMAIN m_connecting ~> id \notin DOMAIN m_connecting

\* CloseConnection(id, true) does disconnect the connection it was called for.
CloseTakesEffect ==
    \A id \in ConnIDs :
        id \in DOMAIN m_connected /\ m_connected[id].pending = "disconnect"
            ~> id \notin DOMAIN m_connected

\* handler.h, OnDnsResponse and OnDnsFailure: a resolve-only candidate that was taken is a
\* request under way until one of them answers it, through retries, lookups that end at once
\* and restarts. What the code drops without an answer is counted apart, and there is nothing
\* else: requests through a proxy (a TODO, for all that Readme.md announces "RESOLVE command
\* for Tor DNS queries over SOCKS5"), and those that a shutdown finds under way.
ResolvesTracked == app_resolving = Cardinality(DOMAIN m_dns_resolves) + app_dropped
=============================================================================
