-------------------------- MODULE ApiThreadsProofs --------------------------
(***************************************************************************)
(* ApiThreads, proved for every number of threads, connections, listeners  *)
(* and calls, and for every application.                                   *)
(*                                                                         *)
(* The argument has three strands. A call that is using a connection holds *)
(* m_conn_mutex (MutexOK), and what takes connections out of m_connected   *)
(* waits for it: hence UsesConnected. Where a connection is follows from   *)
(* what the event thread is at (CbOK, PlacesOK), so that its events never  *)
(* outlive its object (EventsOK), and where no thread adds one behind      *)
(* DisconnectInt they do not outlive the connection either (CarriedOK):    *)
(* a callback then names only what calls find (KnownOK). And the session   *)
(* goes through phases that m_event_base and m_shutdown tell apart         *)
(* (BeforeOK to StoppedOK): each says what of it is still allocated, which *)
(* a call relies on that has been made but not yet carried out (CallOK,    *)
(* BindsOK, OnceOK).                                                       *)
(***************************************************************************)
EXTENDS ApiThreads, TLAPS

\* What the event thread is at with a connection in neither map, before the insertion.

Offering == {"OnOutgoingConnection", "OnIncomingConnection",
             "insert_outgoing", "insert_incoming"}

\* Where a call may be, and what it is made from: the step belongs to the operation, the
\* application calls that operation from there, and nothing is called before Start.
CallOK ==
    \A p \in Callers :
        /\ call[p].at = "enter" => call[p].op \in TableOps
        /\ call[p].at = "bev" => call[p].op \in BevOps
        /\ call[p].at = "disconnect" => call[p].op = "CloseConnection"
        /\ call[p].at = "add" => call[p].op = "ResetPingTimeout"
        /\ call[p].at = "del" => call[p].op = "StopPing"
        /\ call[p].at = "active" => call[p].op = "Shutdown"
        /\ call[p].at = "set_cfg" => call[p].op = "SetGroupLimit"
        /\ call[p].at = "bind" => call[p].op = "Bind" /\ p = Loop
        /\ call[p].at = "enter" \/ InUse(p) => call[p].id \in Conns
        /\ Calling(p) => <<Context(p), call[p].op>> \in app.uses
        /\ Calling(p) => m_event_base \/ m_shutdown

\* m_conn_mutex is held by whoever uses a connection, and by nobody else.
MutexOK == \A p \in Callers : InUse(p) <=> m_conn_mutex = p

\* The table in which the connection of a callback is.
CbOK ==
    /\ cb.at \in (ConnCallbacks \ {"OnPingTimeout"}) \cup {"remove"} =>
           cb.id \in Conns /\ where[cb.id] = "connected"
    /\ cb.at \in Offering => cb.id \in Conns /\ where[cb.id] = "offered"
    /\ cb.at = "OnDisconnected" => cb.id \in Conns /\ where[cb.id] = "leaving"
    /\ cb.at = "OnConnectionFailure" =>
           cb.id \in Conns /\ where[cb.id] \in {"leaving", "attempt"}

\* A connection in neither map is the one the event thread is at, or in ShutdownInt.
PlacesOK ==
    \A id \in Conns :
        /\ where[id] = "offered" => cb.id = id /\ cb.at \in Offering
        /\ where[id] = "leaving" =>
               \/ m_shutdown
               \/ cb.id = id /\ cb.at \in {"OnDisconnected", "OnConnectionFailure"}

\* No CEvent is active or added but of an object that is there.
EventsOK ==
    \A id \in m_disconnect_func \cup m_ping_timeout_func :
        where[id] \in {"attempt", "offered", "connected", "leaving"}

\* If no thread adds one behind DisconnectInt, none of a connection that is not, or was not
\* just now, connected; and a connection that may be retried has none left.
CarriedOK ==
    NothingCarriedOver =>
        /\ \A id \in m_disconnect_func \cup m_ping_timeout_func :
               where[id] \in {"connected", "leaving"}
        /\ \/ cb.at = "OnConnectionFailure"
           \/ app.fPersistent /\ ~m_shutdown /\ cb.at \in {"remove", "OnDisconnected"}
           => cb.id \notin m_disconnect_func \cup m_ping_timeout_func

\* Then what the application knows is there, until it is told that it is gone.
KnownOK ==
    NothingCarriedOver =>
        /\ \A id \in app_knows :
               where[id] = "connected" \/ (m_shutdown /\ where[id] = "leaving")
        /\ cb.at \in {"OnDisconnected", "OnConnectionFailure"} => cb.id \notin app_knows

\* What of the session exists: before Start, until ShutdownInt takes the connections,
\* until it has freed the objects, and after.
BeforeOK ==
    ~m_event_base /\ ~m_shutdown =>
        /\ cb = Idle
        /\ m_binds = {}
        /\ \A id \in Conns : where[id] = "unused"
RunningOK ==
    m_event_base /\ ~m_shutdown =>
        /\ m_shutdown_event # "free" /\ rate_limits
        /\ cb.at \notin {"stopping", "loopbreak", "OnShutdown"}
StoppingOK ==
    m_event_base /\ m_shutdown =>
        /\ cb.at \in {"stopping", "OnDisconnected", "OnConnectionFailure", "loopbreak"}
        /\ \A id \in Conns : where[id] # "connected"
        /\ cb.at # "loopbreak" => m_shutdown_event # "free" /\ rate_limits
StoppedOK ==
    /\ m_shutdown /\ ~m_event_base => cb.at \in {"OnShutdown", "none"}
    /\ m_shutdown /\ cb.at \in {"loopbreak", "OnShutdown", "none"} =>
           /\ \A id \in Conns : where[id] \in {"unused", "gone"}
           /\ binds = {}
    /\ ~m_shutdown => binds = {}

\* No listener is bound any more once ShutdownInt has taken the listeners.
BindsOK == BindsWhileRunning /\ m_shutdown => m_binds = {}

\* A Shutdown that is called once is over when ShutdownInt runs.
Done == m_shutdown_event = "active" \/ cb.at = "swap" \/ m_shutdown
OnceOK ==
    app.once =>
        /\ \A p, q \in Callers : call[p].at = "active" /\ call[q].at = "active" => p = q
        /\ \A p \in Callers : call[p].at = "active" => asked /\ ~Done
        /\ Done => asked

\* The inductive invariant.
Inv ==
    /\ TypeOK /\ CallOK /\ MutexOK /\ UsesConnected
    /\ CbOK /\ PlacesOK /\ EventsOK /\ CarriedOK /\ KnownOK
    /\ BeforeOK /\ RunningOK /\ StoppingOK /\ StoppedOK
    /\ BindsOK /\ OnceOK

-----------------------------------------------------------------------------
(* Init, and facts about calls. *)

\* What a call does with the connection it found is what its operation says.
LEMMA UseStep ==
  ASSUME NEW op \in TableOps
  PROVE  /\ Use(op) \in {"bev", "disconnect", "add", "del"}
         /\ Use(op) = "bev" => op \in BevOps
         /\ Use(op) = "disconnect" => op = "CloseConnection"
         /\ Use(op) = "add" => op = "ResetPingTimeout"
         /\ Use(op) = "del" => op = "StopPing"
BY DEF TableOps, Use

\* A call begins with the lookup or, if it is about no connection, with its only step.
LEMMA FirstStep ==
  ASSUME NEW op \in Ops
  PROVE  /\ op \in TableOps => First(op) = "enter"
         /\ op = "Shutdown" => First(op) = "active"
         /\ op = "SetGroupLimit" => First(op) = "set_cfg"
         /\ op = "Bind" => First(op) = "bind"
         /\ op \in TableOps \/ op \in {"Shutdown", "SetGroupLimit", "Bind"}
BY DEF Ops, TableOps, BevOps, First

\* Before Start nothing is called, allocated or locked.
LEMMA InitInv == Init => Inv
<1> SUFFICES ASSUME Init PROVE Inv
  OBVIOUS
<1> USE DEF Init
<1>1. TypeOK
  <2>1. /\ cb.at = "none" /\ cb.id = Nobody
        /\ cb \in [at : Callbacks \cup {"none", "insert_outgoing", "insert_incoming",
                                       "remove", "abort", "swap", "stopping", "loopbreak"},
                   id : Conns \cup {Nobody}]
    BY DEF Idle, Doing
  <2>2. NoCall \in [op : Ops \cup {"none"}, id : Conns \cup {Nobody},
                   at : {"none", "enter", "bev", "disconnect", "add", "del",
                         "active", "set_cfg", "bind"}]
    BY DEF NoCall
  <2>3. where \in [Conns -> Places] /\ call \in [Callers -> {NoCall}]
    BY DEF Places
  <2>4. calls \in 0 .. MaxCalls /\ m_conn_mutex \in Callers \cup {Nobody}
    BY ConstantsAssumption
  <2> QED
    BY <2>1, <2>2, <2>3, <2>4 DEF TypeOK
<1>2. CallOK /\ MutexOK /\ UsesConnected
  BY ConstantsAssumption DEF CallOK, MutexOK, UsesConnected, InUse, Calling, NoCall, Callers
<1>3. CbOK /\ PlacesOK /\ EventsOK /\ CarriedOK /\ KnownOK
  BY DEF CbOK, PlacesOK, EventsOK, CarriedOK, KnownOK, Idle, Doing, ConnCallbacks, Offering
<1>4. BeforeOK /\ RunningOK /\ StoppingOK /\ StoppedOK
  BY DEF BeforeOK, RunningOK, StoppingOK, StoppedOK
<1>5. BindsOK /\ OnceOK
  BY DEF BindsOK, OnceOK, Done, Idle, Doing, NoCall
<1> QED
  BY <1>1, <1>2, <1>3, <1>4, <1>5 DEF Inv

\* What the event thread does between calls of its own leaves the calls in progress alone.
LEMMA LoopCalls ==
  ASSUME Inv, UNCHANGED <<m_conn_mutex, call, app>>, ~Calling(Loop),
         m_event_base \/ m_shutdown => m_event_base' \/ m_shutdown'
  PROVE  CallOK' /\ MutexOK'
BY DEF Inv, CallOK, MutexOK, Calling, InUse, Context

\* The application calls from the event thread only in a callback.
LEMMA LoopCallsFrom ==
  ASSUME Inv, cb.at \notin Callbacks
  PROVE  ~Calling(Loop)
<1>1. app.uses \subseteq Contexts \X Ops
  BY ConstantsAssumption DEF Inv, TypeOK
<1>2. cb.at # "thread" => cb.at \notin Contexts
  BY DEF Contexts
<1>3. cb.at # "thread"
  BY DEF Inv, TypeOK
<1> QED
  BY <1>1, <1>2, <1>3 DEF Inv, CallOK, Context, Callers

-----------------------------------------------------------------------------
(* The event thread. *)

\* Start: the session begins with its objects allocated and OnStartup.
LEMMA StartInv ==
  ASSUME Inv, Start PROVE Inv'
<1> USE DEF Start, LoopAt, Doing, asking, history, listeners, conn_events
<1>1. TypeOK'
  BY DEF Inv, TypeOK, Callbacks
<1>2. CallOK' /\ MutexOK'
  BY LoopCalls
<1>3. UsesConnected'
  BY DEF Inv, UsesConnected, InUse
<1>4. CbOK'
  BY DEF CbOK, Offering, ConnCallbacks
<1>5. PlacesOK' /\ KnownOK'
  BY DEF Inv, KnownOK, NothingCarriedOver, PlacesOK, Offering
<1>6. EventsOK' /\ CarriedOK'
  BY DEF Inv, CarriedOK, NothingCarriedOver, EventsOK
<1>7. BeforeOK' /\ RunningOK'
  BY DEF BeforeOK, RunningOK
<1>8. StoppingOK' /\ StoppedOK'
  BY DEF Inv, StoppingOK, StoppedOK
<1>9. BindsOK' /\ OnceOK'
  BY DEF Inv, BindsOK, OnceOK, Done
<1> QED
  BY <1>1, <1>2, <1>3, <1>4, <1>5, <1>6, <1>7, <1>8, <1>9 DEF Inv

\* An attempt is in m_connecting, where no call finds it.
LEMMA StartConnectionInv ==
  ASSUME Inv, NEW id \in Conns, StartConnection(id) PROVE Inv'
<1> USE DEF StartConnection, Dispatch, Place, objects, asking, history, listeners, conn_events,
           LoopAt
<1>1. TypeOK'
  BY DEF Inv, TypeOK, Places
<1>2. CallOK' /\ MutexOK'
  BY LoopCalls
<1>3. UsesConnected'
  BY DEF Inv, UsesConnected, InUse
<1>4. CbOK'
  BY DEF Inv, CbOK
<1>5. PlacesOK' /\ KnownOK'
  BY DEF Inv, KnownOK, NothingCarriedOver, PlacesOK
<1>6. EventsOK' /\ CarriedOK'
  BY DEF Inv, CarriedOK, NothingCarriedOver, EventsOK
<1>7. BeforeOK' /\ RunningOK'
  BY DEF Inv, BeforeOK, RunningOK
<1>8. StoppingOK' /\ StoppedOK'
  BY DEF Inv, StoppingOK, StoppedOK
<1>9. BindsOK' /\ OnceOK'
  BY DEF Inv, BindsOK, OnceOK, Done
<1> QED
  BY <1>1, <1>2, <1>3, <1>4, <1>5, <1>6, <1>7, <1>8, <1>9 DEF Inv

\* Out of m_connecting: the event thread is the only one that knows it.
LEMMA OnOutgoingConnectedInv ==
  ASSUME Inv, NEW id \in Conns, OnOutgoingConnected(id) PROVE Inv'
<1> USE DEF OnOutgoingConnected, Dispatch, Place, Doing, objects, asking, history, listeners,
           conn_events, LoopAt
<1>1. TypeOK'
  BY DEF Inv, TypeOK, Callbacks, Places
<1>2. CallOK' /\ MutexOK'
  BY LoopCalls
<1>3. UsesConnected'
  BY DEF Inv, UsesConnected, InUse
<1>4. CbOK'
  BY DEF Inv, TypeOK, CbOK, ConnCallbacks
<1>5. PlacesOK' /\ KnownOK'
  BY DEF Inv, KnownOK, NothingCarriedOver, PlacesOK, Offering
<1>6. EventsOK' /\ CarriedOK'
  BY DEF Inv, CarriedOK, NothingCarriedOver, EventsOK
<1>7. BeforeOK' /\ RunningOK'
  BY DEF Inv, BeforeOK, RunningOK
<1>8. StoppingOK' /\ StoppedOK'
  BY DEF Inv, StoppingOK, StoppedOK
<1>9. BindsOK' /\ OnceOK'
  BY DEF Inv, BindsOK, OnceOK, Done
<1> QED
  BY <1>1, <1>2, <1>3, <1>4, <1>5, <1>6, <1>7, <1>8, <1>9 DEF Inv

\* The same for a connection a listener has accepted.
LEMMA OnIncomingConnectedInv ==
  ASSUME Inv, NEW id \in Conns, OnIncomingConnected(id) PROVE Inv'
<1> USE DEF OnIncomingConnected, Dispatch, Place, Doing, objects, asking, history, listeners,
           conn_events, LoopAt
<1>1. TypeOK'
  BY DEF Inv, TypeOK, Callbacks, Places
<1>2. CallOK' /\ MutexOK'
  BY LoopCalls
<1>3. UsesConnected'
  BY DEF Inv, UsesConnected, InUse
<1>4. CbOK'
  BY DEF Inv, TypeOK, CbOK, ConnCallbacks
<1>5. PlacesOK' /\ KnownOK'
  BY DEF Inv, KnownOK, NothingCarriedOver, PlacesOK, Offering
<1>6. EventsOK' /\ CarriedOK'
  BY DEF Inv, CarriedOK, NothingCarriedOver, EventsOK
<1>7. BeforeOK' /\ RunningOK'
  BY DEF Inv, BeforeOK, RunningOK
<1>8. StoppingOK' /\ StoppedOK'
  BY DEF Inv, StoppingOK, StoppedOK
<1>9. BindsOK' /\ OnceOK'
  BY DEF Inv, BindsOK, OnceOK, Done
<1> QED
  BY <1>1, <1>2, <1>3, <1>4, <1>5, <1>6, <1>7, <1>8, <1>9 DEF Inv

\* Accepted, it is inserted next; refused, nothing points to it.
LEMMA AnswerInv ==
  ASSUME Inv, NEW accept \in BOOLEAN, Answer(accept) PROVE Inv'
<1> USE DEF Answer, Destroyed, LoopAt, Place, Doing, Idle, objects, asking, history, listeners,
           conn_events
<1>1. TypeOK'
  BY DEF Inv, TypeOK, Places
<1>2. CallOK' /\ MutexOK'
  BY LoopCalls
<1>3. UsesConnected'
  BY DEF Inv, TypeOK, UsesConnected, InUse, CallOK, CbOK, Offering
<1>4. CbOK'
  BY DEF Inv, CbOK, Offering, ConnCallbacks
<1>5. PlacesOK' /\ KnownOK'
  <2>1. PlacesOK'
    BY DEF Inv, TypeOK, PlacesOK, Offering
  <2>2. /\ where[cb.id] = "offered"
        /\ where' = where \/ where' = [where EXCEPT ![cb.id] = "gone"]
    BY DEF Inv, CbOK, Offering
  <2>3. cb'.at \notin {"OnDisconnected", "OnConnectionFailure"}
    OBVIOUS
  <2> QED
    BY <2>1, <2>2, <2>3 DEF Inv, TypeOK, KnownOK, NothingCarriedOver
<1>6. EventsOK' /\ CarriedOK'
  BY DEF Inv, CarriedOK, NothingCarriedOver, TypeOK, CbOK, EventsOK, Offering
<1>7. BeforeOK' /\ RunningOK'
  BY DEF Inv, BeforeOK, RunningOK
<1>8. StoppingOK' /\ StoppedOK'
  BY DEF Inv, StoppingOK, StoppedOK
<1>9. BindsOK' /\ OnceOK'
  BY DEF Inv, BindsOK, BindsWhileRunning, OnceOK, Done
<1> QED
  BY <1>1, <1>2, <1>3, <1>4, <1>5, <1>6, <1>7, <1>8, <1>9 DEF Inv

\* Insertion into m_connected comes before OnReadyForFirstSend; the mutex is free for it.
LEMMA InsertInv ==
  ASSUME Inv, Insert PROVE Inv'
<1> USE DEF Insert, Names, Place, Doing, Idle, objects, asking, history, listeners, conn_events
<1>1. TypeOK'
  BY DEF Inv, TypeOK, CbOK, Offering, Callbacks, ConnCallbacks, Places
<1>2. CallOK' /\ MutexOK'
  <2>1. ~Calling(Loop)
    BY LoopCallsFrom DEF Callbacks, ConnCallbacks
  <2> QED
    BY <2>1, LoopCalls
<1>3. UsesConnected'
  BY DEF Inv, UsesConnected, InUse
<1>4. CbOK'
  BY DEF Inv, TypeOK, CbOK, Offering, ConnCallbacks
<1>5. PlacesOK' /\ KnownOK'
  <2>1. PlacesOK'
    BY DEF Inv, TypeOK, PlacesOK
  <2>2. app_knows' \subseteq app_knows \cup {cb.id} /\ where'[cb.id] = "connected"
        /\ \A id \in Conns \ {cb.id} : where'[id] = where[id]
    BY DEF Inv, TypeOK, CbOK, Offering
  <2>3. cb'.at \in {"OnReadyForFirstSend", "none"}
    OBVIOUS
  <2> QED
    BY <2>1, <2>2, <2>3 DEF Inv, TypeOK, KnownOK, NothingCarriedOver
<1>6. EventsOK' /\ CarriedOK'
  BY DEF Inv, CarriedOK, NothingCarriedOver, EventsOK
<1>7. BeforeOK' /\ RunningOK'
  BY DEF Inv, BeforeOK, RunningOK
<1>8. StoppingOK' /\ StoppedOK'
  BY DEF Inv, StoppingOK, StoppedOK
<1>9. BindsOK' /\ OnceOK'
  BY DEF Inv, BindsOK, BindsWhileRunning, OnceOK, Done
<1> QED
  BY <1>1, <1>2, <1>3, <1>4, <1>5, <1>6, <1>7, <1>8, <1>9 DEF Inv

\* A failed attempt leaves m_connecting for its callback.
LEMMA OnConnectionFailureInv ==
  ASSUME Inv, NEW id \in Conns, OnConnectionFailure(id) PROVE Inv'
<1> USE DEF OnConnectionFailure, Dispatch, Place, Doing, objects, asking, history, listeners,
           conn_events, LoopAt
<1>1. TypeOK'
  BY DEF Inv, TypeOK, Callbacks, Places
<1>2. CallOK' /\ MutexOK'
  BY LoopCalls
<1>3. UsesConnected'
  BY DEF Inv, UsesConnected, InUse
<1>4. CbOK'
  BY DEF CbOK, Offering, ConnCallbacks
<1>5. PlacesOK' /\ KnownOK'
  BY DEF Inv, KnownOK, NothingCarriedOver, PlacesOK, Offering
<1>6. EventsOK' /\ CarriedOK'
  BY DEF Inv, CarriedOK, NothingCarriedOver, EventsOK
<1>7. BeforeOK' /\ RunningOK'
  BY DEF Inv, BeforeOK, RunningOK
<1>8. StoppingOK' /\ StoppedOK'
  BY DEF Inv, StoppingOK, StoppedOK
<1>9. BindsOK' /\ OnceOK'
  BY DEF Inv, BindsOK, OnceOK, Done
<1> QED
  BY <1>1, <1>2, <1>3, <1>4, <1>5, <1>6, <1>7, <1>8, <1>9 DEF Inv

\* Callbacks about traffic are for connections in m_connected.
LEMMA TrafficInv ==
  ASSUME Inv, NEW at, NEW id \in Conns, Traffic(at, id) PROVE Inv'
<1> USE DEF Traffic, Names, Dispatch, Doing, objects, asking, history, listeners,
           conn_events, LoopAt
<1>1. TypeOK'
  BY DEF Inv, TypeOK, Callbacks, ConnCallbacks
<1>2. CallOK' /\ MutexOK'
  BY LoopCalls
<1>3. UsesConnected'
  BY DEF Inv, UsesConnected, InUse
<1>4. CbOK'
  BY DEF CbOK, Offering
<1>5. PlacesOK' /\ KnownOK'
  BY DEF Inv, KnownOK, NothingCarriedOver, PlacesOK, Offering
<1>6. EventsOK' /\ CarriedOK'
  BY DEF Inv, CarriedOK, NothingCarriedOver, EventsOK
<1>7. BeforeOK' /\ RunningOK'
  BY DEF Inv, BeforeOK, RunningOK
<1>8. StoppingOK' /\ StoppedOK'
  BY DEF Inv, StoppingOK, StoppedOK
<1>9. BindsOK' /\ OnceOK'
  BY DEF Inv, BindsOK, OnceOK, Done
<1> QED
  BY <1>1, <1>2, <1>3, <1>4, <1>5, <1>6, <1>7, <1>8, <1>9 DEF Inv

\* So is that of the ping timer, which is not added any more.
LEMMA PingTimeoutIntInv ==
  ASSUME Inv, NEW id \in Conns, PingTimeoutInt(id) PROVE Inv'
<1> USE DEF PingTimeoutInt, Names, Dispatch, Doing, objects, asking, history, listeners, LoopAt
<1>1. TypeOK'
  BY DEF Inv, TypeOK, Callbacks, ConnCallbacks
<1>2. CallOK' /\ MutexOK'
  BY LoopCalls
<1>3. UsesConnected'
  BY DEF Inv, UsesConnected, InUse
<1>4. CbOK'
  BY DEF CbOK, Offering
<1>5. PlacesOK' /\ KnownOK'
  <2>1. NothingCarriedOver => where[id] = "connected"
    BY DEF Inv, CarriedOK, PlacesOK
  <2>2. PlacesOK'
    BY DEF Inv, PlacesOK, Offering
  <2> QED
    BY <2>1, <2>2 DEF Inv, KnownOK, NothingCarriedOver
<1>6. EventsOK' /\ CarriedOK'
  BY DEF Inv, CarriedOK, NothingCarriedOver, EventsOK
<1>7. BeforeOK' /\ RunningOK'
  BY DEF Inv, BeforeOK, RunningOK
<1>8. StoppingOK' /\ StoppedOK'
  BY DEF Inv, StoppingOK, StoppedOK
<1>9. BindsOK' /\ OnceOK'
  BY DEF Inv, BindsOK, OnceOK, Done
<1> QED
  BY <1>1, <1>2, <1>3, <1>4, <1>5, <1>6, <1>7, <1>8, <1>9 DEF Inv

\* The events of a connection are deleted while it is still in m_connected.
LEMMA DisconnectIntInv ==
  ASSUME Inv, NEW id \in Conns, DisconnectInt(id) PROVE Inv'
<1> USE DEF DisconnectInt, Dispatch, Doing, objects, asking, history, listeners, LoopAt
<1>1. TypeOK'
  BY DEF Inv, TypeOK
<1>2. CallOK' /\ MutexOK'
  BY LoopCalls
<1>3. UsesConnected'
  BY DEF Inv, UsesConnected, InUse
<1>4. CbOK'
  BY DEF CbOK, Offering, ConnCallbacks
<1>5. PlacesOK' /\ KnownOK'
  BY DEF Inv, KnownOK, NothingCarriedOver, PlacesOK, Offering
<1>6. EventsOK' /\ CarriedOK'
  BY DEF Inv, CarriedOK, NothingCarriedOver, EventsOK
<1>7. BeforeOK' /\ RunningOK'
  BY DEF Inv, BeforeOK, RunningOK
<1>8. StoppingOK' /\ StoppedOK'
  BY DEF Inv, StoppingOK, StoppedOK
<1>9. BindsOK' /\ OnceOK'
  BY DEF Inv, BindsOK, OnceOK, Done
<1> QED
  BY <1>1, <1>2, <1>3, <1>4, <1>5, <1>6, <1>7, <1>8, <1>9 DEF Inv

\* It is taken out under the mutex: no call is using it then, and none finds it after.
LEMMA RemoveInv ==
  ASSUME Inv, Remove PROVE Inv'
<1> USE DEF Remove, Place, Doing, objects, asking, history, listeners, conn_events
<1>1. TypeOK'
  BY DEF Inv, TypeOK, Callbacks, Places
<1>2. CallOK' /\ MutexOK'
  <2>1. ~Calling(Loop)
    BY LoopCallsFrom DEF Callbacks, ConnCallbacks
  <2> QED
    BY <2>1, LoopCalls
<1>3. UsesConnected'
  BY ConstantsAssumption DEF Callers, Inv, UsesConnected, MutexOK, InUse
<1>4. CbOK'
  BY DEF Inv, TypeOK, CbOK, Offering, ConnCallbacks
<1>5. PlacesOK' /\ KnownOK'
  BY DEF Inv, KnownOK, NothingCarriedOver, TypeOK, PlacesOK
<1>6. EventsOK' /\ CarriedOK'
  BY DEF Inv, CarriedOK, NothingCarriedOver, EventsOK
<1>7. BeforeOK' /\ RunningOK'
  BY DEF Inv, Idle, BeforeOK, RunningOK
<1>8. StoppingOK' /\ StoppedOK'
  BY DEF Inv, StoppingOK, StoppedOK
<1>9. BindsOK' /\ OnceOK'
  BY DEF Inv, BindsOK, BindsWhileRunning, OnceOK, Done
<1> QED
  BY <1>1, <1>2, <1>3, <1>4, <1>5, <1>6, <1>7, <1>8, <1>9 DEF Inv

\* With the object go its events: a call may have activated them since DisconnectInt.
LEMMA DestroyInv ==
  ASSUME Inv, Destroy PROVE Inv'
<1> USE DEF Destroy, Destroyed, LoopAt, Place, Resume, objects, asking, history, listeners,
           Doing, Idle
<1>1. TypeOK'
  BY DEF Inv, TypeOK, Places
<1>2. CallOK' /\ MutexOK'
  BY LoopCalls
<1>3. UsesConnected'
  BY DEF Inv, UsesConnected, InUse, CbOK
<1>4. CbOK'
  BY DEF CbOK, Offering, ConnCallbacks
<1>5. PlacesOK' /\ KnownOK'
  BY DEF Inv, KnownOK, NothingCarriedOver, TypeOK, PlacesOK
<1>6. EventsOK' /\ CarriedOK'
  BY DEF Inv, CarriedOK, NothingCarriedOver, EventsOK
<1>7. BeforeOK' /\ RunningOK'
  BY DEF Inv, BeforeOK, RunningOK
<1>8. StoppingOK' /\ StoppedOK'
  BY DEF Inv, StoppingOK, StoppedOK
<1>9. BindsOK' /\ OnceOK'
  BY DEF Inv, BindsOK, BindsWhileRunning, OnceOK, Done
<1> QED
  BY <1>1, <1>2, <1>3, <1>4, <1>5, <1>6, <1>7, <1>8, <1>9 DEF Inv

\* Retried under another id, the object takes its events along, if it has any.
LEMMA RetryInv ==
  ASSUME Inv, NEW new \in Conns, Retry(new) PROVE Inv'
<1> USE DEF Retry, Reconnects, CarriedOver, LoopAt, objects, asking, history, listeners,
           Doing, Idle
<1>1. TypeOK'
  BY DEF Inv, TypeOK, Places
<1>2. CallOK' /\ MutexOK'
  BY LoopCalls
<1>3. UsesConnected'
  BY DEF Inv, TypeOK, UsesConnected, InUse, CbOK, CallOK
<1>4. CbOK'
  BY DEF CbOK, Offering, ConnCallbacks
<1>5. PlacesOK' /\ KnownOK'
  BY DEF Inv, KnownOK, NothingCarriedOver, TypeOK, PlacesOK
<1>6. EventsOK' /\ CarriedOK'
  <2>1. cb.id \in Conns /\ where[cb.id] \in {"leaving", "attempt"} /\ new # cb.id
    BY DEF Inv, CbOK
  <2>2. /\ where'[new] = "attempt"
        /\ \A id \in Conns \ {cb.id, new} : where'[id] = where[id]
    BY <2>1 DEF Inv, TypeOK
  <2>3. EventsOK'
    BY <2>1, <2>2 DEF Inv, TypeOK, EventsOK
  <2>4. ASSUME NothingCarriedOver
        PROVE  cb.id \notin m_disconnect_func \cup m_ping_timeout_func
    BY <2>4 DEF Inv, CarriedOK
  <2>5. ASSUME NothingCarriedOver
        PROVE  UNCHANGED <<m_disconnect_func, m_ping_timeout_func>>
    BY <2>4, <2>5
  <2>6. ASSUME NothingCarriedOver, NEW id \in m_disconnect_func \cup m_ping_timeout_func
        PROVE  where'[id] \in {"connected", "leaving"}
    BY <2>2, <2>4, <2>6 DEF Inv, TypeOK, CarriedOK
  <2>7. cb'.at = "none" /\ (NothingCarriedOver' <=> NothingCarriedOver)
    BY DEF NothingCarriedOver
  <2> QED
    BY <2>3, <2>5, <2>6, <2>7 DEF CarriedOK
<1>7. BeforeOK' /\ RunningOK'
  BY DEF Inv, BeforeOK, RunningOK
<1>8. StoppingOK' /\ StoppedOK'
  BY DEF Inv, StoppingOK, StoppedOK
<1>9. BindsOK' /\ OnceOK'
  BY DEF Inv, BindsOK, BindsWhileRunning, OnceOK, Done
<1> QED
  BY <1>1, <1>2, <1>3, <1>4, <1>5, <1>6, <1>7, <1>8, <1>9 DEF Inv

\* A callback returns to the loop: ShutdownInt does not run in the middle of one.
LEMMA ReturnInv ==
  ASSUME Inv, Return PROVE Inv'
<1> USE DEF Return, LoopAt, Resume, objects, asking, history, listeners, conn_events, Doing,
           Idle
<1>1. TypeOK'
  BY DEF Inv, TypeOK
<1>2. CallOK' /\ MutexOK'
  BY LoopCalls
<1>3. UsesConnected'
  BY DEF Inv, UsesConnected, InUse
<1>4. CbOK'
  BY DEF CbOK, Offering, ConnCallbacks
<1>5. PlacesOK' /\ KnownOK'
  BY DEF Inv, KnownOK, NothingCarriedOver, CbOK, PlacesOK, Offering
<1>6. EventsOK' /\ CarriedOK'
  BY DEF Inv, CarriedOK, NothingCarriedOver, EventsOK
<1>7. BeforeOK' /\ RunningOK'
  BY DEF Inv, BeforeOK, RunningOK
<1>8. StoppingOK' /\ StoppedOK'
  BY DEF Inv, StoppingOK, StoppedOK, ConnCallbacks
<1>9. BindsOK' /\ OnceOK'
  BY DEF Inv, BindsOK, BindsWhileRunning, OnceOK, Done
<1> QED
  BY <1>1, <1>2, <1>3, <1>4, <1>5, <1>6, <1>7, <1>8, <1>9 DEF Inv

\* ShutdownInt begins with the event inactive: a Shutdown that is called once is over.
LEMMA ShutdownIntInv ==
  ASSUME Inv, ShutdownInt PROVE Inv'
<1> USE DEF ShutdownInt, LoopAt, Doing, asking, history, listeners, conn_events
<1>1. TypeOK'
  BY DEF Inv, TypeOK
<1>2. CallOK' /\ MutexOK'
  BY LoopCalls
<1>3. UsesConnected'
  BY DEF Inv, UsesConnected, InUse
<1>4. CbOK'
  BY DEF CbOK, Offering, ConnCallbacks
<1>5. PlacesOK' /\ KnownOK'
  BY DEF Inv, KnownOK, NothingCarriedOver, PlacesOK, Offering
<1>6. EventsOK' /\ CarriedOK'
  BY DEF Inv, CarriedOK, NothingCarriedOver, EventsOK
<1>7. BeforeOK' /\ RunningOK'
  BY DEF Inv, BeforeOK, RunningOK
<1>8. StoppingOK' /\ StoppedOK'
  BY DEF Inv, StoppingOK, StoppedOK
<1>9. BindsOK' /\ OnceOK'
  BY DEF Inv, BindsOK, OnceOK, Done
<1> QED
  BY <1>1, <1>2, <1>3, <1>4, <1>5, <1>6, <1>7, <1>8, <1>9 DEF Inv

\* All of m_connected is taken out at once, while no call is using any of it.
LEMMA SwapInv ==
  ASSUME Inv, Swap PROVE Inv'
<1> USE DEF Swap, Resume, asking, history, conn_events, Doing, Idle
<1>1. TypeOK'
  BY DEF Inv, TypeOK, Places
<1>2. CallOK' /\ MutexOK'
  <2>1. ~Calling(Loop)
    BY LoopCallsFrom DEF Callbacks, ConnCallbacks
  <2> QED
    BY <2>1, LoopCalls
<1>3. UsesConnected'
  BY ConstantsAssumption DEF Callers, Inv, UsesConnected, MutexOK, InUse
<1>4. CbOK'
  BY DEF CbOK, Offering, ConnCallbacks
<1>5. PlacesOK' /\ KnownOK'
  BY DEF Inv, TypeOK, KnownOK, NothingCarriedOver, PlacesOK, Offering
<1>6. EventsOK' /\ CarriedOK'
  BY DEF Inv, CarriedOK, NothingCarriedOver, TypeOK, EventsOK
<1>7. BeforeOK' /\ RunningOK'
  BY DEF BeforeOK, RunningOK
<1>8. StoppingOK' /\ StoppedOK'
  BY DEF Inv, BeforeOK, RunningOK, StoppingOK, StoppedOK
<1>9. BindsOK' /\ OnceOK'
  BY DEF Inv, BindsOK, OnceOK, Done, StoppingOK, StoppedOK
<1> QED
  BY <1>1, <1>2, <1>3, <1>4, <1>5, <1>6, <1>7, <1>8, <1>9 DEF Inv

\* The first loop of ShutdownInt: only what was in m_connected is left to visit.
LEMMA DisconnectNextInv ==
  ASSUME Inv, NEW id \in Conns, DisconnectNext(id) PROVE Inv'
<1> USE DEF DisconnectNext, Doing, objects, asking, history, listeners, conn_events
<1>1. TypeOK'
  BY DEF Inv, TypeOK, Callbacks
<1>2. CallOK' /\ MutexOK'
  <2>1. ~Calling(Loop)
    BY LoopCallsFrom DEF Callbacks, ConnCallbacks
  <2> QED
    BY <2>1, LoopCalls
<1>3. UsesConnected'
  BY DEF Inv, UsesConnected, InUse
<1>4. CbOK'
  BY DEF CbOK, Offering, ConnCallbacks
<1>5. PlacesOK' /\ KnownOK'
  BY DEF Inv, KnownOK, NothingCarriedOver, PlacesOK, Offering
<1>6. EventsOK' /\ CarriedOK'
  BY DEF Inv, BeforeOK, RunningOK, Idle, CarriedOK, NothingCarriedOver, EventsOK
<1>7. BeforeOK' /\ RunningOK'
  BY DEF Inv, BeforeOK, RunningOK
<1>8. StoppingOK' /\ StoppedOK'
  BY DEF Inv, StoppingOK, StoppedOK
<1>9. BindsOK' /\ OnceOK'
  BY DEF Inv, BindsOK, BindsWhileRunning, OnceOK, Done
<1> QED
  BY <1>1, <1>2, <1>3, <1>4, <1>5, <1>6, <1>7, <1>8, <1>9 DEF Inv

\* The second loop: only attempts are left.
LEMMA CancelNextInv ==
  ASSUME Inv, NEW id \in Conns, CancelNext(id) PROVE Inv'
<1> USE DEF CancelNext, Doing, objects, asking, history, listeners, conn_events
<1>1. TypeOK'
  BY DEF Inv, TypeOK, Callbacks
<1>2. CallOK' /\ MutexOK'
  <2>1. ~Calling(Loop)
    BY LoopCallsFrom DEF Callbacks, ConnCallbacks
  <2> QED
    BY <2>1, LoopCalls
<1>3. UsesConnected'
  BY DEF Inv, UsesConnected, InUse
<1>4. CbOK'
  BY DEF CbOK, Offering, ConnCallbacks
<1>5. PlacesOK' /\ KnownOK'
  BY DEF Inv, KnownOK, NothingCarriedOver, PlacesOK, Offering
<1>6. EventsOK' /\ CarriedOK'
  BY DEF Inv, CarriedOK, NothingCarriedOver, EventsOK
<1>7. BeforeOK' /\ RunningOK'
  BY DEF Inv, BeforeOK, RunningOK
<1>8. StoppingOK' /\ StoppedOK'
  BY DEF Inv, StoppingOK, StoppedOK
<1>9. BindsOK' /\ OnceOK'
  BY DEF Inv, BindsOK, BindsWhileRunning, OnceOK, Done
<1> QED
  BY <1>1, <1>2, <1>3, <1>4, <1>5, <1>6, <1>7, <1>8, <1>9 DEF Inv

\* The objects are freed when both loops have left no connection behind.
LEMMA FreeObjectsInv ==
  ASSUME Inv, FreeObjects PROVE Inv'
<1> USE DEF FreeObjects, Doing, asking, history, conn_events
<1>1. TypeOK'
  BY DEF Inv, TypeOK
<1>2. CallOK' /\ MutexOK'
  <2>1. ~Calling(Loop)
    BY LoopCallsFrom DEF Callbacks, ConnCallbacks
  <2> QED
    BY <2>1, LoopCalls
<1>3. UsesConnected'
  BY DEF Inv, UsesConnected, InUse
<1>4. CbOK'
  BY DEF CbOK, Offering, ConnCallbacks
<1>5. PlacesOK' /\ KnownOK'
  BY DEF Inv, KnownOK, NothingCarriedOver, PlacesOK, Offering
<1>6. EventsOK' /\ CarriedOK'
  BY DEF Inv, CarriedOK, NothingCarriedOver, EventsOK
<1>7. BeforeOK' /\ RunningOK'
  BY DEF Inv, Idle, BeforeOK, RunningOK
<1>8. StoppingOK' /\ StoppedOK'
  BY DEF Inv, TypeOK, StoppingOK, StoppedOK, PlacesOK, Offering, At, Places
<1>9. BindsOK' /\ OnceOK'
  BY DEF Inv, BindsOK, BindsWhileRunning, OnceOK, Done
<1> QED
  BY <1>1, <1>2, <1>3, <1>4, <1>5, <1>6, <1>7, <1>8, <1>9 DEF Inv

\* The event base is freed after all that was made with it.
LEMMA PumpEventsInv ==
  ASSUME Inv, PumpEvents PROVE Inv'
<1> USE DEF PumpEvents, Doing, asking, history, listeners, conn_events
<1>1. TypeOK'
  BY DEF Inv, TypeOK, Callbacks
<1>2. CallOK' /\ MutexOK'
  <2>1. ~Calling(Loop)
    BY LoopCallsFrom DEF Callbacks, ConnCallbacks
  <2> QED
    BY <2>1, LoopCalls DEF Inv, RunningOK
<1>3. UsesConnected'
  BY DEF Inv, UsesConnected, InUse
<1>4. CbOK'
  BY DEF CbOK, Offering, ConnCallbacks
<1>5. PlacesOK' /\ KnownOK'
  BY DEF Inv, KnownOK, NothingCarriedOver, PlacesOK, Offering
<1>6. EventsOK' /\ CarriedOK'
  BY DEF Inv, CarriedOK, NothingCarriedOver, EventsOK
<1>7. BeforeOK' /\ RunningOK'
  BY DEF Inv, Idle, BeforeOK, RunningOK
<1>8. StoppingOK' /\ StoppedOK'
  BY DEF Inv, StoppingOK, StoppedOK
<1>9. BindsOK' /\ OnceOK'
  BY DEF Inv, BindsOK, BindsWhileRunning, OnceOK, Done
<1> QED
  BY <1>1, <1>2, <1>3, <1>4, <1>5, <1>6, <1>7, <1>8, <1>9 DEF Inv

\* OnShutdown is the last callback of the session.
LEMMA StoppedInv ==
  ASSUME Inv, Stopped PROVE Inv'
<1> USE DEF Stopped, LoopAt, Idle, objects, asking, history, listeners, conn_events, Doing
<1>1. TypeOK'
  BY DEF Inv, TypeOK
<1>2. CallOK' /\ MutexOK'
  BY LoopCalls
<1>3. UsesConnected'
  BY DEF Inv, UsesConnected, InUse
<1>4. CbOK'
  BY DEF CbOK, Offering, ConnCallbacks
<1>5. PlacesOK' /\ KnownOK'
  BY DEF Inv, KnownOK, NothingCarriedOver, PlacesOK, Offering
<1>6. EventsOK' /\ CarriedOK'
  BY DEF Inv, CarriedOK, NothingCarriedOver, EventsOK
<1>7. BeforeOK' /\ RunningOK'
  BY DEF Inv, BeforeOK, RunningOK
<1>8. StoppingOK' /\ StoppedOK'
  BY DEF Inv, StoppingOK, StoppedOK
<1>9. BindsOK' /\ OnceOK'
  BY DEF Inv, BindsOK, BindsWhileRunning, OnceOK, Done
<1> QED
  BY <1>1, <1>2, <1>3, <1>4, <1>5, <1>6, <1>7, <1>8, <1>9 DEF Inv

-----------------------------------------------------------------------------
(* The API. *)

\* A call moves no connection and no part of the event thread ...
LEMMA CallKeeps ==
  ASSUME Inv, UNCHANGED <<where, cb, m_event_base, rate_limits, m_shutdown, binds>>,
         UNCHANGED <<app, app_knows>>
  PROVE  CbOK' /\ PlacesOK' /\ KnownOK' /\ StoppedOK'
BY DEF Inv, CbOK, PlacesOK, KnownOK, NothingCarriedOver, StoppedOK

\* ... and none of the session's objects.
LEMMA SessionKept ==
  ASSUME Inv, UNCHANGED <<where, cb, m_event_base, rate_limits, m_shutdown>>,
         m_binds' = m_binds \/ m_event_base \/ m_shutdown,
         m_shutdown_event # "free" => m_shutdown_event' # "free"
  PROVE  BeforeOK' /\ RunningOK' /\ StoppingOK'
BY DEF Inv, BeforeOK, RunningOK, StoppingOK

\* A call begins with its lookup still to do.
LEMMA BeginInv ==
  ASSUME Inv, NEW p \in Callers, NEW op \in Ops, NEW id \in Conns \cup {Nobody},
         op \in TableOps => id \in Conns, Begin(p, op, id) PROVE Inv'
<1> USE DEF Begin, objects, listeners, conn_events
<1>1. TypeOK'
  BY ConstantsAssumption, FirstStep DEF Inv, TypeOK
<1>2. CallOK'
  BY FirstStep DEF Inv, CallOK, Calling, InUse, Context
<1>3. MutexOK'
  BY FirstStep DEF Inv, MutexOK, InUse, Calling
<1>4. UsesConnected'
  BY FirstStep DEF Inv, UsesConnected, InUse
<1>5. CbOK' /\ PlacesOK' /\ KnownOK' /\ StoppedOK'
  BY CallKeeps
<1>6. EventsOK' /\ CarriedOK'
  BY DEF Inv, CarriedOK, NothingCarriedOver, EventsOK
<1>7. BeforeOK' /\ RunningOK' /\ StoppingOK'
  BY SessionKept
<1>8. BindsOK'
  BY DEF Inv, BindsOK, BindsWhileRunning
<1>9. OnceOK'
  BY FirstStep DEF Inv, TypeOK, OnceOK, Done
<1> QED
  BY <1>1, <1>2, <1>3, <1>4, <1>5, <1>6, <1>7, <1>8, <1>9 DEF Inv

\* The lookup takes the mutex if it finds the connection, and ends the call if not.
LEMMA EnterInv ==
  ASSUME Inv, NEW p \in Callers, Enter(p) PROVE Inv'
<1> USE DEF Enter, objects, asking, history, listeners, conn_events, Returned, NoCall
<1>1. call[p].op \in TableOps /\ call[p].id \in Conns
  BY DEF Inv, CallOK
<1>2. Use(call[p].op) \in {"bev", "disconnect", "add", "del"}
  BY <1>1, UseStep
<1>3. call' = [call EXCEPT ![p].at = Use(call[p].op)] \/ call' = [call EXCEPT ![p] = NoCall]
  OBVIOUS
<1>4. TypeOK'
  <2>1. /\ m_conn_mutex' \in Callers \cup {Nobody}
        /\ UNCHANGED <<app, where, m_disconnect_func, m_ping_timeout_func, m_binds, binds,
                       m_event_base, rate_limits, m_shutdown_event, m_shutdown, cb,
                       calls, asked, incoming, app_knows>>
    OBVIOUS
  <2>2. call' \in [Callers -> [op : Ops \cup {"none"}, id : Conns \cup {Nobody},
                             at : {"none", "enter", "bev", "disconnect", "add", "del",
                                   "active", "set_cfg", "bind"}]]
    BY <1>2 DEF Inv, TypeOK
  <2> QED
    BY <2>2 DEF Inv, TypeOK
<1>5. CallOK'
  BY UseStep DEF Inv, TypeOK, CallOK, Calling, InUse, Context
<1>6. MutexOK'
  <2>1. m_conn_mutex = Nobody /\ \A q \in Callers : ~InUse(q) /\ q # Nobody
    BY ConstantsAssumption DEF Inv, MutexOK, Callers
  <2>2. CASE where[call[p].id] = "connected"
    BY <1>2, <2>1 DEF Inv, TypeOK, MutexOK, InUse
  <2>3. CASE where[call[p].id] # "connected"
    BY <2>3 DEF Inv, TypeOK, MutexOK, InUse
  <2> QED
    BY <2>2, <2>3
<1>7. UsesConnected'
  BY DEF Inv, TypeOK, UsesConnected, InUse
<1>8. CbOK' /\ PlacesOK' /\ KnownOK' /\ StoppedOK'
  BY CallKeeps
<1>9. EventsOK' /\ CarriedOK'
  BY DEF Inv, CarriedOK, NothingCarriedOver, EventsOK
<1>10. BeforeOK' /\ RunningOK' /\ StoppingOK'
  BY SessionKept
<1>11. BindsOK'
  BY DEF Inv, BindsOK, BindsWhileRunning
<1>12. OnceOK'
  <2>1. \A q \in Callers : call'[q].at = "active" => call[q].at = "active"
    BY <1>2 DEF Inv, TypeOK
  <2> QED
    BY <2>1 DEF Inv, OnceOK, Done
<1> QED
  BY <1>4, <1>5, <1>6, <1>7, <1>8, <1>9, <1>10, <1>11, <1>12 DEF Inv

\* The connection whose event is activated is the one in use, still in m_connected.
LEMMA UseDisconnectInv ==
  ASSUME Inv, NEW p \in Callers, UseDisconnect(p) PROVE Inv'
<1> USE DEF UseDisconnect, Leave, objects, asking, history, listeners, Returned, NoCall
<1>1. call[p].id \in Conns
  BY DEF Inv, CallOK, InUse
<1>2. TypeOK'
  BY <1>1 DEF Inv, TypeOK
<1>3. CallOK'
  BY DEF Inv, CallOK, Calling, InUse, Context
<1>4. MutexOK'
  BY ConstantsAssumption DEF Inv, TypeOK, MutexOK, Callers, InUse
<1>5. UsesConnected'
  BY DEF Inv, UsesConnected, InUse
<1>6. CbOK' /\ PlacesOK' /\ KnownOK' /\ StoppedOK'
  BY CallKeeps
<1>7. EventsOK' /\ CarriedOK'
  <2>1. where[call[p].id] = "connected" /\ Calling(p) /\ call[p].op = "CloseConnection"
    BY DEF Inv, CallOK, UsesConnected, InUse, Calling
  <2>2. EventsOK'
    BY <2>1 DEF Inv, EventsOK
  \* No thread is here with a persistent connection, and the event thread is at no call.
  <2>3. cb.at = "remove" => ~(NothingCarriedOver /\ app.fPersistent)
    <3>1. cb.at = "remove" => p # Loop
      BY <2>1, LoopCallsFrom DEF Callbacks, ConnCallbacks
    <3>2. p # Loop => <<"thread", call[p].op>> \in app.uses
      BY <2>1 DEF Inv, CallOK, Context
    <3> QED
      BY <2>1, <3>1, <3>2 DEF NothingCarriedOver
  <2>4. cb.at \in {"OnConnectionFailure", "OnDisconnected"} => where[cb.id] # "connected"
    BY DEF Inv, CbOK
  <2>5. NothingCarriedOver' <=> NothingCarriedOver
    BY DEF NothingCarriedOver
  <2> QED
    BY <2>1, <2>2, <2>3, <2>4, <2>5 DEF Inv, CarriedOK
<1>8. BeforeOK' /\ RunningOK' /\ StoppingOK'
  BY SessionKept
<1>9. BindsOK'
  BY DEF Inv, BindsOK, BindsWhileRunning
<1>10. OnceOK'
  BY DEF Inv, OnceOK, Done
<1> QED
  BY <1>2, <1>3, <1>4, <1>5, <1>6, <1>7, <1>8, <1>9, <1>10 DEF Inv

\* Sending and pausing touch nothing but the bufferevent.
LEMMA UseBevInv ==
  ASSUME Inv, NEW p \in Callers, UseBev(p) PROVE Inv'
<1> USE DEF UseBev, conn_events, Leave, objects, asking, history, listeners, Returned, NoCall
<1>1. TypeOK'
  BY DEF Inv, TypeOK
<1>2. CallOK'
  BY DEF Inv, CallOK, Calling, InUse, Context
<1>3. MutexOK'
  BY ConstantsAssumption DEF Inv, TypeOK, MutexOK, Callers, InUse
<1>4. UsesConnected'
  BY DEF Inv, UsesConnected, InUse
<1>5. CbOK' /\ PlacesOK' /\ KnownOK' /\ StoppedOK'
  BY CallKeeps
<1>6. EventsOK' /\ CarriedOK'
  BY DEF Inv, CarriedOK, NothingCarriedOver, EventsOK
<1>7. BeforeOK' /\ RunningOK' /\ StoppingOK'
  BY SessionKept
<1>8. BindsOK'
  BY DEF Inv, BindsOK, BindsWhileRunning
<1>9. OnceOK'
  BY DEF Inv, OnceOK, Done
<1> QED
  BY <1>1, <1>2, <1>3, <1>4, <1>5, <1>6, <1>7, <1>8, <1>9 DEF Inv

\* The ping timer is added to a connection in m_connected.
LEMMA UseAddInv ==
  ASSUME Inv, NEW p \in Callers, UseAdd(p) PROVE Inv'
<1> USE DEF UseAdd, Leave, objects, asking, history, listeners, Returned, NoCall
<1>1. call[p].id \in Conns
  BY DEF Inv, CallOK, InUse
<1>2. TypeOK'
  BY <1>1 DEF Inv, TypeOK
<1>3. CallOK'
  BY DEF Inv, CallOK, Calling, InUse, Context
<1>4. MutexOK'
  BY ConstantsAssumption DEF Inv, TypeOK, MutexOK, Callers, InUse
<1>5. UsesConnected'
  BY DEF Inv, UsesConnected, InUse
<1>6. CbOK' /\ PlacesOK' /\ KnownOK' /\ StoppedOK'
  BY CallKeeps
<1>7. EventsOK' /\ CarriedOK'
  <2>1. where[call[p].id] = "connected" /\ Calling(p) /\ call[p].op = "ResetPingTimeout"
    BY DEF Inv, CallOK, UsesConnected, InUse, Calling
  <2>2. EventsOK'
    BY <2>1 DEF Inv, EventsOK
  \* No thread is here with a persistent connection, and the event thread is at no call.
  <2>3. cb.at = "remove" => ~(NothingCarriedOver /\ app.fPersistent)
    <3>1. cb.at = "remove" => p # Loop
      BY <2>1, LoopCallsFrom DEF Callbacks, ConnCallbacks
    <3>2. p # Loop => <<"thread", call[p].op>> \in app.uses
      BY <2>1 DEF Inv, CallOK, Context
    <3> QED
      BY <2>1, <3>1, <3>2 DEF NothingCarriedOver
  <2>4. cb.at \in {"OnConnectionFailure", "OnDisconnected"} => where[cb.id] # "connected"
    BY DEF Inv, CbOK
  <2>5. NothingCarriedOver' <=> NothingCarriedOver
    BY DEF NothingCarriedOver
  <2> QED
    BY <2>1, <2>2, <2>3, <2>4, <2>5 DEF Inv, CarriedOK
<1>8. BeforeOK' /\ RunningOK' /\ StoppingOK'
  BY SessionKept
<1>9. BindsOK'
  BY DEF Inv, BindsOK, BindsWhileRunning
<1>10. OnceOK'
  BY DEF Inv, OnceOK, Done
<1> QED
  BY <1>2, <1>3, <1>4, <1>5, <1>6, <1>7, <1>8, <1>9, <1>10 DEF Inv

\* It is deleted from one.
LEMMA UseDelInv ==
  ASSUME Inv, NEW p \in Callers, UseDel(p) PROVE Inv'
<1> USE DEF UseDel, Doing, Leave, objects, asking, history, listeners, Returned, NoCall
<1>1. TypeOK'
  BY DEF Inv, TypeOK
<1>2. CallOK'
  BY DEF Inv, CallOK, Calling, InUse, Context
<1>3. MutexOK'
  BY ConstantsAssumption DEF Inv, TypeOK, MutexOK, Callers, InUse
<1>4. UsesConnected'
  BY DEF Inv, UsesConnected, InUse
<1>5. CbOK' /\ PlacesOK' /\ KnownOK' /\ StoppedOK'
  BY CallKeeps
<1>6. EventsOK' /\ CarriedOK'
  BY DEF Inv, CarriedOK, NothingCarriedOver, EventsOK
<1>7. BeforeOK' /\ RunningOK' /\ StoppingOK'
  BY SessionKept
<1>8. BindsOK'
  BY DEF Inv, BindsOK, BindsWhileRunning
<1>9. OnceOK'
  BY DEF Inv, OnceOK, Done
<1> QED
  BY <1>1, <1>2, <1>3, <1>4, <1>5, <1>6, <1>7, <1>8, <1>9 DEF Inv

\* Shutdown activates the event unless it is freed; it does not bring it back.
LEMMA UseShutdownInv ==
  ASSUME Inv, NEW p \in Callers, UseShutdown(p) PROVE Inv'
<1> USE DEF UseShutdown, asking, history, listeners, conn_events, Returned, NoCall
<1>1. TypeOK'
  BY DEF Inv, TypeOK
<1>2. CallOK'
  BY DEF Inv, CallOK, Calling, InUse, Context
<1>3. MutexOK'
  BY DEF Inv, MutexOK, InUse
<1>4. UsesConnected'
  BY DEF Inv, UsesConnected, InUse
<1>5. CbOK' /\ PlacesOK' /\ KnownOK' /\ StoppedOK'
  BY CallKeeps
<1>6. EventsOK' /\ CarriedOK'
  BY DEF Inv, CarriedOK, NothingCarriedOver, EventsOK
<1>7. BeforeOK' /\ RunningOK' /\ StoppingOK'
  BY SessionKept
<1>8. BindsOK'
  BY DEF Inv, BindsOK, BindsWhileRunning
<1>9. OnceOK'
  BY DEF Inv, TypeOK, OnceOK
<1> QED
  BY <1>1, <1>2, <1>3, <1>4, <1>5, <1>6, <1>7, <1>8, <1>9 DEF Inv

\* The limits of a group are set, on whatever group is there.
LEMMA UseGroupInv ==
  ASSUME Inv, NEW p \in Callers, UseGroup(p) PROVE Inv'
<1> USE DEF UseGroup, objects, asking, history, listeners, conn_events, Returned, NoCall
<1>1. TypeOK'
  BY DEF Inv, TypeOK
<1>2. CallOK'
  BY DEF Inv, CallOK, Calling, InUse, Context
<1>3. MutexOK'
  BY DEF Inv, MutexOK, InUse
<1>4. UsesConnected'
  BY DEF Inv, UsesConnected, InUse
<1>5. CbOK' /\ PlacesOK' /\ KnownOK' /\ StoppedOK'
  BY CallKeeps
<1>6. EventsOK' /\ CarriedOK'
  BY DEF Inv, CarriedOK, NothingCarriedOver, EventsOK
<1>7. BeforeOK' /\ RunningOK' /\ StoppingOK'
  BY SessionKept
<1>8. BindsOK'
  BY DEF Inv, BindsOK, BindsWhileRunning
<1>9. OnceOK'
  BY DEF Inv, OnceOK, Done
<1> QED
  BY <1>1, <1>2, <1>3, <1>4, <1>5, <1>6, <1>7, <1>8, <1>9 DEF Inv

\* Bind adds a listener only from the event thread, in a callback.
LEMMA UseBindInv ==
  ASSUME Inv, NEW p \in Callers, UseBind(p) PROVE Inv'
<1> USE DEF UseBind, objects, asking, history, conn_events, Returned, NoCall
<1>1. TypeOK'
  BY DEF Inv, TypeOK
<1>2. CallOK'
  BY DEF Inv, CallOK, Calling, InUse, Context
<1>3. MutexOK'
  BY DEF Inv, MutexOK, InUse
<1>4. UsesConnected'
  BY DEF Inv, UsesConnected, InUse
<1>5. CbOK' /\ PlacesOK' /\ KnownOK' /\ StoppedOK'
  BY CallKeeps
<1>6. EventsOK' /\ CarriedOK'
  BY DEF Inv, CarriedOK, NothingCarriedOver, EventsOK
<1>7. BeforeOK' /\ RunningOK' /\ StoppingOK'
  BY SessionKept DEF Inv, CallOK, Calling
<1>8. BindsOK'
  <2>1. SUFFICES ASSUME BindsWhileRunning', m_shutdown' PROVE m_binds' = {}
    BY DEF BindsOK
  <2>2. <<cb.at, "Bind">> \in app.uses
    BY DEF Inv, CallOK, Calling, Context
  <2>3. cb.at \in Contexts
    BY <2>2, ConstantsAssumption DEF Inv, TypeOK
  <2>4. cb.at \notin {"OnDisconnected", "OnConnectionFailure", "OnShutdown"}
    BY <2>1, <2>2 DEF BindsWhileRunning
  <2>5. cb.at \in {"stopping", "OnDisconnected", "OnConnectionFailure", "loopbreak",
                  "OnShutdown", "none"}
    BY <2>1 DEF Inv, StoppingOK, StoppedOK
  <2> QED
    BY <2>3, <2>4, <2>5 DEF Contexts, Callbacks, ConnCallbacks
<1>9. OnceOK'
  BY DEF Inv, OnceOK, Done
<1> QED
  BY <1>1, <1>2, <1>3, <1>4, <1>5, <1>6, <1>7, <1>8, <1>9 DEF Inv

-----------------------------------------------------------------------------
(* Every step. *)

\* Every step keeps the invariant: one lemma per action.
LEMMA NextInv == Inv /\ [Next]_vars => Inv'
<1> SUFFICES ASSUME Inv, [Next]_vars PROVE Inv'
  OBVIOUS
<1>1. CASE Start
  BY <1>1, StartInv
<1>2. ASSUME NEW p \in Callers, NEW op \in TableOps, NEW id \in Conns, Begin(p, op, id)
      PROVE  Inv'
  BY <1>2, BeginInv DEF Ops
<1>3. ASSUME NEW p \in Callers, NEW op \in Ops \ TableOps, Begin(p, op, Nobody)
      PROVE  Inv'
  BY <1>3, BeginInv
<1>4. ASSUME NEW p \in Callers, Step(p) PROVE Inv'
  BY <1>4, EnterInv, UseDisconnectInv, UseBevInv, UseAddInv, UseDelInv, UseShutdownInv,
     UseGroupInv, UseBindInv DEF Step
<1>5. CASE Complete
  BY <1>5, AnswerInv, InsertInv, RemoveInv, DestroyInv, RetryInv, ReturnInv, ShutdownIntInv,
     SwapInv, FreeObjectsInv, PumpEventsInv, StoppedInv, DisconnectNextInv, CancelNextInv
     DEF Complete
<1>6. ASSUME NEW id \in Conns, Arrives(id) PROVE Inv'
  BY <1>6, StartConnectionInv, OnOutgoingConnectedInv, OnIncomingConnectedInv,
     OnConnectionFailureInv, PingTimeoutIntInv, DisconnectIntInv, TrafficInv DEF Arrives
<1>7. CASE UNCHANGED vars
  <2> USE <1>7 DEF vars, objects, asking, history, listeners, conn_events
  <2>1. TypeOK'
    BY DEF Inv, TypeOK
  <2>2. CallOK' /\ MutexOK' /\ UsesConnected'
    BY DEF Inv, CallOK, MutexOK, UsesConnected, Calling, InUse, Context
  <2>3. CbOK' /\ PlacesOK' /\ EventsOK' /\ CarriedOK' /\ KnownOK'
    BY DEF Inv, CbOK, PlacesOK, EventsOK, CarriedOK, KnownOK, NothingCarriedOver
  <2>4. BeforeOK' /\ RunningOK' /\ StoppingOK' /\ StoppedOK'
    BY DEF Inv, BeforeOK, RunningOK, StoppingOK, StoppedOK
  <2>5. BindsOK' /\ OnceOK'
    BY DEF Inv, BindsOK, BindsWhileRunning, OnceOK, Done
  <2> QED
    BY <2>1, <2>2, <2>3, <2>4, <2>5 DEF Inv
<1> QED
  BY <1>1, <1>2, <1>3, <1>4, <1>5, <1>6, <1>7 DEF Next

-----------------------------------------------------------------------------
(* The theorems. *)

\* The inductive invariant of ApiThreads.
THEOREM Invariance == Spec => []Inv
<1>. QED
  BY InitInv, NextInv, PTL DEF Spec

\* What a call has found in m_connected under m_conn_mutex stays there until it has used it.
THEOREM StateConsistent == Spec => []Consistent
<1>1. Inv => Consistent
  BY DEF Inv, Consistent
<1>. QED
  BY <1>1, Invariance, PTL

\* Where no event of a connection is carried over to its next object, the API finds every
\* connection that a callback has named as connected, until OnDisconnected.
THEOREM KnownFound == Spec => []KnownIsFound
<1>1. Inv => KnownIsFound
  BY DEF Inv, KnownOK, KnownIsFound, KnownIsFoundAtAll
<1>. QED
  BY <1>1, Invariance, PTL

\* However calls fall into ShutdownInt, a careful application's find the events, the group
\* and the base that they use.
THEOREM SessionThere == Spec => []UsesSession
<1>1. ASSUME Inv, Careful, BindsWhileRunning, NEW p \in Callers
      PROVE  /\ call[p].at = "active" => m_shutdown_event # "free"
             /\ call[p].at = "set_cfg" => rate_limits
             /\ call[p].at = "bind" => m_event_base
  <2>1. CASE call[p].at = "active"
    <3>1. ~Done
      BY <1>1, <2>1 DEF Inv, OnceOK, Careful
    <3>2. m_event_base /\ ~m_shutdown
      BY <1>1, <2>1, <3>1 DEF Inv, CallOK, Calling, Done
    <3> QED
      BY <1>1, <3>2 DEF Inv, RunningOK
  <2>2. CASE call[p].at \in {"set_cfg", "bind"}
    <3>1. /\ Calling(p) /\ call[p].op \in {"SetGroupLimit", "Bind"}
          /\ call[p].op = "Bind" => p = Loop
      BY <1>1, <2>2 DEF Inv, CallOK, Calling
    <3>2. <<Context(p), call[p].op>> \in app.uses /\ (m_event_base \/ m_shutdown)
      BY <1>1, <3>1 DEF Inv, CallOK
    <3>3. p = Loop /\ <<cb.at, call[p].op>> \in app.uses
      BY <1>1, <3>1, <3>2 DEF Careful, Context
    <3>4. cb.at \in Callbacks \ {"OnShutdown"}
      <4>1. cb.at \in Contexts /\ cb.at # "OnShutdown"
        BY <1>1, <3>1, <3>3, ConstantsAssumption DEF Inv, TypeOK, Careful, BindsWhileRunning
      <4> QED
        BY <1>1, <4>1 DEF Inv, TypeOK, Contexts
    <3>5. m_event_base
      BY <1>1, <3>2, <3>4 DEF Inv, StoppedOK, Callbacks, ConnCallbacks
    <3>6. rate_limits
      BY <1>1, <3>4, <3>5 DEF Inv, RunningOK, StoppingOK, Callbacks, ConnCallbacks
    <3> QED
      BY <2>2, <3>5, <3>6
  <2> QED
    BY <2>1, <2>2
<1>2. Inv => UsesSession
  BY <1>1 DEF UsesSession, UsesSessionAtAll
<1>. QED
  BY <1>2, Invariance, PTL

\* When PumpEvents has returned from the loop for the last time, no connection, listener or
\* event is left of the session.
THEOREM NothingLeft == Spec => []TornDown
<1>1. ASSUME Inv, BindsWhileRunning, m_shutdown, ~m_event_base
      PROVE  /\ \A id \in Conns : where[id] \in {"unused", "gone"}
             /\ m_binds = {} /\ binds = {}
             /\ m_disconnect_func = {} /\ m_ping_timeout_func = {}
  <2>1. (\A id \in Conns : where[id] \in {"unused", "gone"}) /\ binds = {}
    BY <1>1 DEF Inv, StoppedOK
  <2>2. m_disconnect_func = {} /\ m_ping_timeout_func = {}
    BY <1>1, <2>1 DEF Inv, EventsOK, TypeOK
  <2> QED
    BY <1>1, <2>1, <2>2 DEF Inv, BindsOK
<1>2. Inv => TornDown
  BY <1>1 DEF TornDown, TornDownAtAll
<1>. QED
  BY <1>2, Invariance, PTL

\* m_conn_mutex, the bufferevents' locks and the wait of event_del are taken in one order by
\* a Compatible application: no threads wait for each other in a circle. Everyone who is
\* waited for has the mutex or is the event thread, so a circle has at most two in it.
THEOREM OneOrder == Spec => []NoDeadlock
<1>1. ASSUME Inv, Compatible, NEW p \in Callers, NEW q \in Callers,
             WaitsFor(p, q), WaitsFor(q, p)
      PROVE  FALSE
  <2>1. \A r \in Callers : ~(m_conn_mutex = r /\ call[r].at = "enter")
    BY <1>1 DEF Inv, MutexOK, InUse
  <2>2. ~(m_conn_mutex = Loop
          /\ cb.at \in {"insert_outgoing", "insert_incoming", "remove", "swap"})
    <3>1. SUFFICES ASSUME cb.at \in {"insert_outgoing", "insert_incoming", "remove", "swap"}
                   PROVE  ~InUse(Loop)
      BY <1>1 DEF Inv, MutexOK, Callers
    <3> QED
      BY <1>1, <3>1, LoopCallsFrom DEF Callbacks, ConnCallbacks, InUse, Calling
  \* Waiting for the event thread in its callback, with the mutex it wants.
  <2>3. ASSUME NEW r \in Threads, InUse(r), call[r].at \in {"bev", "del"},
               call[r].at = "bev" => cb.at = "OnBytes",
               call[r].at = "del" => cb.at = "OnPingTimeout",
               WaitsFor(Loop, r)
        PROVE  FALSE
    <3>1. r # Loop /\ r \in Callers /\ Loop \in Callers
      BY ConstantsAssumption DEF Callers
    <3>2. call[Loop].at = "enter"
      BY <2>3 DEF WaitsFor
    <3>3. call[Loop].op \in TableOps /\ <<cb.at, call[Loop].op>> \in app.uses
      BY <1>1, <3>1, <3>2 DEF Inv, CallOK, Calling, Context
    <3>4. <<"thread", call[r].op>> \in app.uses
      BY <1>1, <2>3, <3>1 DEF Inv, CallOK, Calling, Context
    <3>5. CASE call[r].at = "bev"
      BY <1>1, <2>3, <3>1, <3>3, <3>4 DEF Inv, CallOK, Compatible
    <3>6. CASE call[r].at = "del"
      BY <1>1, <2>3, <3>1, <3>3, <3>4 DEF Inv, CallOK, Compatible
    <3> QED
      BY <2>3, <3>5, <3>6
  <2>4. CASE p = q
    BY <1>1, <2>1, <2>2, <2>4 DEF WaitsFor
  <2>5. CASE p # q
    <3>1. ~(m_conn_mutex = p /\ m_conn_mutex = q)
      BY <2>5
    <3>2. CASE m_conn_mutex # q
      <4>1. q = Loop /\ p \in Threads /\ call[p].at \in {"bev", "del"}
            /\ (call[p].at = "bev" => cb.at = "OnBytes")
            /\ (call[p].at = "del" => cb.at = "OnPingTimeout")
        BY <1>1, <3>2 DEF WaitsFor, BevLocked, Doing, Callers
      <4> QED
        BY <1>1, <4>1, <2>3 DEF InUse
    <3>3. CASE m_conn_mutex # p
      <4>1. p = Loop /\ q \in Threads /\ call[q].at \in {"bev", "del"}
            /\ (call[q].at = "bev" => cb.at = "OnBytes")
            /\ (call[q].at = "del" => cb.at = "OnPingTimeout")
        BY <1>1, <3>3 DEF WaitsFor, BevLocked, Doing, Callers
      <4> QED
        BY <1>1, <4>1, <2>3 DEF InUse
    <3> QED
      BY <3>1, <3>2, <3>3
  <2> QED
    BY <2>4, <2>5
<1>2. ASSUME Inv, Compatible, NEW S \in SUBSET Callers, S # {}
      PROVE  \E p \in S : \A q \in S : ~WaitsFor(p, q)
  <2>. SUFFICES ASSUME \A p \in S : \E q \in S : WaitsFor(p, q)
                PROVE  FALSE
    OBVIOUS
  \* Whoever is waited for is one of two.
  <2>1. \A p, q : WaitsFor(p, q) => q \in {m_conn_mutex, Loop}
    BY Zenon DEF WaitsFor
  <2>2. PICK p \in S : TRUE
    BY <1>2
  <2>3. PICK q \in S : WaitsFor(p, q)
    BY <2>2
  <2>4. PICK r \in S : WaitsFor(q, r)
    BY <2>3
  <2>5. PICK t \in S : WaitsFor(r, t)
    BY <2>4
  <2>6. q \in {m_conn_mutex, Loop} /\ r \in {m_conn_mutex, Loop} /\ t \in {m_conn_mutex, Loop}
    BY <2>1, <2>3, <2>4, <2>5
  <2>7. q = r \/ r = t \/ t = q
    BY <2>6
  <2>. QED
    BY <1>1, <1>2, <2>3, <2>4, <2>5, <2>7
<1>3. Inv => NoDeadlock
  BY <1>2 DEF NoDeadlock, NoDeadlockAtAll
<1>. QED
  BY <1>3, Invariance, PTL
=============================================================================
