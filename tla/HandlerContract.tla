--------------------------- MODULE HandlerContract ---------------------------
(***************************************************************************)
(* What CConnectionHandler promises an application, told only in terms of  *)
(* the callbacks the application receives (include/libbtcnet/handler.h).   *)
(* There is no handler state here: the variables are what an application   *)
(* can reconstruct by counting its callbacks.                              *)
(*                                                                         *)
(*   app_running   between OnStartup and OnShutdown                        *)
(*   app_limit     the outgoing_limit it passed to Start                   *)
(*   app_out       outgoing ids it accepted and that are not yet reported  *)
(*                 disconnected                                            *)
(*   app_in        the same for incoming ids                               *)
(*   app_seen      every id ever offered to it                             *)
(*   app_waiting   connection candidates it handed over whose outcome it   *)
(*                 does not know yet                                       *)
(***************************************************************************)
EXTENDS Integers, FiniteSets

CONSTANT Ids   \* the ids a connection may have

VARIABLES app_running, app_limit, app_out, app_in, app_seen, app_waiting

cvars == <<app_running, app_limit, app_out, app_in, app_seen, app_waiting>>

Init ==
    /\ app_running = FALSE
    /\ app_limit = 0
    /\ app_out = {}
    /\ app_in = {}
    /\ app_seen = {}
    /\ app_waiting = 0

\* OnStartup: the first event of a session, which starts with nothing open.
Startup ==
    /\ ~app_running
    /\ app_running' = TRUE
    /\ app_limit' \in Nat
    /\ UNCHANGED <<app_out, app_in, app_seen, app_waiting>>

\* A candidate is taken from the list OnNeedOutgoingConnections returned. The
\* handler never takes one it has no outgoing slot for.
Take ==
    /\ app_running
    /\ app_waiting' = app_waiting + 1
    /\ Cardinality(app_out) + app_waiting' <= app_limit
    /\ UNCHANGED <<app_running, app_limit, app_out, app_in, app_seen>>

\* OnConnectionFailure, OnProxyFailure or OnDnsFailure, not followed by a retry.
GiveUp ==
    /\ app_running
    /\ app_waiting > 0
    /\ app_waiting' = app_waiting - 1
    /\ UNCHANGED <<app_running, app_limit, app_out, app_in, app_seen>>

\* OnOutgoingConnection: the outcome of a candidate, under an id never used
\* before. The application accepts it or not.
Outgoing(id) ==
    /\ app_running
    /\ id \notin app_seen
    /\ app_waiting > 0
    /\ app_waiting' = app_waiting - 1
    /\ app_seen' = app_seen \cup {id}
    /\ app_out' \in {app_out, app_out \cup {id}}
    /\ UNCHANGED <<app_running, app_limit, app_in>>

\* OnIncomingConnection, also under an id never used before.
Incoming(id) ==
    /\ app_running
    /\ id \notin app_seen
    /\ app_seen' = app_seen \cup {id}
    /\ app_in' \in {app_in, app_in \cup {id}}
    /\ UNCHANGED <<app_running, app_limit, app_out, app_waiting>>

\* OnDisconnected: only for an id that is up, and with it the id is dead. An
\* outgoing connection may turn into a candidate again (a reconnection).
Disconnected(id) ==
    /\ app_running
    /\ \/ /\ id \in app_out
          /\ app_out' = app_out \ {id}
          /\ app_waiting' \in {app_waiting, app_waiting + 1}
          /\ UNCHANGED app_in
       \/ /\ id \in app_in
          /\ app_in' = app_in \ {id}
          /\ UNCHANGED <<app_out, app_waiting>>
    /\ UNCHANGED <<app_running, app_limit, app_seen>>

\* Shutdown: OnDisconnected for every id that is up, an outcome for every
\* candidate.
TearDown ==
    /\ app_running
    /\ app_out' = {}
    /\ app_in' = {}
    /\ app_waiting' = 0
    /\ UNCHANGED <<app_running, app_limit, app_seen>>

\* OnShutdown: the last event, when nothing is left to report.
Stopped ==
    /\ app_running
    /\ app_out = {}
    /\ app_in = {}
    /\ app_waiting = 0
    /\ app_running' = FALSE
    /\ UNCHANGED <<app_limit, app_out, app_in, app_seen, app_waiting>>

Next ==
    \/ Startup \/ Take \/ GiveUp \/ TearDown \/ Stopped
    \/ \E id \in Ids : Outgoing(id) \/ Incoming(id) \/ Disconnected(id)

Contract == Init /\ [][Next]_cvars

-----------------------------------------------------------------------------
\* An application that starts no more than `limit` connections at a time sees
\* no more than that many, connected and attempted together (handler.h: Start,
\* "Target number of outgoing connections").
WithinLimit == app_running => Cardinality(app_out) + app_waiting <= app_limit

\* Nothing is open outside OnStartup .. OnShutdown.
QuietWhenStopped == ~app_running => app_out = {} /\ app_in = {} /\ app_waiting = 0
=============================================================================
