----------------------------- MODULE ConnAttempt -----------------------------
(***************************************************************************)
(* One outgoing connection object, CDirectConnection, CDNSConnection or     *)
(* CProxyConn with their bases CBareConnection, CBareProxy and CDNSResolve, *)
(* or one CResolveOnly, from the moment StartConnection creates it until    *)
(* the handler destroys it: who owns the bufferevent, the pending lookup,   *)
(* the addresses still to try, the retries left.                           *)
(*                                                                         *)
(* Everything happens on the event thread; an action is one libevent        *)
(* callback with all it calls. The object is a record, and the methods are  *)
(* operators from object to object, so that a synchronous failure is the    *)
(* composition of the methods it goes through. The handler's part           *)
(* (OnConnectionFailure, OnResolveFailure) is reduced to what it does to    *)
(* the object: Retry, or destruction; module ConnHandler has the rest. `ret` *)
(* is the application's answer.                                            *)
(*                                                                         *)
(* An address is reduced to whether it can be connected to (nFamily).       *)
(***************************************************************************)
EXTENDS Integers, Sequences

CONSTANTS
    Conns,       \* the candidates: their options and kind
    Responses,   \* what a lookup may return: sequences of addresses
    MaxRetried   \* bound: the history counter `retried` stops there

Kinds == {"direct", "dns", "proxy", "resolve"}
Candidates == [kind : Kinds, nRetries : Int, fPersistent : BOOLEAN,
               usable : BOOLEAN]   \* CanConnectDirect / CanConnectProxy / CanResolve
Addresses == Seq(BOOLEAN) \ {<<>>}

ASSUME ConstantsAssumption ==
    /\ Conns \subseteq Candidates
    /\ Responses \subseteq Addresses
    /\ MaxRetried \in Nat

VARIABLES
    conn,  \* m_connection, which never changes
    obj    \* the object

vars == <<conn, obj>>

\*   in          where the handler holds it: "new" (not yet Connect()ed),
\*               "connecting", "connected", or "gone" when it is destroyed
\*   m_retries   what is left of nRetries; a negative value is never used up
\*   m_request   a lookup is under way
\*   m_resolved, m_iter   the response and the position in it, 0 for end()
\*   bare, proxy, base    which of CBareConnection, CBareProxy, ConnectionBase
\*               has its m_bev set
\*   timer       m_reconnect_func (m_retry_event) is added
\*   retried     history: failures retried since the last success, not counting
\*               those that leave an address of the response to try
\*   stale       history: the object was written to after its destruction
Objects == [in : {"new", "connecting", "connected", "gone"},
            m_retries : Int, m_request : BOOLEAN,
            m_resolved : Seq(BOOLEAN), m_iter : Nat,
            bare : BOOLEAN, proxy : BOOLEAN, base : BOOLEAN,
            timer : BOOLEAN, retried : 0 .. MaxRetried, stale : BOOLEAN]

Init ==
    /\ conn \in Conns
    /\ obj = [in |-> "new", m_retries |-> conn.nRetries, m_request |-> FALSE,
              m_resolved |-> <<>>, m_iter |-> 0,
              bare |-> FALSE, proxy |-> FALSE, base |-> FALSE,
              timer |-> FALSE, retried |-> 0, stale |-> FALSE]

-----------------------------------------------------------------------------
(* What the handler does with the object. *)

\* Mutant: Retry without m_bev.free().
Retry_KeepsBev(o) == [o EXCEPT !.timer = TRUE, !.in = "connecting"]

\* ConnectionBase::Retry, CResolveOnly::Retry.
Retry(o) == [o EXCEPT !.base = FALSE, !.timer = TRUE, !.in = "connecting"]

\* The destructors: Cancel() drops the lookup and the response.
Destroyed(o) == [o EXCEPT !.in = "gone", !.m_request = FALSE, !.m_resolved = <<>>,
                          !.m_iter = 0, !.bare = FALSE, !.proxy = FALSE,
                          !.base = FALSE, !.timer = FALSE]

\* OnConnectionFailure of the handler, OnResolveFailure for a CResolveOnly.
Failed(o, retry, ret) ==
    IF retry /\ ret
    THEN [Retry(o) EXCEPT !.retried = IF @ < MaxRetried THEN @ + 1 ELSE @]
    ELSE Destroyed(o)

-----------------------------------------------------------------------------
(* The methods of the connection classes. *)

\* "m_retries > 0 ? m_retries-- != 0 : m_retries != 0": the value and the effect.
MayRetry(o) == o.m_retries # 0
\* Mutant: never decremented.
Spend_Never(o) == o
Spend(o) == [o EXCEPT !.m_retries = IF @ > 0 THEN @ - 1 ELSE @]

BareConnect(o) == [o EXCEPT !.bare = TRUE]

\* Mutants: the response is not cleared; is always cleared; m_iter stays.
NextAddress_Keeps(o) ==
    [o EXCEPT !.m_iter = IF @ = Len(o.m_resolved) THEN 0 ELSE @ + 1]
NextAddress_Clears(o) == [o EXCEPT !.m_resolved = <<>>, !.m_iter = 0]
NextAddress_Stays(o) ==
    IF o.m_iter = Len(o.m_resolved) THEN [o EXCEPT !.m_resolved = <<>>, !.m_iter = 0]
                                    ELSE o

\* "if (++m_iter == m_resolved.end()) m_resolved.clear()".
NextAddress(o) ==
    IF o.m_iter = Len(o.m_resolved) THEN [o EXCEPT !.m_resolved = <<>>, !.m_iter = 0]
                                    ELSE [o EXCEPT !.m_iter = @ + 1]

\* CDNSConnection: the next address if there is one, else a retry as a whole.
DNSConnectFailure(o, ret) ==
    LET next == NextAddress(o)
    IN  IF next.m_iter # 0
        THEN IF ret THEN Retry(next) ELSE Destroyed(next)
        ELSE Failed(next, MayRetry(o), ret)

OnConnectFailure(o, ret) ==
    IF conn.kind = "dns" THEN DNSConnectFailure(o, ret)
                         ELSE Failed(Spend(o), MayRetry(o), ret)

ConnectResolved(o, ret) ==
    IF o.m_resolved[o.m_iter] THEN BareConnect(o) ELSE OnConnectFailure(o, ret)

OnResolveFailure(o, ret) == Failed(Spend([o EXCEPT !.m_request = FALSE]), MayRetry(o), ret)

\* A CResolveOnly reports the response and is destroyed by OnResolveComplete.
OnResolveSuccess(o, response, ret) ==
    LET answered == [o EXCEPT !.m_request = FALSE]
    IN  IF conn.kind = "resolve" THEN Destroyed(answered)
        ELSE ConnectResolved([answered EXCEPT !.m_resolved = response, !.m_iter = 1], ret)

\* "m_request = Resolve(...)" when evdns has answered from within Resolve, which
\* then returned null: the answer may have destroyed the object.
Assigned(o) == [o EXCEPT !.m_request = FALSE, !.stale = @ \/ o.in = "gone"]

\* OnConnectSuccess: the retries are restored, a response has served.
OnConnectSuccess(o) == [o EXCEPT !.bare = FALSE, !.m_retries = conn.nRetries,
                                 !.m_resolved = <<>>, !.m_iter = 0]

\* ConnectionBase::OnOutgoingConnected with the bufferevent of `o`.
OnOutgoingConnected(o, accept) ==
    IF accept THEN [o EXCEPT !.in = "connected", !.base = TRUE, !.retried = 0]
              ELSE Destroyed(o)

-----------------------------------------------------------------------------
(* Callbacks. *)

\* Connect() is called: by StartConnection, or because the timer has run out.
Due == obj.in = "new" \/ obj.timer
Begun == [obj EXCEPT !.in = "connecting", !.timer = FALSE]
NeedsLookup == conn.kind = "resolve" \/ (conn.kind = "dns" /\ obj.m_iter = 0)

\* CDirectConnection, CProxyConn.
Connect(ret) ==
    /\ Due
    /\ conn.kind \in {"direct", "proxy"}
    /\ obj' = IF conn.usable THEN BareConnect(Begun) ELSE Failed(Begun, FALSE, ret)
    /\ UNCHANGED conn

\* CDNSConnection with an address left.
ConnectNext(ret) ==
    /\ Due
    /\ conn.kind = "dns" /\ ~NeedsLookup
    /\ obj' = ConnectResolved(Begun, ret)
    /\ UNCHANGED conn

\* CDNSConnection::DoResolve, CResolveOnly::Resolve, when the answer comes later.
DoResolve ==
    /\ Due
    /\ NeedsLookup /\ conn.usable
    /\ obj' = [Begun EXCEPT !.m_request = TRUE]
    /\ UNCHANGED conn

\* ... when the lookup is not even tried.
RefuseResolve(ret) ==
    /\ Due
    /\ NeedsLookup /\ ~conn.usable
    /\ obj' = OnResolveFailure(Begun, ret)
    /\ UNCHANGED conn

\* ... when evdns answers at once: from the hosts file, or with an error.
ResolveAtOnce(ret) ==
    /\ Due
    /\ NeedsLookup /\ conn.usable
    /\ obj' \in {Assigned(OnResolveFailure(Begun, ret))} \cup
                {Assigned(OnResolveSuccess(Begun, response, ret)) : response \in Responses}
    /\ UNCHANGED conn

\* dns_callback, from the event loop.
ResolveSuccess(response, ret) ==
    /\ obj.m_request
    /\ obj' = OnResolveSuccess(obj, response, ret)
    /\ UNCHANGED conn

ResolveFailure(ret) ==
    /\ obj.m_request
    /\ obj' = OnResolveFailure(obj, ret)
    /\ UNCHANGED conn

\* conn_event with BEV_EVENT_CONNECTED, for a CDirectConnection or CDNSConnection.
ConnectSuccess(accept) ==
    /\ obj.bare
    /\ conn.kind \in {"direct", "dns"}
    /\ obj' = OnOutgoingConnected(OnConnectSuccess(obj), accept)
    /\ UNCHANGED conn

\* ... for a CProxyConn, which hands the bufferevent to CBareProxy.
InitProxy ==
    /\ obj.bare
    /\ conn.kind = "proxy"
    /\ obj' = [obj EXCEPT !.bare = FALSE, !.proxy = TRUE]
    /\ UNCHANGED conn

\* conn_event with an error or the connect timeout.
ConnectFailure(ret) ==
    /\ obj.bare
    /\ obj' = OnConnectFailure([obj EXCEPT !.bare = FALSE], ret)
    /\ UNCHANGED conn

\* The SOCKS5 dialogue ends: OnProxySuccess, ProxyFailure.
ProxySuccess(accept) ==
    /\ obj.proxy
    /\ obj' = OnOutgoingConnected([obj EXCEPT !.proxy = FALSE], accept)
    /\ UNCHANGED conn

ProxyFailure(ret) ==
    /\ obj.proxy
    /\ obj' = OnConnectFailure([obj EXCEPT !.proxy = FALSE], ret)
    /\ UNCHANGED conn

\* DisconnectInt, then OnDisconnected of the handler.
Disconnected(ret) ==
    /\ obj.in = "connected"
    /\ obj' = IF conn.fPersistent /\ ret THEN Retry(obj) ELSE Destroyed(obj)
    /\ UNCHANGED conn

\* ShutdownInt destroys it wherever it is.
ShutdownInt ==
    /\ obj.in \in {"connecting", "connected"}
    /\ obj' = Destroyed(obj)
    /\ UNCHANGED conn

-----------------------------------------------------------------------------
Begin(ret) ==
    \/ Connect(ret) \/ ConnectNext(ret) \/ DoResolve
    \/ RefuseResolve(ret) \/ ResolveAtOnce(ret)

Outcome(ret) ==
    \/ ResolveFailure(ret) \/ ConnectFailure(ret) \/ ProxyFailure(ret)
    \/ ConnectSuccess(ret) \/ InitProxy \/ ProxySuccess(ret)
    \/ \E response \in Responses : ResolveSuccess(response, ret)

Next == ShutdownInt \/ \E ret \in BOOLEAN : Begin(ret) \/ Outcome(ret) \/ Disconnected(ret)

Spec == Init /\ [][Next]_vars

\* The reconnect timer fires; a lookup, a connect, a SOCKS5 dialogue ends, by
\* its timeout at the latest.
FairSpec == Spec /\ WF_vars(\E ret \in BOOLEAN : Begin(ret) \/ Outcome(ret))

-----------------------------------------------------------------------------
(* Properties. *)

\* Types. What is left of a limited nRetries never drops below zero, from where it
\* would count as unlimited.
TypeOK ==
    /\ conn \in Candidates
    /\ obj \in Objects
    /\ IF conn.nRetries >= 0 THEN obj.m_retries \in 0 .. conn.nRetries
                             ELSE obj.m_retries = conn.nRetries

\* The object always has exactly one way forward: its timer, a lookup, a connect
\* or a SOCKS5 dialogue while it is an attempt; its bufferevent when connected;
\* none when destroyed. With none it would be stuck in m_connecting, with two it
\* would be answered twice; BareConnect and InitProxy assert that no bufferevent
\* is left over, Connect and DoResolve that no lookup is.
WaysForward == {way \in {"timer", "m_request", "bare", "proxy", "base"} : obj[way]}
OneWayForward ==
    /\ obj.in = "connecting" => \E way \in WaysForward \ {"base"} : WaysForward = {way}
    /\ obj.in = "connected" => WaysForward = {"base"}
    /\ obj.in \in {"new", "gone"} => WaysForward = {}

\* The asserts of dnsconn.cpp: m_iter and m_resolved agree, a lookup begins and
\* ends without a response in hand, a connect has an address it is for.
ResponseInHand ==
    /\ obj.m_iter \in DOMAIN obj.m_resolved \/ (obj.m_iter = 0 /\ obj.m_resolved = <<>>)
    /\ obj.m_request \/ obj.in # "connecting" => obj.m_resolved = <<>>
    /\ conn.kind = "dns" /\ obj.bare => obj.m_iter # 0

\* What every method of dnsconn.cpp finds, and asserts on entry and on its way out.
Consistent == TypeOK /\ ResponseInHand

\* No address of a response is passed over: a response is given up only with the
\* last of it tried, with a connection, or with the object.
AddressesInOrder ==
    [][obj.m_iter # 0 /\ obj'.in = "connecting" =>
           \/ obj'.m_resolved = obj.m_resolved /\ obj'.m_iter \in {obj.m_iter, obj.m_iter + 1}
           \/ obj'.m_resolved = <<>> /\ obj.m_iter = Len(obj.m_resolved)]_vars

\* Readme.md, "Allows each connection to define connection properties: retries":
\* not more than nRetries failures in a row are retried (an address of a lookup's
\* response is not a retry of the one before it). Not of CDNSConnection, which does not
\* count the responses it has tried in vain.
RetryBudget == conn.kind # "dns" /\ conn.nRetries >= 0 => obj.retried <= conn.nRetries

\* connectionbase.cpp, "Don't do anything after OnOutgoingConnected. It may delete
\* *this": a method does not touch the object after what it called destroyed it.
NotTouchedWhenGone == ~obj.stale

\* An attempt is decided, or costs a retry, after finitely many addresses.
AttemptDecided ==
    obj.in \in {"new", "connecting"} ~> obj.in \in {"connected", "gone"} \/ obj.retried > 0
=============================================================================
