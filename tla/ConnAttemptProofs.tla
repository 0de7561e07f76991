-------------------------- MODULE ConnAttemptProofs --------------------------
(***************************************************************************)
(* ConnAttempt, proved for every set of candidates and of responses.       *)
(*                                                                         *)
(* The proof goes the way the code does. A callback takes the object's one *)
(* way forward away (the timer has run, the lookup has answered, the       *)
(* bufferevent is freed): then the object is In Between, and every method  *)
(* that a callback ends in (BareConnect, Retry, the destructor, the         *)
(* handler's answer to a failure) takes an object that is in between to    *)
(* one that is Settled: it has exactly one way forward again.              *)
(***************************************************************************)
EXTENDS ConnAttempt, TLAPS

\* What holds of an object at any time, destroyed or not: its types, and that only a
\* CDNSConnection has a response in hand, with m_iter at one of its addresses.
Held(o) ==
    /\ o \in Objects
    /\ IF conn.nRetries >= 0 THEN o.m_retries \in 0 .. conn.nRetries
                             ELSE o.m_retries = conn.nRetries
    /\ conn.kind # "dns" /\ conn.nRetries >= 0 => o.retried <= conn.nRetries
    /\ o.m_iter \in DOMAIN o.m_resolved \/ (o.m_iter = 0 /\ o.m_resolved = <<>>)
    /\ conn.kind # "dns" => o.m_resolved = <<>>

\* The retries that are left and those used since the last success are together
\* never more than the candidate allows. (An object destroyed by a rejected success
\* has had its retries restored, and does not count them again.)
InBudget(o) ==
    conn.kind # "dns" /\ conn.nRetries >= 0 => o.retried + o.m_retries <= conn.nRetries

NoWay(o) == ~o.timer /\ ~o.m_request /\ ~o.bare /\ ~o.proxy /\ ~o.base

\* In the middle of a callback.
Between(o) == Held(o) /\ InBudget(o) /\ o.in = "connecting" /\ NoWay(o)

\* Each way forward excludes the others, and fits the class of the object and what
\* it has in hand.
Waiting(o) == o.timer /\ ~o.m_request /\ ~o.bare /\ ~o.proxy /\ ~o.base
LookingUp(o) ==
    /\ o.m_request /\ ~o.timer /\ ~o.bare /\ ~o.proxy /\ ~o.base
    /\ conn.kind \in {"dns", "resolve"} /\ o.m_resolved = <<>>
Dialling(o) ==
    /\ o.bare /\ ~o.timer /\ ~o.m_request /\ ~o.proxy /\ ~o.base
    /\ conn.kind # "resolve" /\ (conn.kind = "dns" => o.m_iter # 0)
Negotiating(o) ==
    /\ o.proxy /\ ~o.timer /\ ~o.m_request /\ ~o.bare /\ ~o.base
    /\ conn.kind = "proxy"
Established(o) == o.base /\ ~o.timer /\ ~o.m_request /\ ~o.bare /\ ~o.proxy

\* Between two callbacks.
Settled(o) ==
    /\ Held(o)
    /\ o.in # "gone" => InBudget(o)
    /\ o.in = "connecting" => Waiting(o) \/ LookingUp(o) \/ Dialling(o) \/ Negotiating(o)
    /\ o.in = "connected" => Established(o) /\ conn.kind # "resolve"
    /\ o.in \in {"new", "gone"} => NoWay(o)
    /\ o.in # "connecting" => o.m_resolved = <<>>

\* At the end of a method: none of those below begins a lookup.
Ended(o) == Settled(o) /\ ~o.m_request

\* The inductive invariant.
Inv == conn \in Conns /\ Settled(obj)

-----------------------------------------------------------------------------
(* The methods, for an object in between. *)

\* The fields of the candidate, as its constructor leaves them.
LEMMA ConnFields ==
    ASSUME conn \in Conns
    PROVE  /\ conn \in Candidates
           /\ conn.kind \in Kinds /\ conn.nRetries \in Int
           /\ conn.fPersistent \in BOOLEAN /\ conn.usable \in BOOLEAN
BY ConstantsAssumption DEF Candidates

\* A response has a first address, and is not the absence of a response.
LEMMA Responded ==
    /\ <<>> \in Seq(BOOLEAN)
    /\ \A response \in Responses : response \in Seq(BOOLEAN) /\ 1 \in 1 .. Len(response)
<1>1. <<>> \in Seq(BOOLEAN)
  OBVIOUS
<1>2. ASSUME NEW response \in Responses
      PROVE  response \in Seq(BOOLEAN) /\ 1 \in 1 .. Len(response)
  <2>1. response \in Seq(BOOLEAN) /\ response # <<>>
    BY ConstantsAssumption DEF Addresses
  <2> QED BY <2>1
<1> QED BY <1>1, <1>2

\* Only the two fields change when a response is taken or dropped.
Took(o, r, i) == [o EXCEPT !.m_resolved = r, !.m_iter = i]
LEMMA TookFields ==
    ASSUME NEW o \in Objects, NEW r \in Seq(BOOLEAN), NEW i \in Nat
    PROVE  /\ Took(o, r, i) \in Objects
           /\ Took(o, r, i).m_resolved = r /\ Took(o, r, i).m_iter = i
           /\ Took(o, r, i).in = o.in /\ Took(o, r, i).m_retries = o.m_retries
           /\ Took(o, r, i).retried = o.retried /\ Took(o, r, i).stale = o.stale
           /\ NoWay(Took(o, r, i)) <=> NoWay(o)
<1> DEFINE T == Seq(BOOLEAN)
<1>1. o \in [in : {"new", "connecting", "connected", "gone"},
              m_retries : Int, m_request : BOOLEAN, m_resolved : T, m_iter : Nat,
              bare : BOOLEAN, proxy : BOOLEAN, base : BOOLEAN,
              timer : BOOLEAN, retried : 0 .. MaxRetried, stale : BOOLEAN]
  BY DEF Objects
<1>2. r \in T
  OBVIOUS
<1>3. ASSUME NEW S, r \in S,
             o \in [in : {"new", "connecting", "connected", "gone"},
              m_retries : Int, m_request : BOOLEAN, m_resolved : S, m_iter : Nat,
              bare : BOOLEAN, proxy : BOOLEAN, base : BOOLEAN,
              timer : BOOLEAN, retried : 0 .. MaxRetried, stale : BOOLEAN]
      PROVE  Took(o, r, i) \in [in : {"new", "connecting", "connected", "gone"},
              m_retries : Int, m_request : BOOLEAN, m_resolved : S, m_iter : Nat,
              bare : BOOLEAN, proxy : BOOLEAN, base : BOOLEAN,
              timer : BOOLEAN, retried : 0 .. MaxRetried, stale : BOOLEAN]
  BY <1>3 DEF Took
<1>4. Took(o, r, i) \in Objects
  BY <1>1, <1>2, <1>3 DEF Objects
<1> QED BY <1>4 DEF Took, Objects, NoWay

\* Retry leaves the object waiting for its timer and nothing else.
LEMMA RetrySettles ==
    ASSUME conn \in Conns, NEW o, Between(o)
    PROVE  Ended(Retry(o))
BY ConnFields DEF Between, Held, InBudget, NoWay, Ended, Settled, Waiting, Retry, Objects

\* The destructor leaves nothing behind, whatever the object was doing.
LEMMA DestroyedSettles ==
    ASSUME conn \in Conns, NEW o, Held(o)
    PROVE  Ended(Destroyed(o))
<1>1. Destroyed(o) \in Objects
  <2> DEFINE t == Took(o, <<>>, 0)
  <2>1. t \in Objects
    BY Responded, TookFields DEF Held
  <2>2. [t EXCEPT !.in = "gone", !.m_request = FALSE, !.bare = FALSE,
                  !.proxy = FALSE, !.base = FALSE, !.timer = FALSE] \in Objects
    <3> HIDE DEF t
    <3> QED BY <2>1 DEF Objects
  <2>3. Destroyed(o) = [t EXCEPT !.in = "gone", !.m_request = FALSE, !.bare = FALSE,
                                 !.proxy = FALSE, !.base = FALSE, !.timer = FALSE]
    BY DEF Held, Destroyed, Took, Objects
  <2> QED BY <2>2, <2>3
<1>2. /\ Destroyed(o).in = "gone" /\ NoWay(Destroyed(o))
      /\ Destroyed(o).m_resolved = <<>> /\ Destroyed(o).m_iter = 0
      /\ Destroyed(o).m_retries = o.m_retries /\ Destroyed(o).retried = o.retried
  BY DEF Held, NoWay, Destroyed, Objects
<1> QED BY <1>1, <1>2 DEF Held, NoWay, Ended, Settled

\* The handler's answer to a failure: a retry it is asked for must be in the budget.
LEMMA FailedSettles ==
    ASSUME conn \in Conns, NEW o, Between(o), NEW retry \in BOOLEAN, NEW ret \in BOOLEAN,
           retry => (conn.kind # "dns" /\ conn.nRetries >= 0 =>
                         o.retried + o.m_retries < conn.nRetries)
    PROVE  Ended(Failed(o, retry, ret))
<1> DEFINE again == [Retry(o) EXCEPT !.retried = IF @ < MaxRetried THEN @ + 1 ELSE @]
<1>1. CASE retry /\ ret
  <2>1. Ended(Retry(o)) /\ Retry(o) \in Objects
    BY RetrySettles DEF Ended, Settled, Held
  <2>2. Retry(o).retried = o.retried /\ Retry(o).m_retries = o.m_retries
    BY DEF Between, Held, InBudget, Objects, Retry
  <2>3. Ended(again)
    BY <1>1, <2>1, <2>2, ConnFields, ConstantsAssumption
       DEF Ended, Settled, Held, InBudget, NoWay, Waiting, LookingUp, Dialling, Negotiating,
           Established, Objects
  <2> QED BY <1>1, <2>3 DEF Failed
<1>2. CASE ~(retry /\ ret)
  BY <1>2, DestroyedSettles DEF Failed, Between
<1> QED BY <1>1, <1>2

\* A retry that may be made is paid for by Spend.
LEMMA SpendPays ==
    ASSUME conn \in Conns, NEW o, Between(o)
    PROVE  /\ Between(Spend(o))
           /\ MayRetry(o) =>
                  (conn.kind # "dns" /\ conn.nRetries >= 0 =>
                       Spend(o).retried + Spend(o).m_retries < conn.nRetries)
BY ConnFields, ConstantsAssumption
   DEF Between, Held, InBudget, NoWay, Spend, MayRetry, Objects

\* A bufferevent is created for an address in hand.
LEMMA BareConnectSettles ==
    ASSUME conn \in Conns, NEW o, Between(o), conn.kind # "resolve",
           conn.kind = "dns" => o.m_iter # 0
    PROVE  Ended(BareConnect(o))
BY DEF Between, Held, InBudget, NoWay, Ended, Settled, Dialling, BareConnect, Objects

\* The position moves on to an address of the response or, at its end, the response
\* is dropped.
LEMMA NextAddressMoves ==
    ASSUME conn \in Conns, NEW o, Between(o), o.m_iter # 0
    PROVE  /\ Between(NextAddress(o))
           /\ \/ /\ NextAddress(o).m_iter = o.m_iter + 1
                 /\ NextAddress(o).m_resolved = o.m_resolved
              \/ /\ o.m_iter = Len(o.m_resolved)
                 /\ NextAddress(o).m_iter = 0 /\ NextAddress(o).m_resolved = <<>>
<1>1. CASE o.m_iter = Len(o.m_resolved)
  <2>1. NextAddress(o) = Took(o, <<>>, 0)
    BY <1>1 DEF NextAddress, Took
  <2> DEFINE t == Took(o, <<>>, 0)
  <2>2. o \in Objects /\ <<>> \in Seq(BOOLEAN) /\ 0 \in Nat
    BY Responded DEF Between, Held
  <2>3. /\ t \in Objects /\ t.m_resolved = <<>> /\ t.m_iter = 0
        /\ t.in = o.in /\ t.m_retries = o.m_retries /\ t.retried = o.retried
        /\ NoWay(t) <=> NoWay(o)
    BY <2>2, TookFields
  <2> HIDE DEF t
  <2>4. Between(t)
    BY <2>3 DEF Between, Held, InBudget
  <2> QED BY <1>1, <2>1, <2>3, <2>4 DEF t
<1>2. CASE o.m_iter # Len(o.m_resolved)
  BY <1>2 DEF Between, Held, InBudget, NoWay, NextAddress, Objects
<1> QED BY <1>1, <1>2

\* A failed connect of a CDNSConnection: it waits for its timer with the next address
\* in hand, or without a response, or is destroyed.
LEMMA DNSConnectFailureSettles ==
    ASSUME conn \in Conns, NEW o, Between(o), conn.kind = "dns", o.m_iter # 0,
           NEW ret \in BOOLEAN
    PROVE  Ended(DNSConnectFailure(o, ret))
<1>1. Between(NextAddress(o))
  BY NextAddressMoves
<1>2. CASE NextAddress(o).m_iter # 0
  BY <1>1, <1>2, RetrySettles, DestroyedSettles DEF DNSConnectFailure, Between
<1>3. CASE NextAddress(o).m_iter = 0
  BY <1>1, <1>3, FailedSettles DEF DNSConnectFailure, MayRetry
<1> QED BY <1>2, <1>3

\* A failed connect ends in a retry or in the object's end, whatever its class.
LEMMA OnConnectFailureSettles ==
    ASSUME conn \in Conns, NEW o, Between(o), conn.kind = "dns" => o.m_iter # 0,
           NEW ret \in BOOLEAN
    PROVE  Ended(OnConnectFailure(o, ret))
<1>1. CASE conn.kind = "dns"
  BY <1>1, DNSConnectFailureSettles DEF OnConnectFailure
<1>2. CASE conn.kind # "dns"
  BY <1>2, SpendPays, FailedSettles DEF OnConnectFailure, MayRetry
<1> QED BY <1>1, <1>2

\* ConnectResolved dials the address in hand or passes on to the failure.
LEMMA ConnectResolvedSettles ==
    ASSUME conn \in Conns, NEW o, Between(o), conn.kind = "dns", o.m_iter # 0,
           NEW ret \in BOOLEAN
    PROVE  Ended(ConnectResolved(o, ret))
BY OnConnectFailureSettles, BareConnectSettles DEF ConnectResolved

\* The lookup has ended, with no response in hand.
Asked(o) ==
    /\ Held(o) /\ InBudget(o) /\ o.in = "connecting"
    /\ ~o.timer /\ ~o.bare /\ ~o.proxy /\ ~o.base
    /\ o.m_resolved = <<>> /\ conn.kind \in {"dns", "resolve"}

\* A failed lookup is answered like a failed connect, paid for from the same budget.
LEMMA OnResolveFailureSettles ==
    ASSUME conn \in Conns, NEW o, Asked(o), NEW ret \in BOOLEAN
    PROVE  Ended(OnResolveFailure(o, ret))
<1> DEFINE answered == [o EXCEPT !.m_request = FALSE]
<1>1. Between(answered) /\ answered.m_retries = o.m_retries
  BY DEF Asked, Between, Held, InBudget, NoWay, Objects
<1>2. MayRetry(answered) <=> MayRetry(o)
  BY <1>1 DEF MayRetry
<1> QED BY <1>1, <1>2, SpendPays, FailedSettles DEF OnResolveFailure, MayRetry

\* A lookup that answers hands its first address to ConnectResolved, or the object is done.
LEMMA OnResolveSuccessSettles ==
    ASSUME conn \in Conns, NEW o, Asked(o), NEW response \in Responses,
           NEW ret \in BOOLEAN
    PROVE  Ended(OnResolveSuccess(o, response, ret))
<1> DEFINE answered == [o EXCEPT !.m_request = FALSE]
           first == [answered EXCEPT !.m_resolved = response, !.m_iter = 1]
<1>1. Between(answered)
  BY DEF Asked, Between, Held, InBudget, NoWay, Objects
<1>2. CASE conn.kind = "resolve"
  BY <1>1, <1>2, DestroyedSettles DEF OnResolveSuccess, Between
<1>3. CASE conn.kind = "dns"
  <2>1. response \in Seq(BOOLEAN) /\ 1 \in DOMAIN response
    BY Responded
  <2>2. Between(first) /\ first.m_iter # 0
    <3>1. first = Took(answered, response, 1)
      BY DEF Took
    <3> HIDE DEF answered, first
    <3> QED BY <1>1, <1>3, <2>1, <3>1, TookFields DEF Between, Held, InBudget
  <2> QED BY <1>3, <2>2, ConnectResolvedSettles DEF OnResolveSuccess
<1> QED BY <1>2, <1>3 DEF Asked

-----------------------------------------------------------------------------
(* The actions. *)

\* A new object has all its retries and nothing in progress.
LEMMA InitInv == Init => Inv
<1>1. SUFFICES ASSUME Init PROVE Inv
  OBVIOUS
<1>2. obj \in Objects
  BY <1>1, ConnFields, ConstantsAssumption, Responded DEF Init, Objects
<1> QED BY <1>1, <1>2, ConnFields, ConstantsAssumption
        DEF Init, Inv, Settled, Held, InBudget, NoWay

\* An action ends in an object that is settled.
LEMMA StepSettles ==
    ASSUME Inv, NEW o, Settled(o), obj' = o, conn' = conn
    PROVE  Inv'
BY DEF Inv, Settled, Held, InBudget, NoWay, Waiting, LookingUp, Dialling,
       Negotiating, Established, Objects

\* What the timer or the handler begins finds the object with nothing else to wait for.
LEMMA BegunBetween ==
    ASSUME Inv, Due
    PROVE  /\ Between(Begun)
           /\ Begun.m_iter = obj.m_iter /\ Begun.m_resolved = obj.m_resolved
BY DEF Inv, Due, Begun, Between, Settled, Held, InBudget, NoWay, Waiting, LookingUp,
       Dialling, Negotiating, Established, Objects

\* A lookup is only begun with no response in hand.
LEMMA BegunToLookUp ==
    ASSUME Inv, Due, NeedsLookup
    PROVE  Asked(Begun)
<1>1. Between(Begun) /\ Begun.m_iter = obj.m_iter
  BY BegunBetween
<1>2. Begun.m_resolved = <<>>
  <2>1. Begun.m_resolved \in Seq(BOOLEAN)
    BY <1>1 DEF Between, Held, Objects
  <2> QED BY <1>1, <2>1 DEF Between, Held, NeedsLookup
<1> QED BY <1>1, <1>2 DEF Asked, Between, NoWay, NeedsLookup

\* CDirectConnection and CProxyConn; an address that is of no use is a failure.
LEMMA ConnectInv == ASSUME Inv, NEW ret \in BOOLEAN, Connect(ret) PROVE Inv'
<1>1. Between(Begun) /\ conn \in Conns
  BY BegunBetween DEF Connect, Inv
<1>2. CASE conn.usable
  <2>1. Settled(BareConnect(Begun))
    BY <1>1, BareConnectSettles DEF Connect, Ended
  <2> QED BY <1>2, <2>1, StepSettles DEF Connect
<1>3. CASE ~conn.usable
  <2>1. Settled(Failed(Begun, FALSE, ret))
    BY <1>1, FailedSettles DEF Ended
  <2> QED BY <1>3, <2>1, StepSettles DEF Connect
<1> QED BY <1>2, <1>3

\* Connect of a CDNSConnection that has an address in hand.
LEMMA ConnectNextInv == ASSUME Inv, NEW ret \in BOOLEAN, ConnectNext(ret) PROVE Inv'
<1>1. Between(Begun) /\ conn \in Conns /\ Begun.m_iter # 0
  BY BegunBetween DEF ConnectNext, Inv, NeedsLookup
<1>2. Settled(ConnectResolved(Begun, ret))
  BY <1>1, ConnectResolvedSettles DEF ConnectNext, Ended
<1> QED BY <1>2, StepSettles DEF ConnectNext

\* A lookup begins with no response in hand.
LEMMA DoResolveInv == ASSUME Inv, DoResolve PROVE Inv'
<1> DEFINE o == [Begun EXCEPT !.m_request = TRUE]
<1>1. Asked(Begun)
  BY BegunToLookUp DEF DoResolve
<1>2. Settled(o)
  BY <1>1 DEF Asked, Settled, Held, InBudget, NoWay, LookingUp, Objects
<1> QED BY <1>2, StepSettles DEF DoResolve

\* A lookup that is not even tried has failed.
LEMMA RefuseResolveInv == ASSUME Inv, NEW ret \in BOOLEAN, RefuseResolve(ret) PROVE Inv'
<1>1. Asked(Begun) /\ conn \in Conns
  BY BegunToLookUp DEF RefuseResolve, Inv
<1>2. Settled(OnResolveFailure(Begun, ret))
  BY <1>1, OnResolveFailureSettles DEF Ended
<1> QED BY <1>2, StepSettles DEF RefuseResolve

\* The assignment of m_request after an answer that came at once clears what the
\* answer has cleared.
LEMMA AssignedSettles ==
    ASSUME NEW o, Ended(o)
    PROVE  Settled(Assigned(o))
BY DEF Ended, Assigned, Settled, Held, InBudget, NoWay, Waiting, LookingUp, Dialling,
       Negotiating, Established, Objects

\* evdns answers from within Resolve: what it assigns afterwards is null.
LEMMA ResolveAtOnceInv == ASSUME Inv, NEW ret \in BOOLEAN, ResolveAtOnce(ret) PROVE Inv'
<1>1. Asked(Begun) /\ conn \in Conns
  BY BegunToLookUp DEF ResolveAtOnce, Inv
<1>2. Settled(Assigned(OnResolveFailure(Begun, ret)))
  BY <1>1, OnResolveFailureSettles, AssignedSettles
<1>3. ASSUME NEW response \in Responses
      PROVE  Settled(Assigned(OnResolveSuccess(Begun, response, ret)))
  BY <1>1, OnResolveSuccessSettles, AssignedSettles
<1>4. Settled(obj') /\ conn' = conn
  BY <1>2, <1>3 DEF ResolveAtOnce
<1> QED BY <1>4, StepSettles

\* A pending lookup that has answered.
LEMMA AskedWhenAnswered ==
    ASSUME Inv, obj.m_request
    PROVE  Asked(obj)
BY DEF Inv, Asked, Settled, Held, NoWay, Waiting, LookingUp, Dialling,
       Negotiating, Established, Objects

\* The callback of a pending lookup, with its response.
LEMMA ResolveSuccessInv ==
    ASSUME Inv, NEW ret \in BOOLEAN, NEW response \in Responses,
           ResolveSuccess(response, ret)
    PROVE  Inv'
<1>1. Settled(OnResolveSuccess(obj, response, ret))
  BY AskedWhenAnswered, OnResolveSuccessSettles DEF ResolveSuccess, Inv, Ended
<1> QED BY <1>1, StepSettles DEF ResolveSuccess

\* The callback of a pending lookup, with an error.
LEMMA ResolveFailureInv == ASSUME Inv, NEW ret \in BOOLEAN, ResolveFailure(ret) PROVE Inv'
<1>1. Settled(OnResolveFailure(obj, ret))
  BY AskedWhenAnswered, OnResolveFailureSettles DEF ResolveFailure, Inv, Ended
<1> QED BY <1>1, StepSettles DEF ResolveFailure

\* The bufferevent that failed is freed before the method is called.
LEMMA ConnectFailureInv == ASSUME Inv, NEW ret \in BOOLEAN, ConnectFailure(ret) PROVE Inv'
<1> DEFINE o == [obj EXCEPT !.bare = FALSE]
<1>1. /\ Between(o) /\ conn \in Conns
      /\ conn.kind = "dns" => o.m_iter # 0
  BY DEF ConnectFailure, Inv, Between, Settled, Held, InBudget, NoWay, Waiting, LookingUp,
         Dialling, Negotiating, Established, Objects
<1>2. Settled(OnConnectFailure(o, ret))
  BY <1>1, OnConnectFailureSettles DEF Ended
<1> QED BY <1>2, StepSettles DEF ConnectFailure

\* The same for a failed negotiation with the proxy.
LEMMA ProxyFailureInv == ASSUME Inv, NEW ret \in BOOLEAN, ProxyFailure(ret) PROVE Inv'
<1> DEFINE o == [obj EXCEPT !.proxy = FALSE]
<1>1. /\ Between(o) /\ conn \in Conns
      /\ conn.kind # "dns"
  BY DEF ProxyFailure, Inv, Between, Settled, Held, InBudget, NoWay, Waiting, LookingUp,
         Dialling, Negotiating, Established, Objects
<1>2. Settled(OnConnectFailure(o, ret))
  BY <1>1, OnConnectFailureSettles DEF Ended
<1> QED BY <1>2, StepSettles DEF ProxyFailure

\* The connect to the proxy is followed by the negotiation: one takes the place of the
\* other.
LEMMA InitProxyInv == ASSUME Inv, InitProxy PROVE Inv'
<1> DEFINE o == [obj EXCEPT !.bare = FALSE, !.proxy = TRUE]
<1>1. Settled(o)
  BY DEF InitProxy, Inv, Settled, Held, InBudget, NoWay, Waiting, LookingUp,
         Dialling, Negotiating, Established, Objects
<1> QED BY <1>1, StepSettles DEF InitProxy

\* An accepted connection: what it keeps of the attempt.
LEMMA AcceptedFields ==
    ASSUME NEW o \in Objects
    PROVE  LET c == [o EXCEPT !.in = "connected", !.base = TRUE, !.retried = 0]
           IN  /\ c \in Objects /\ c.in = "connected" /\ c.base /\ c.retried = 0
               /\ c.m_resolved = o.m_resolved /\ c.m_iter = o.m_iter
               /\ c.m_retries = o.m_retries
               /\ NoWay(o) => ~c.timer /\ ~c.m_request /\ ~c.bare /\ ~c.proxy
<1> DEFINE c == [o EXCEPT !.in = "connected", !.base = TRUE, !.retried = 0]
<1>1. 0 \in 0 .. MaxRetried
  BY ConstantsAssumption
<1>2. c \in Objects
  BY <1>1 DEF Objects
<1>3. /\ c.in = "connected" /\ c.base /\ c.retried = 0
      /\ c.m_resolved = o.m_resolved /\ c.m_iter = o.m_iter
      /\ c.m_retries = o.m_retries
  BY DEF Objects
<1>4. NoWay(o) => ~c.timer /\ ~c.m_request /\ ~c.bare /\ ~c.proxy
  BY DEF NoWay, Objects
<1> QED BY <1>2, <1>3, <1>4

\* A success is accepted with the history of failures closed, or the object goes.
LEMMA OutgoingConnectedSettles ==
    ASSUME conn \in Conns, NEW o, Held(o), NoWay(o), o.m_resolved = <<>>,
           conn.kind # "resolve", NEW accept \in BOOLEAN
    PROVE  Settled(OnOutgoingConnected(o, accept))
<1>1. CASE accept
  <2> DEFINE c == [o EXCEPT !.in = "connected", !.base = TRUE, !.retried = 0]
  <2>1. /\ c \in Objects /\ c.in = "connected" /\ c.base /\ c.retried = 0
        /\ c.m_resolved = <<>> /\ c.m_iter = o.m_iter /\ c.m_retries = o.m_retries
        /\ ~c.timer /\ ~c.m_request /\ ~c.bare /\ ~c.proxy
    BY AcceptedFields DEF Held
  <2>2. Settled(c)
    <3> HIDE DEF c
    <3>1. c.m_retries \in Int
      BY <2>1 DEF Objects
    <3>2. Held(c) /\ InBudget(c)
      BY <2>1, <3>1, ConnFields DEF Held, InBudget
    <3> QED BY <2>1, <3>2 DEF Settled, Established
  <2> QED BY <1>1, <2>2 DEF OnOutgoingConnected
<1>2. CASE ~accept
  BY <1>2, DestroyedSettles DEF OnOutgoingConnected, Ended
<1> QED BY <1>1, <1>2

\* A connect that succeeds ends the attempt with the response dropped.
LEMMA ConnectSuccessInv ==
    ASSUME Inv, NEW accept \in BOOLEAN, ConnectSuccess(accept)
    PROVE  Inv'
<1> DEFINE t == Took(obj, <<>>, 0)
           o == [t EXCEPT !.bare = FALSE, !.m_retries = conn.nRetries]
<1>1. obj \in Objects /\ <<>> \in Seq(BOOLEAN) /\ 0 \in Nat
  BY Responded DEF Inv, Settled, Held
<1>2. /\ t \in Objects /\ t.m_resolved = <<>> /\ t.m_iter = 0
      /\ t.retried = obj.retried
      /\ ~t.timer /\ ~t.m_request /\ ~t.proxy /\ ~t.base
  <2>1. ~obj.timer /\ ~obj.m_request /\ ~obj.proxy /\ ~obj.base
    BY DEF ConnectSuccess, Inv, Settled, Held, NoWay, Waiting, LookingUp,
           Dialling, Negotiating, Established, Objects
  <2>2. /\ t.timer = obj.timer /\ t.m_request = obj.m_request
        /\ t.proxy = obj.proxy /\ t.base = obj.base
    BY <1>1 DEF Took, Objects
  <2>3. /\ t \in Objects /\ t.m_resolved = <<>> /\ t.m_iter = 0
        /\ t.retried = obj.retried
    BY <1>1, TookFields
  <2> QED BY <2>1, <2>2, <2>3
<1>3. OnConnectSuccess(obj) = o
  BY <1>1 DEF OnConnectSuccess, Took, Objects
<1>4. conn \in Conns /\ conn.kind # "resolve" /\ Held(obj)
  BY DEF ConnectSuccess, Inv, Settled
<1>5. Held(o) /\ NoWay(o) /\ o.m_resolved = <<>>
  <2> HIDE DEF t
  <2>1. /\ o \in Objects /\ o.m_retries = conn.nRetries /\ o.retried = obj.retried
        /\ o.m_resolved = <<>> /\ o.m_iter = 0 /\ NoWay(o)
    BY <1>2, <1>4, ConnFields DEF NoWay, Objects
  <2> HIDE DEF o
  <2> QED BY <2>1, <1>4, ConnFields DEF Held
<1>6. Settled(OnOutgoingConnected(OnConnectSuccess(obj), accept))
  BY <1>3, <1>4, <1>5, OutgoingConnectedSettles
<1> QED BY <1>6, StepSettles DEF ConnectSuccess

\* A negotiation that succeeds ends it too.
LEMMA ProxySuccessInv ==
    ASSUME Inv, NEW accept \in BOOLEAN, ProxySuccess(accept)
    PROVE  Inv'
<1> DEFINE o == [obj EXCEPT !.proxy = FALSE]
<1>1. /\ Held(o) /\ NoWay(o) /\ o.m_resolved = <<>>
      /\ conn \in Conns /\ conn.kind # "resolve"
  BY DEF ProxySuccess, Inv, Settled, Held, InBudget, NoWay, Waiting, LookingUp,
         Dialling, Negotiating, Established, Objects
<1>2. Settled(OnOutgoingConnected(o, accept))
  BY <1>1, OutgoingConnectedSettles
<1> QED BY <1>2, StepSettles DEF ProxySuccess

\* A lost connection waits for its timer, or the object is destroyed.
LEMMA DisconnectedInv == ASSUME Inv, NEW ret \in BOOLEAN, Disconnected(ret) PROVE Inv'
<1>1. Held(obj) /\ conn \in Conns
  BY DEF Inv, Settled
<1>2. Settled(Retry(obj))
  BY DEF Disconnected, Inv, Retry, Settled, Held, InBudget, NoWay, Waiting,
         Established, Objects
<1>3. Settled(Destroyed(obj))
  BY <1>1, DestroyedSettles DEF Ended
<1> QED BY <1>2, <1>3, StepSettles DEF Disconnected

\* ShutdownInt destroys whatever is in progress.
LEMMA ShutdownIntInv == ASSUME Inv, ShutdownInt PROVE Inv'
<1>1. Settled(Destroyed(obj))
  BY DestroyedSettles DEF Inv, Settled, Ended
<1> QED BY <1>1, StepSettles DEF ShutdownInt

\* Every step keeps the invariant: one lemma per action.
LEMMA NextInv == Inv /\ [Next]_vars => Inv'
<1>1. SUFFICES ASSUME Inv, [Next]_vars PROVE Inv'
  OBVIOUS
<1>2. ASSUME NEW ret \in BOOLEAN, Begin(ret) PROVE Inv'
  BY <1>1, <1>2, ConnectInv, ConnectNextInv, DoResolveInv, RefuseResolveInv,
     ResolveAtOnceInv DEF Begin
<1>3. ASSUME NEW ret \in BOOLEAN, Outcome(ret) PROVE Inv'
  BY <1>1, <1>3, ResolveFailureInv, ConnectFailureInv, ProxyFailureInv,
     ConnectSuccessInv, InitProxyInv, ProxySuccessInv, ResolveSuccessInv DEF Outcome
<1>4. ASSUME NEW ret \in BOOLEAN, Disconnected(ret) PROVE Inv'
  BY <1>1, <1>4, DisconnectedInv
<1>5. CASE ShutdownInt
  BY <1>1, <1>5, ShutdownIntInv
<1>6. CASE UNCHANGED vars
  BY <1>1, <1>6, StepSettles DEF vars, Inv
<1> QED BY <1>1, <1>2, <1>3, <1>4, <1>5, <1>6 DEF Next

-----------------------------------------------------------------------------
(* The theorems. *)

\* The invariant of every reachable state.
THEOREM Invariance == Spec => []Inv
BY InitInv, NextInv, PTL DEF Spec

\* The asserts of dnsconn.cpp hold, and what is left of a limited nRetries does not
\* drop below zero.
THEOREM StateConsistent == Spec => []Consistent
<1>1. Inv => Consistent
  <2>1. ASSUME Inv PROVE TypeOK
    BY <2>1, ConnFields DEF Inv, Settled, Held, TypeOK
  <2>2. ASSUME Inv PROVE ResponseInHand
    <3>1. obj.m_request \/ obj.in # "connecting" => obj.m_resolved = <<>>
      BY <2>2 DEF Inv, Settled, Waiting, LookingUp, Dialling, Negotiating
    <3>2. conn.kind = "dns" /\ obj.bare => obj.m_iter # 0
      BY <2>2 DEF Inv, Settled, Held, NoWay, Waiting, LookingUp, Dialling, Negotiating,
                  Established, Objects
    <3> QED BY <2>2, <3>1, <3>2 DEF Inv, Settled, Held, ResponseInHand
  <2> QED BY <2>1, <2>2 DEF Consistent
<1> QED BY <1>1, Invariance, PTL

\* CBareConnection::Connect, CBareProxy::InitProxy, Connect and DoResolve: an object
\* in m_connecting always waits for exactly one thing, whatever failed before.
THEOREM ExactlyOneWay == Spec => []OneWayForward
<1>1. Inv => OneWayForward
  <2>1. SUFFICES ASSUME Inv PROVE OneWayForward
    OBVIOUS
  <2>2. ASSUME obj.in = "connecting"
        PROVE  \E way \in WaysForward \ {"base"} : WaysForward = {way}
    <3>1. CASE Waiting(obj)
      <4>1. WaysForward = {"timer"}
        BY <3>1 DEF Waiting, WaysForward
      <4> QED BY <4>1
    <3>2. CASE LookingUp(obj)
      <4>1. WaysForward = {"m_request"}
        BY <3>2 DEF LookingUp, WaysForward
      <4> QED BY <4>1
    <3>3. CASE Dialling(obj)
      <4>1. WaysForward = {"bare"}
        BY <3>3 DEF Dialling, WaysForward
      <4> QED BY <4>1
    <3>4. CASE Negotiating(obj)
      <4>1. WaysForward = {"proxy"}
        BY <3>4 DEF Negotiating, WaysForward
      <4> QED BY <4>1
    <3> QED BY <2>1, <2>2, <3>1, <3>2, <3>3, <3>4 DEF Inv, Settled
  <2>3. obj.in = "connected" => WaysForward = {"base"}
    BY <2>1 DEF Inv, Settled, Established, WaysForward
  <2>4. obj.in \in {"new", "gone"} => WaysForward = {}
    BY <2>1 DEF Inv, Settled, NoWay, WaysForward
  <2> QED BY <2>2, <2>3, <2>4 DEF OneWayForward
<1> QED BY <1>1, Invariance, PTL

\* OnConnectFailure and OnResolveFailure: a candidate that is not a CDNSConnection is
\* not retried more often in a row than nRetries says.
THEOREM RetriesCounted == Spec => []RetryBudget
<1>1. Inv => RetryBudget
  BY DEF Inv, Settled, Held, RetryBudget
<1> QED BY <1>1, Invariance, PTL

-----------------------------------------------------------------------------
(* The order of the addresses. *)

\* What AddressesInOrder says of a step from `o` to `r`.
InOrder(o, r) ==
    r.in = "connecting" =>
        \/ r.m_resolved = o.m_resolved /\ r.m_iter \in {o.m_iter, o.m_iter + 1}
        \/ r.m_resolved = <<>> /\ o.m_iter = Len(o.m_resolved)

\* A retry keeps what is in hand.
LEMMA FailedKeeps ==
    ASSUME NEW o, o \in Objects, NEW retry \in BOOLEAN, NEW ret \in BOOLEAN,
           Failed(o, retry, ret).in = "connecting"
    PROVE  /\ Failed(o, retry, ret).m_resolved = o.m_resolved
           /\ Failed(o, retry, ret).m_iter = o.m_iter
<1>1. CASE retry /\ ret
  BY <1>1, ConstantsAssumption DEF Failed, Retry, Objects
<1>2. CASE ~(retry /\ ret)
  <2>1. Failed(o, retry, ret) = Destroyed(o)
    BY <1>2 DEF Failed
  <2>2. Destroyed(o).in = "gone"
    BY DEF Destroyed, Objects
  <2> QED BY <2>1, <2>2
<1> QED BY <1>1, <1>2

\* A failed connect moves on by one address, or drops the response at its end.
LEMMA ConnectFailureInOrder ==
    ASSUME conn \in Conns, NEW o, Between(o), conn.kind = "dns", o.m_iter # 0,
           NEW ret \in BOOLEAN
    PROVE  InOrder(o, OnConnectFailure(o, ret))
<1> DEFINE next == NextAddress(o)
<1>1. Between(next) /\ next \in Objects
  BY NextAddressMoves DEF Between, Held
<1>2. OnConnectFailure(o, ret) =
          IF next.m_iter # 0 THEN IF ret THEN Retry(next) ELSE Destroyed(next)
                             ELSE Failed(next, MayRetry(o), ret)
  BY DEF OnConnectFailure, DNSConnectFailure
<1>3. \/ next.m_iter = o.m_iter + 1 /\ next.m_resolved = o.m_resolved
      \/ o.m_iter = Len(o.m_resolved) /\ next.m_resolved = <<>>
  BY NextAddressMoves
<1> HIDE DEF next
<1>4. CASE next.m_iter # 0 /\ ret
  <2>1. Retry(next).m_resolved = next.m_resolved /\ Retry(next).m_iter = next.m_iter
    BY <1>1 DEF Retry, Objects
  <2> QED BY <1>2, <1>3, <1>4, <2>1 DEF InOrder
<1>5. CASE next.m_iter # 0 /\ ~ret
  <2>1. Destroyed(next).in = "gone"
    BY <1>1 DEF Destroyed, Objects
  <2> QED BY <1>2, <1>5, <2>1 DEF InOrder
<1>6. CASE next.m_iter = 0
  <2>1. MayRetry(o) \in BOOLEAN
    BY DEF MayRetry
  <2> QED BY <1>1, <1>2, <1>3, <1>6, <2>1, FailedKeeps DEF InOrder
<1> QED BY <1>4, <1>5, <1>6

\* An object with a response in hand is a CDNSConnection that waits for its timer or
\* for its connect.
LEMMA WithResponse ==
    ASSUME Inv, obj.m_iter # 0
    PROVE  /\ conn \in Conns /\ conn.kind = "dns" /\ obj.in = "connecting"
           /\ Waiting(obj) \/ Dialling(obj)
           /\ obj \in Objects
BY DEF Inv, Settled, Held, LookingUp, Negotiating, NoWay, Objects

\* So does every step of an object with a response in hand.
LEMMA StepInOrder ==
    ASSUME Inv, Next, obj.m_iter # 0
    PROVE  InOrder(obj, obj')
<1>1. PICK ret \in BOOLEAN : Begin(ret) \/ Outcome(ret) \/ Disconnected(ret) \/ ShutdownInt
  BY DEF Next
<1>2. CASE ConnectNext(ret)
  <2>1. /\ Between(Begun) /\ Begun.m_iter = obj.m_iter
        /\ Begun.m_resolved = obj.m_resolved
    BY <1>2, BegunBetween DEF ConnectNext
  <2>2. CASE Begun.m_resolved[Begun.m_iter]
    <3>1. obj' = BareConnect(Begun) /\ Begun \in Objects
      BY <1>2, <2>1, <2>2 DEF ConnectNext, ConnectResolved, Between, Held
    <3>2. /\ BareConnect(Begun).m_resolved = Begun.m_resolved
          /\ BareConnect(Begun).m_iter = Begun.m_iter
      BY <3>1 DEF BareConnect, Objects
    <3> QED BY <2>1, <3>1, <3>2 DEF InOrder
  <2>3. CASE ~Begun.m_resolved[Begun.m_iter]
    <3>1. obj' = OnConnectFailure(Begun, ret)
      BY <1>2, <2>3 DEF ConnectNext, ConnectResolved
    <3>2. InOrder(Begun, OnConnectFailure(Begun, ret))
      BY <2>1, ConnectFailureInOrder, WithResponse
    <3> QED BY <2>1, <3>1, <3>2 DEF InOrder
  <2> QED BY <2>2, <2>3
<1>3. CASE ConnectFailure(ret)
  <2> DEFINE o == [obj EXCEPT !.bare = FALSE]
  <2>1. Between(o) /\ o.m_iter = obj.m_iter /\ o.m_resolved = obj.m_resolved
    BY <1>3 DEF ConnectFailure, Inv, Between, Settled, Held, InBudget, NoWay, Waiting,
           LookingUp, Dialling, Negotiating, Established, Objects
  <2>2. obj' = OnConnectFailure(o, ret)
    BY <1>3 DEF ConnectFailure
  <2> HIDE DEF o
  <2>3. InOrder(o, OnConnectFailure(o, ret))
    BY <2>1, ConnectFailureInOrder, WithResponse
  <2> QED BY <2>1, <2>2, <2>3 DEF InOrder
<1>4. CASE ConnectSuccess(ret)
  \* It is connected, or gone.
  <2>1. obj'.in # "connecting"
    BY <1>4, WithResponse DEF ConnectSuccess, OnConnectSuccess, OnOutgoingConnected,
           Destroyed, Objects
  <2> QED BY <2>1 DEF InOrder
<1>5. CASE ShutdownInt
  <2>1. obj'.in # "connecting"
    BY <1>5, WithResponse DEF ShutdownInt, Destroyed, Objects
  <2> QED BY <2>1 DEF InOrder
<1>6. /\ ~Connect(ret) /\ ~DoResolve /\ ~RefuseResolve(ret) /\ ~ResolveAtOnce(ret)
      /\ ~ResolveFailure(ret) /\ ~ProxyFailure(ret) /\ ~InitProxy /\ ~ProxySuccess(ret)
      /\ ~Disconnected(ret)
      /\ \A response \in Responses : ~ResolveSuccess(response, ret)
  BY WithResponse DEF Connect, DoResolve, RefuseResolve, ResolveAtOnce, NeedsLookup,
         ResolveFailure, ProxyFailure, InitProxy, ProxySuccess, Disconnected,
         ResolveSuccess, Waiting, Dialling
<1> QED BY <1>1, <1>2, <1>3, <1>4, <1>5, <1>6 DEF Begin, Outcome

\* CDNSConnection::OnConnectFailure and ConnectResolved: a response is only dropped
\* with the last of its addresses tried, with a connection, or with the object.
THEOREM NoAddressPassedOver == Spec => AddressesInOrder
<1> DEFINE A == obj.m_iter # 0 /\ obj'.in = "connecting" =>
           \/ /\ obj'.m_resolved = obj.m_resolved
              /\ obj'.m_iter \in {obj.m_iter, obj.m_iter + 1}
           \/ obj'.m_resolved = <<>> /\ obj.m_iter = Len(obj.m_resolved)
<1>1. Inv /\ [Next]_vars => [A]_vars
  <2>1. ASSUME Inv, Next PROVE A
    BY <2>1, StepInOrder DEF InOrder
  <2> QED BY <2>1
<1> QED BY <1>1, Invariance, PTL DEF Spec, AddressesInOrder
=============================================================================
