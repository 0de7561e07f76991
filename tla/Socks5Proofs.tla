---------------------------- MODULE Socks5Proofs ----------------------------
(***************************************************************************)
(* The dialogue of Socks5 with any proxy: callbacks find the bytes they     *)
(* take, a whole reply is noticed, success is the proxy's, and the peer's   *)
(* data is left alone. No bound on the data or on how the bytes arrive.     *)
(*                                                                         *)
(* The inductive invariant says where the dialogue stands (Stage): with     *)
(* each read callback go a number of bytes taken, a bound on the bytes the  *)
(* proxy has sent, and a watermark.                                         *)
(***************************************************************************)
EXTENDS Socks5, TLAPS

\* What has led to the request for a connection.
Asked ==
    /\ proxy.methodVersion /\ CanWrite
    /\ proxy.method = "userpass" => conn.auth # "long"

\* The watermark of the last reply: the first, or the end of the reply once known.
LastMark ==
    \/ low = 8
    \/ low = NeedSize /\ low > 8 /\ proxy.atyp # "other"

Stage ==
    m_bev = "dialogue" =>
        \/ /\ readcb = "receive_init"
           /\ taken = 0 /\ low = 2
        \/ /\ readcb = "check_auth_response" /\ proxy.method = "userpass"
           /\ taken = MethodReply /\ low = 2
           /\ proxy.methodVersion /\ conn.auth # "long"
        \/ /\ readcb = "read_final" /\ Asked
           /\ taken = MethodReply + AuthReply /\ LastMark

\* The read callback is deferred just when the watermark is reached.
Woken == m_bev = "dialogue" => ("read" \in pending <=> Length >= low)

SentOnly == received <= Sent

Inv == TypeOK /\ Stage /\ Woken /\ SentOnly /\ OnlyIfGranted /\ PeerDataIntact

-----------------------------------------------------------------------------
(* Sizes. *)

\* A remainder is below the modulus, and the number itself if that is below.
LEMMA Modulo ==
    ASSUME NEW x \in Nat, NEW M \in Nat, M > 0
    PROVE  /\ x % M \in Nat /\ x % M < M
           /\ x < M => x % M = x
OBVIOUS

\* The proxy's parts are of their types.
LEMMA ProxyFields ==
    ASSUME proxy \in Proxies
    PROVE  /\ proxy.len \in 0 .. 255 /\ proxy.data \in Nat
           /\ proxy.atyp \in {"ip4", "ip6", "name", "other"}
           /\ proxy.method \in {"none", "userpass", "other"}
<1>1. proxy \in Proxy
  BY ConstantsAssumption
<1> QED
  BY <1>1 DEF Proxy

\* Replies have the lengths of their forms.
LEMMA Replies ==
    ASSUME proxy \in Proxies
    PROVE  /\ AuthReply \in {0, 2} /\ MethodReply = 2
           /\ LastReply \in Nat /\ ReplyEnd \in Nat /\ Sent \in Nat
           /\ ReplyEnd = MethodReply + AuthReply + LastReply
           /\ Ordinary => LastReply >= 8
           /\ Sent <= ReplyEnd + proxy.data
<1>1. AuthReply \in {0, 2} /\ MethodReply = 2
  BY DEF AuthReply, MethodReply
<1>2. LastReply \in Nat /\ LastReply >= 7 /\ (Ordinary => LastReply >= 8)
  BY ProxyFields DEF LastReply, AddressSize, Ordinary
<1>3. ReplyEnd = MethodReply + AuthReply + LastReply
  BY DEF ReplyEnd
<1>4. Sent \in {MethodReply, MethodReply + AuthReply, ReplyEnd + proxy.data}
  BY DEF Sent
<1> QED
  BY <1>1, <1>2, <1>3, <1>4, ProxyFields

\* The size read_final waits for and takes is a size_t, and that of the reply if
\* the name's length is a positive signed char.
LEMMA Needs ==
    ASSUME proxy \in Proxies
    PROVE  /\ NeedSize \in Nat /\ NeedSize < SizeMod /\ Drained = NeedSize
           /\ Ordinary /\ proxy.atyp # "other" => NeedSize = LastReply
<1>1. SizeMod \in Nat /\ SizeMod > 512
  BY ConstantsAssumption
<1> DEFINE x == Octets + AddrSize + 2
<1>2. x \in Nat
  BY <1>1, ProxyFields DEF Octets, AddrSize
<1>3. Ordinary /\ proxy.atyp # "other" => x = LastReply /\ x < SizeMod
  BY <1>1, ProxyFields DEF Octets, AddrSize, Ordinary, LastReply, AddressSize
<1>4. NeedSize = x % SizeMod /\ Drained = x % SizeMod
  BY DEF NeedSize, Drained
<1> HIDE DEF x
<1> QED
  BY <1>1, <1>2, <1>3, <1>4, Modulo

-----------------------------------------------------------------------------
(* The invariant gives the properties. *)

\* A callback that runs has its reply; a whole reply makes the callback run.
LEMMA WokenFinds == Inv => CallbackHasReply /\ ReplyNoticed
<1> SUFFICES ASSUME Inv, m_bev = "dialogue"
             PROVE  CallbackHasReply /\ ReplyNoticed
  BY DEF CallbackHasReply, ReplyNoticed
<1>1. /\ proxy \in Proxies /\ received \in Nat /\ taken \in Nat
      /\ Length \in Int /\ low \in Int /\ Length = received - taken
      /\ "read" \in pending <=> Length >= low
  BY ConstantsAssumption DEF Inv, TypeOK, Length, Woken
<1>2. CASE readcb = "read_final"
  <2>1. taken = MethodReply + AuthReply /\ LastMark
    BY <1>2 DEF Inv, Stage
  <2>2. low >= 8
    BY <1>1, <2>1 DEF LastMark
  <2>3. CallbackHasReply
    BY <1>1, <1>2, <2>2 DEF CallbackHasReply
  <2>4. Ordinary => low <= LastReply
    BY <1>1, <2>1, Needs, Replies DEF LastMark
  <2>5. ReplyNoticed
    BY <1>1, <2>1, <2>4, Replies DEF ReplyNoticed
  <2> QED
    BY <2>3, <2>5
<1>3. CASE readcb # "read_final"
  <2>1. low = 2
    BY <1>3 DEF Inv, Stage
  <2>2. CallbackHasReply
    BY <1>1, <1>3, <2>1 DEF CallbackHasReply
  <2>3. received <= MethodReply + AuthReply
    <3>1. Sent \in {MethodReply, MethodReply + AuthReply}
      BY <1>3 DEF Inv, Stage, Sent
    <3> QED
      BY <1>1, <3>1, Replies DEF Inv, SentOnly
  <2>4. Ordinary => ReplyEnd > MethodReply + AuthReply
    BY <1>1, Replies
  <2>5. ReplyNoticed
    BY <1>1, <2>3, <2>4, Replies DEF ReplyNoticed
  <2> QED
    BY <2>2, <2>5
<1> QED
  BY <1>2, <1>3

-----------------------------------------------------------------------------
(* The invariant is inductive. *)

\* The dialogue begins with nothing read and the method reply awaited.
LEMMA InitInv == Init => Inv
<1> SUFFICES ASSUME Init PROVE Inv
  OBVIOUS
<1>1. SizeMod \in Nat /\ SizeMod > 512
  BY ConstantsAssumption
<1>2. TypeOK
  BY <1>1 DEF Init, TypeOK
<1>3. Stage
  BY DEF Init, Stage
<1>4. Woken
  BY DEF Init, Woken, Length
<1>5. SentOnly
  BY Replies DEF Init, SentOnly
<1>6. OnlyIfGranted /\ PeerDataIntact
  BY DEF Init, OnlyIfGranted, PeerDataIntact
<1> QED
  BY <1>2, <1>3, <1>4, <1>5, <1>6 DEF Inv

\* What depends on the candidate and the proxy alone does not change.
LEMMA Kept ==
    ASSUME UNCHANGED <<conn, proxy>>
    PROVE  /\ CanWrite' = CanWrite /\ Asked' = Asked /\ Ordinary' = Ordinary
           /\ NeedSize' = NeedSize /\ Drained' = Drained
           /\ MethodReply' = MethodReply /\ AuthReply' = AuthReply
           /\ LastReply' = LastReply /\ ReplyEnd' = ReplyEnd
           /\ readcb' = readcb => Sent' = Sent
           /\ low' = low => LastMark' = LastMark
BY DEF CanWrite, Asked, Ordinary, NeedSize, Drained, Octets, AddrSize, MethodReply, AuthReply,
       LastReply, AddressSize, ReplyEnd, Sent, LastMark

\* The dialogue stands where it stood.
LEMMA StageKept ==
    ASSUME Stage, UNCHANGED <<conn, proxy, m_bev, readcb, low, taken>>
    PROVE  Stage'
<1>1. /\ conn' = conn /\ proxy' = proxy /\ m_bev' = m_bev /\ readcb' = readcb
      /\ low' = low /\ taken' = taken
  OBVIOUS
<1>2. /\ Asked' = Asked /\ LastMark' = LastMark
      /\ MethodReply' = MethodReply /\ AuthReply' = AuthReply
  BY <1>1, Kept
<1> QED
  BY <1>1, <1>2 DEF Stage

\* So do the rest of the invariant's parts.
LEMMA RestKept ==
    ASSUME SentOnly, OnlyIfGranted, PeerDataIntact,
           UNCHANGED <<conn, proxy, m_bev, readcb, received, taken>>
    PROVE  SentOnly' /\ OnlyIfGranted' /\ PeerDataIntact'
<1>1. /\ conn' = conn /\ proxy' = proxy /\ m_bev' = m_bev /\ readcb' = readcb
      /\ received' = received /\ taken' = taken
  OBVIOUS
<1>2. Sent' = Sent /\ CanWrite' = CanWrite /\ ReplyEnd' = ReplyEnd /\ Ordinary' = Ordinary
  BY <1>1, Kept
<1>3. SentOnly'
  BY <1>1, <1>2 DEF SentOnly
<1>4. OnlyIfGranted'
  BY <1>1, <1>2 DEF OnlyIfGranted
<1>5. PeerDataIntact'
  BY <1>1, <1>2 DEF PeerDataIntact
<1> QED
  BY <1>3, <1>4, <1>5

\* The numbers of a state are such.
LEMMA Numbers ==
    ASSUME TypeOK
    PROVE  /\ received \in Nat /\ taken \in Nat /\ taken <= received
           /\ low \in Nat /\ SizeMod \in Nat /\ SizeMod > 512
           /\ Length \in Nat /\ Length = received - taken
<1>1. SizeMod \in Nat /\ SizeMod > 512
  BY ConstantsAssumption
<1>2. received \in Nat /\ taken \in Nat /\ taken <= received /\ low \in 0 .. SizeMod - 1
  BY DEF TypeOK
<1> QED
  BY <1>1, <1>2 DEF Length

\* A step that ends the dialogue in failure.
LEMMA EndInv ==
    ASSUME Inv, UNCHANGED <<conn, proxy, received>>, m_bev' = "freed", pending' = {},
           readcb' \in {"receive_init", "check_auth_response", "read_final"},
           low' = low, taken' \in Nat, taken' <= received,
           received <= Sent'
    PROVE  Inv'
<1>1. TypeOK'
  BY DEF Inv, TypeOK
<1>2. Stage' /\ Woken' /\ OnlyIfGranted' /\ PeerDataIntact'
  BY DEF Stage, Woken, OnlyIfGranted, PeerDataIntact
<1>3. SentOnly'
  BY DEF SentOnly
<1> QED
  BY <1>1, <1>2, <1>3 DEF Inv

\* Bytes arrive; at the watermark the callback is deferred.
LEMMA ArriveInv == ASSUME Inv, NEW n \in 1 .. Sent, Arrive(n) PROVE Inv'
<1> USE Kept
<1>1. /\ UNCHANGED <<conn, proxy, m_bev, readcb, low, taken>>
      /\ received' = received + n /\ received + n <= Sent /\ m_bev = "dialogue"
      /\ pending' = IF Length + n >= low THEN pending \cup {"read"} ELSE pending
  BY DEF Arrive
<1>2. /\ proxy \in Proxies /\ received \in Nat /\ taken \in Nat /\ taken <= received
      /\ low \in Nat /\ n \in Nat
  <2>1. proxy \in Proxies
    BY DEF Inv, TypeOK
  <2>2. Sent \in Nat
    BY <2>1, Replies
  <2>3. n \in Nat
    BY <2>2
  <2>4. received \in Nat /\ taken \in Nat /\ taken <= received /\ low \in Nat
    BY Numbers DEF Inv
  <2> QED
    BY <2>1, <2>3, <2>4
<1>3. Length \in Nat /\ Length' = Length + n
  BY <1>1, <1>2 DEF Length
<1>4. TypeOK'
  <2>1. received' \in Nat /\ taken' <= received'
    BY <1>1, <1>2
  <2>2. pending' \subseteq {"read", "event"}
    BY <1>1 DEF Inv, TypeOK
  <2> QED
    BY <1>1, <2>1, <2>2 DEF Inv, TypeOK
<1>5. Stage'
  BY <1>1, StageKept DEF Inv
<1>6. Woken'
  <2>1. "read" \in pending => Length >= low
    BY <1>1 DEF Inv, Woken
  <2> QED
    BY <1>1, <1>2, <1>3, <2>1 DEF Woken
<1>7. SentOnly'
  BY <1>1 DEF SentOnly
<1>8. OnlyIfGranted' /\ PeerDataIntact'
  BY <1>1 DEF OnlyIfGranted, PeerDataIntact
<1> QED
  BY <1>4, <1>5, <1>6, <1>7, <1>8 DEF Inv

\* A failure is noted.
LEMMA FailsInv == ASSUME Inv, Fails PROVE Inv'
<1> USE Kept
<1>1. /\ UNCHANGED <<conn, proxy, m_bev, readcb, low, received, taken>>
      /\ pending' = pending \cup {"event"}
  BY DEF Fails
<1>2. TypeOK'
  BY <1>1 DEF Inv, TypeOK
<1>3. Stage' /\ SentOnly' /\ OnlyIfGranted' /\ PeerDataIntact'
  <2>1. Stage'
    <3>1. Stage /\ UNCHANGED <<conn, proxy, m_bev, readcb, low, taken>>
      BY <1>1 DEF Inv
    <3> QED
      BY <3>1, StageKept
  <2>2. SentOnly' /\ OnlyIfGranted' /\ PeerDataIntact'
    <3>1. UNCHANGED <<conn, proxy, m_bev, readcb, received, taken>>
      BY <1>1
    <3> QED
      BY <3>1, RestKept DEF Inv
  <2> QED
    BY <2>1, <2>2
<1>4. Woken'
  BY <1>1 DEF Inv, Woken, Length
<1> QED
  BY <1>2, <1>3, <1>4 DEF Inv

\* After a reply of two bytes has been taken, the request for a connection is
\* written, or it cannot be.
LEMMA WriteProtoInv ==
    ASSUME Inv, UNCHANGED <<conn, proxy, received>>, writeproto, m_bev = "dialogue",
           taken' = MethodReply + AuthReply, received = taken',
           proxy.methodVersion, proxy.method = "userpass" => conn.auth # "long"
    PROVE  Inv'
<1> USE Kept
<1>1. /\ proxy \in Proxies /\ received \in Nat /\ taken' \in Nat
      /\ SizeMod \in Nat /\ SizeMod > 512 /\ low \in 0 .. SizeMod - 1
  BY ConstantsAssumption DEF Inv, TypeOK
<1>2. readcb' = "read_final" /\ Sent' = ReplyEnd + proxy.data
  BY DEF writeproto, Sent
<1>3. received <= Sent'
  BY <1>1, <1>2, Replies, ProxyFields
<1>4. CASE ~CanWrite
  <2>1. m_bev' = "freed" /\ low' = low /\ pending' = {}
    BY <1>4 DEF writeproto
  <2>2. taken' <= received
    BY <1>1
  <2> QED
    BY <1>1, <1>2, <1>3, <2>1, <2>2, EndInv
<1>5. CASE CanWrite
  <2>1. m_bev' = "dialogue" /\ low' = 8 /\ pending' = pending \ {"read"}
    BY <1>5 DEF writeproto
  <2>2. TypeOK'
    BY <1>1, <1>2, <2>1 DEF Inv, TypeOK
  <2>3. Stage'
    BY <1>2, <1>5, <2>1 DEF Stage, Asked, LastMark
  <2>4. Woken'
    <3>1. Length' = 0
      BY <1>1 DEF Length
    <3> QED
      BY <2>1, <3>1 DEF Woken
  <2>5. SentOnly' /\ OnlyIfGranted' /\ PeerDataIntact'
    BY <1>3, <2>1 DEF SentOnly, OnlyIfGranted, PeerDataIntact
  <2> QED
    BY <2>2, <2>3, <2>4, <2>5 DEF Inv
<1> QED
  BY <1>4, <1>5

\* A reply of two bytes is taken as a whole.
LEMMA TakesReply ==
    ASSUME Inv, m_bev = "dialogue", "read" \in pending, readcb # "read_final",
           UNCHANGED received, taken' = taken + 2
    PROVE  taken' = received /\ taken' \in Nat /\ received = Sent
<1>1. proxy \in Proxies /\ received \in Nat /\ taken \in Nat /\ Length >= low
  BY DEF Inv, TypeOK, Woken
<1>2. low = 2 /\ received >= taken + 2
  BY <1>1 DEF Inv, Stage, Length
<1>3. Sent = taken + 2
  BY <1>1, Replies DEF Inv, Stage, Sent, AuthReply
<1> QED
  BY <1>1, <1>2, <1>3 DEF Inv, SentOnly

\* The method reply.
LEMMA ReceiveInitInv == ASSUME Inv, receive_init PROVE Inv'
<1> USE Kept
<1>1. /\ UNCHANGED <<conn, proxy, received>> /\ taken' = taken + 2
      /\ m_bev = "dialogue" /\ "read" \in pending /\ readcb = "receive_init"
  BY DEF receive_init, Runs
<1>2. taken' = received /\ taken' \in Nat /\ received = Sent
  BY <1>1, TakesReply
<1>3. /\ taken' = MethodReply /\ taken' <= received /\ proxy \in Proxies
      /\ received \in Nat /\ SizeMod \in Nat /\ SizeMod > 512
  BY <1>1, <1>2, Replies, ConstantsAssumption DEF Inv, TypeOK, Stage
<1>4. CASE ~proxy.methodVersion
  <2>1. ProxyFailure
    BY <1>4 DEF receive_init
  <2>2. received <= Sent'
    BY <1>1, <1>2, <1>3, <2>1 DEF ProxyFailure
  <2> QED
    BY <1>1, <1>2, <1>3, <2>1, <2>2, EndInv DEF ProxyFailure
<1>5. CASE proxy.methodVersion /\ proxy.method = "userpass"
  <2>1. write_auth
    BY <1>5 DEF receive_init
  <2>2. Sent' = MethodReply + AuthReply
    BY <1>1, <2>1 DEF write_auth, Sent
  <2>3. received <= Sent'
    BY <1>2, <1>3, <2>2, Replies
  <2>4. CASE conn.auth = "long"
    BY <1>1, <1>2, <1>3, <2>1, <2>3, <2>4, EndInv DEF write_auth
  <2>5. CASE conn.auth # "long"
    <3>1. /\ readcb' = "check_auth_response" /\ m_bev' = "dialogue" /\ low' = 2
          /\ pending' = pending \ {"read"}
      BY <1>1, <2>1, <2>5 DEF write_auth
    <3>2. TypeOK'
      BY <1>1, <1>2, <1>3, <3>1 DEF Inv, TypeOK
    <3>3. Stage'
      BY <1>1, <1>3, <1>5, <2>5, <3>1 DEF Stage
    <3>4. Woken'
      <4>1. Length' = 0
        BY <1>1, <1>2, <1>3 DEF Length
      <4> QED
        BY <3>1, <4>1 DEF Woken
    <3>5. SentOnly' /\ OnlyIfGranted' /\ PeerDataIntact'
      BY <1>1, <2>3, <3>1 DEF SentOnly, OnlyIfGranted, PeerDataIntact
    <3> QED
      BY <3>2, <3>3, <3>4, <3>5 DEF Inv
  <2> QED
    BY <2>4, <2>5
<1>6. CASE proxy.methodVersion /\ proxy.method # "userpass"
  <2>1. writeproto
    BY <1>6 DEF receive_init
  <2>2. AuthReply = 0 /\ MethodReply = 2
    BY <1>6 DEF AuthReply, MethodReply
  <2>3. taken' = MethodReply + AuthReply
    BY <1>3, <2>2
  <2> QED
    BY <1>1, <1>2, <1>6, <2>1, <2>3, WriteProtoInv
<1> QED
  BY <1>4, <1>5, <1>6

\* The reply to the credentials.
LEMMA CheckAuthInv == ASSUME Inv, check_auth_response PROVE Inv'
<1> USE Kept
<1>1. /\ UNCHANGED <<conn, proxy, received>> /\ taken' = taken + 2
      /\ m_bev = "dialogue" /\ "read" \in pending /\ readcb = "check_auth_response"
  BY DEF check_auth_response, Runs
<1>2. taken' = received /\ taken' \in Nat /\ received = Sent
  BY <1>1, TakesReply
<1>3. /\ proxy.method = "userpass" /\ proxy.methodVersion /\ conn.auth # "long"
      /\ taken = MethodReply
  BY <1>1 DEF Inv, Stage
<1>4. taken' = MethodReply + AuthReply
  BY <1>1, <1>3 DEF AuthReply
<1>5. CASE ~proxy.authVersion /\ ~proxy.accepted
  <2>1. ProxyFailure
    BY <1>5 DEF check_auth_response
  <2>2. received \in Nat /\ taken' <= received /\ received <= Sent'
    BY <1>1, <1>2, <2>1 DEF ProxyFailure
  <2> QED
    BY <1>1, <1>2, <2>1, <2>2, EndInv DEF ProxyFailure
<1>6. CASE ~(~proxy.authVersion /\ ~proxy.accepted)
  <2>1. writeproto
    BY <1>6 DEF check_auth_response
  <2> QED
    BY <1>1, <1>2, <1>3, <1>4, <2>1, WriteProtoInv
<1> QED
  BY <1>5, <1>6

\* The last reply: a failure, not yet whole, or success.
LEMMA ReadFinalInv == ASSUME Inv, read_final PROVE Inv'
<1> USE Kept
<1>1. /\ UNCHANGED <<conn, proxy, received>>
      /\ m_bev = "dialogue" /\ "read" \in pending /\ readcb = "read_final"
  BY DEF read_final, Runs
<1>2. /\ proxy \in Proxies /\ received \in Nat /\ taken \in Nat /\ taken <= received
      /\ low \in Nat /\ SizeMod \in Nat /\ Length = received - taken
      /\ received <= Sent
  <2>1. proxy \in Proxies /\ received <= Sent
    BY DEF Inv, TypeOK, SentOnly
  <2> QED
    BY <2>1, Numbers DEF Inv
<1>3. NeedSize \in Nat /\ NeedSize < SizeMod /\ Drained = NeedSize
  BY <1>2, Needs
<1>4. Asked /\ taken = MethodReply + AuthReply /\ LastMark
  BY <1>1 DEF Inv, Stage
<1>5. Length >= 8
  BY <1>1, WokenFinds DEF CallbackHasReply
<1>6. CASE Refused \/ proxy.atyp = "other"
  <2>1. ProxyFailure /\ taken' = taken
    BY <1>6 DEF read_final
  <2>2. received <= Sent'
    BY <1>1, <1>2, <2>1 DEF ProxyFailure
  <2> QED
    BY <1>1, <1>2, <2>1, <2>2, EndInv DEF ProxyFailure
<1>7. CASE ~(Refused \/ proxy.atyp = "other") /\ Length < NeedSize
  <2>1. /\ low' = NeedSize /\ pending' = pending \ {"read"}
        /\ UNCHANGED <<m_bev, readcb, taken>>
    BY <1>7 DEF read_final
  <2>2. Length' = Length /\ Length \in Nat
    BY <1>1, <1>2, <2>1 DEF Length
  <2>3. TypeOK'
    BY <1>1, <1>3, <1>2, <2>1 DEF Inv, TypeOK
  <2>4. low' > 8
    BY <1>3, <1>5, <1>7, <2>1, <2>2
  <2>5. LastMark'
    BY <1>1, <1>7, <2>1, <2>4 DEF LastMark
  <2>6. Stage'
    BY <1>1, <1>4, <2>1, <2>5 DEF Stage
  <2>7. Woken'
    BY <1>3, <1>7, <2>1, <2>2 DEF Woken
  <2>8. SentOnly' /\ OnlyIfGranted' /\ PeerDataIntact'
    BY <1>1, <2>1 DEF Inv, SentOnly, OnlyIfGranted, PeerDataIntact
  <2> QED
    BY <2>3, <2>6, <2>7, <2>8 DEF Inv
<1>8. CASE ~(Refused \/ proxy.atyp = "other") /\ ~(Length < NeedSize)
  <2>1. /\ taken' = taken + Drained /\ m_bev' = "handed on" /\ pending' = pending \ {"read"}
        /\ UNCHANGED <<readcb, low>>
    BY <1>8 DEF read_final
  <2>2. taken' \in Nat /\ taken' <= received
    <3>1. taken' = taken + NeedSize /\ ~(received - taken < NeedSize)
      BY <1>2, <1>3, <1>8, <2>1
    <3> QED
      BY <1>2, <1>3, <3>1
  <2>3. TypeOK'
    BY <1>1, <1>2, <2>1, <2>2 DEF Inv, TypeOK
  <2>4. Stage' /\ Woken'
    BY <2>1 DEF Stage, Woken
  <2>5. SentOnly'
    BY <1>1, <1>2, <2>1 DEF SentOnly
  <2>6. OnlyIfGranted'
    BY <1>1, <1>4, <1>8 DEF OnlyIfGranted, Asked, Refused
  <2>7. PeerDataIntact'
    <3>1. Ordinary => taken + Drained = ReplyEnd
      BY <1>2, <1>3, <1>4, <1>8, Needs, Replies
    <3> QED
      BY <1>1, <2>1, <3>1 DEF PeerDataIntact
  <2> QED
    BY <2>3, <2>4, <2>5, <2>6, <2>7 DEF Inv
<1> QED
  BY <1>6, <1>7, <1>8

\* Every step preserves the invariant.
LEMMA NextInv == Inv /\ [Next]_vars => Inv'
<1> SUFFICES ASSUME Inv, [Next]_vars PROVE Inv'
  OBVIOUS
<1> USE Kept
<1>0. /\ taken \in Nat /\ taken <= received /\ received <= Sent
      /\ readcb \in {"receive_init", "check_auth_response", "read_final"}
  BY DEF Inv, TypeOK, SentOnly
<1>1. CASE Arrival
  BY <1>1, ArriveInv DEF Arrival
<1>2. CASE Fails
  BY <1>2, FailsInv
<1>3. CASE Cancel
  BY <1>0, <1>3, EndInv DEF Cancel
<1>4. CASE event_cb
  BY <1>0, <1>4, EndInv DEF event_cb, ProxyFailure
<1>5. CASE receive_init \/ check_auth_response \/ read_final
  BY <1>5, ReceiveInitInv, CheckAuthInv, ReadFinalInv
<1>6. CASE UNCHANGED vars
  <2>1. UNCHANGED <<conn, proxy, m_bev, readcb, low, received, taken, pending>>
    BY <1>6 DEF vars
  <2>2. TypeOK' /\ Stage' /\ Woken'
    <3>1. TypeOK'
      BY <2>1 DEF Inv, TypeOK
    <3>2. Stage'
      <4>1. Stage /\ UNCHANGED <<conn, proxy, m_bev, readcb, low, taken>>
        BY <2>1 DEF Inv
      <4> QED
        BY <4>1, StageKept
    <3>3. Woken'
      BY <2>1 DEF Inv, Woken, Length
    <3> QED
      BY <3>1, <3>2, <3>3
  <2>3. SentOnly' /\ OnlyIfGranted' /\ PeerDataIntact'
    <3>1. UNCHANGED <<conn, proxy, m_bev, readcb, received, taken>>
      BY <2>1
    <3> QED
      BY <3>1, RestKept DEF Inv
  <2> QED
    BY <2>2, <2>3 DEF Inv
<1> QED
  BY <1>1, <1>2, <1>3, <1>4, <1>5, <1>6 DEF Next, Callback

\* The inductive invariant of Socks5.
THEOREM Invariance == Spec => []Inv
BY InitInv, NextInv, PTL DEF Spec

\* Nothing is taken out of the input that is not in it.
THEOREM TypeCorrect == Spec => []TypeOK
<1>1. Inv => TypeOK
  BY DEF Inv
<1> QED
  BY <1>1, Invariance, PTL

\* The reads and the assertion of the callbacks hold.
THEOREM AssertionsHold == Spec => []CallbackHasReply
<1>1. Inv => CallbackHasReply
  BY WokenFinds
<1> QED
  BY <1>1, Invariance, PTL

\* The watermark is never above the end of the reply.
THEOREM NoticesReply == Spec => []ReplyNoticed
<1>1. Inv => ReplyNoticed
  BY WokenFinds
<1> QED
  BY <1>1, Invariance, PTL

\* Success is the proxy's.
THEOREM GrantedOnly == Spec => []OnlyIfGranted
<1>1. Inv => OnlyIfGranted
  BY DEF Inv
<1> QED
  BY <1>1, Invariance, PTL

\* The peer's data is left for the connection.
THEOREM LeavesPeerData == Spec => []PeerDataIntact
<1>1. Inv => PeerDataIntact
  BY DEF Inv
<1> QED
  BY <1>1, Invariance, PTL

\* Callback, watermark and input agree in every step of the dialogue of bareproxy.cpp.
THEOREM StateConsistent == Spec => []Consistent
BY TypeCorrect, AssertionsHold, NoticesReply, PTL DEF Consistent
=============================================================================
