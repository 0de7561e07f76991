------------------------------- MODULE Socks5 -------------------------------
(***************************************************************************)
(* CBareProxy (src/bareproxy.cpp): the SOCKS5 dialogue with a proxy that    *)
(* CProxyConn has connected to. It ends in OnProxySuccess, which hands the  *)
(* bufferevent on, or in OnProxyFailure, before which it is freed; these    *)
(* are ProxySuccess and ProxyFailure of module ConnAttempt.                 *)
(*                                                                         *)
(* There is a read callback for each reply, and a low watermark, the number *)
(* of bytes that must be in the input before it is called. The proxy sends  *)
(* a reply when it has the request; on the heels of the last it may send    *)
(* what it has of the peer's data, which must stay in the input for the     *)
(* connection. Bytes arrive in any portions; what they are is in `proxy`.   *)
(***************************************************************************)
EXTENDS Integers

CONSTANTS
    Conns,      \* candidates with a proxy, see Conn
    Proxies,    \* what a proxy answers, see Proxy
    SizeMod     \* 2^w of size_t

\* The credentials, the host (an address of another family, or .onion, is "other";
\* a "long" credential or name has more than 255 bytes), GetProxy().GetType().
Conn == [auth : {"unset", "fits", "long"},
         host : {"name", "long name", "ip4", "ip6", "other"},
         type : {"SOCKS5", "SOCKS5_FORCE_DOMAIN_TYPE"}]

\* Method reply: its version is 5; the method. Reply to the credentials: its
\* version is 1, its status 0. Last reply: its version is 5, its code 0; the address
\* type and, for a name, its length. How much of the peer's data follows.
Proxy == [methodVersion : BOOLEAN, method : {"none", "userpass", "other"},
          authVersion : BOOLEAN, accepted : BOOLEAN,
          version : BOOLEAN, granted : BOOLEAN,
          atyp : {"ip4", "ip6", "name", "other"}, len : 0 .. 255, data : Nat]

ASSUME ConstantsAssumption ==
    /\ Conns \subseteq Conn
    /\ Proxies \subseteq Proxy
    /\ SizeMod \in Nat /\ SizeMod > 512

VARIABLES
    conn, proxy,    \* never change
    m_bev,          \* "dialogue"; "freed" by ProxyFailure; "handed on"
    readcb,         \* the read callback
    low,            \* the low watermark for reading
    received,       \* bytes the proxy has sent and libevent has read
    taken,          \* bytes taken out of the input
    pending         \* deferred callbacks: "read", "event"

vars == <<conn, proxy, m_bev, readcb, low, received, taken, pending>>

Length == received - taken

-----------------------------------------------------------------------------
(* What the proxy sends. *)

MethodReply == 2
AuthReply == IF proxy.method = "userpass" THEN 2 ELSE 0
AddressSize ==
    IF proxy.atyp = "ip6" THEN 16 ELSE IF proxy.atyp = "name" THEN 1 + proxy.len ELSE 4
LastReply == 4 + AddressSize + 2
ReplyEnd == MethodReply + AuthReply + LastReply

\* All it has sent, having had the requests that it has.
Sent ==
    CASE readcb = "receive_init" -> MethodReply
      [] readcb = "check_auth_response" -> MethodReply + AuthReply
      [] OTHER -> ReplyEnd + proxy.data

Arrive(n) ==
    /\ m_bev = "dialogue"
    /\ received + n <= Sent
    /\ received' = received + n
    /\ pending' = IF Length + n >= low THEN pending \cup {"read"} ELSE pending
    /\ UNCHANGED <<conn, proxy, m_bev, readcb, low, taken>>

\* EOF, an error, or nRecvTimeout or nSendTimeout.
Fails ==
    /\ m_bev = "dialogue"
    /\ pending' = pending \cup {"event"}
    /\ UNCHANGED <<conn, proxy, m_bev, readcb, low, received, taken>>

\* CProxyConn is destroyed, with its bufferevent.
Cancel ==
    /\ m_bev = "dialogue"
    /\ m_bev' = "freed"
    /\ pending' = {}
    /\ UNCHANGED <<conn, proxy, readcb, low, received, taken>>

-----------------------------------------------------------------------------
\* InitProxy.
Init ==
    /\ conn \in Conns /\ proxy \in Proxies
    /\ m_bev = "dialogue"
    /\ readcb = "receive_init"
    /\ low = 2
    /\ received = 0 /\ taken = 0
    /\ pending = {}

Runs(cb) == m_bev = "dialogue" /\ "read" \in pending /\ readcb = cb

ProxyFailure ==
    /\ m_bev' = "freed"
    /\ pending' = {}
    /\ UNCHANGED <<readcb, low>>

\* Whether writeproto can write the host.
CanWrite ==
    \/ conn.host = "name"
    \/ conn.host \in {"ip4", "ip6"}
    \/ conn.host = "other" /\ conn.type = "SOCKS5_FORCE_DOMAIN_TYPE"

\* setcb with read_final, then writeproto, and ProxyFailure unless it can.
writeproto ==
    /\ readcb' = "read_final"
    /\ IF CanWrite THEN m_bev' = m_bev /\ low' = 8 /\ pending' = pending \ {"read"}
                   ELSE m_bev' = "freed" /\ low' = low /\ pending' = {}

\* Mutant: the watermark of writeproto.
write_auth_Mark8 ==
    /\ readcb' = "check_auth_response"
    /\ IF conn.auth # "long" THEN m_bev' = m_bev /\ low' = 8 /\ pending' = pending \ {"read"}
                             ELSE m_bev' = "freed" /\ low' = low /\ pending' = {}

\* setcb with check_auth_response, then write_auth, likewise.
write_auth ==
    /\ readcb' = "check_auth_response"
    /\ IF conn.auth # "long" THEN m_bev' = m_bev /\ low' = 2 /\ pending' = pending \ {"read"}
                             ELSE m_bev' = "freed" /\ low' = low /\ pending' = {}

receive_init ==
    /\ Runs("receive_init")
    /\ taken' = taken + 2
    /\ IF ~proxy.methodVersion THEN ProxyFailure
       ELSE IF proxy.method = "userpass" THEN write_auth
       ELSE writeproto
    /\ UNCHANGED <<conn, proxy, received>>

check_auth_response ==
    /\ Runs("check_auth_response")
    /\ taken' = taken + 2
    /\ IF ~proxy.authVersion /\ ~proxy.accepted THEN ProxyFailure ELSE writeproto
    /\ UNCHANGED <<conn, proxy, received>>

\* size_t arithmetic on a length read through a signed char.
AddrSize ==
    CASE proxy.atyp = "ip4" -> 4
      [] proxy.atyp = "ip6" -> 16
      [] OTHER -> IF proxy.len < 128 THEN proxy.len ELSE SizeMod + proxy.len - 256

Octets == IF proxy.atyp = "name" THEN 5 ELSE 4    \* before the address

\* Mutant: the octet of a name's length is counted for every address.
NeedSize_LengthOctet == (5 + AddrSize + 2) % SizeMod
NeedSize == (Octets + AddrSize + 2) % SizeMod

\* Mutant: the code is not looked at.
Refused_VersionOnly == ~proxy.version
Refused == ~proxy.version \/ ~proxy.granted

\* Mutant: the port is left in the input.
Drained_NotPort == (Octets + AddrSize) % SizeMod
Drained == (Octets + AddrSize + 2) % SizeMod

read_final ==
    /\ Runs("read_final")
    /\ IF Refused \/ proxy.atyp = "other" THEN ProxyFailure /\ taken' = taken
       ELSE IF Length < NeedSize
       THEN /\ low' = NeedSize
            /\ pending' = pending \ {"read"}
            /\ UNCHANGED <<m_bev, readcb, taken>>
       ELSE /\ taken' = taken + Drained
            /\ m_bev' = "handed on"
            /\ pending' = pending \ {"read"}
            /\ UNCHANGED <<readcb, low>>
    /\ UNCHANGED <<conn, proxy, received>>

\* The deferred callback looks at reading first. What is pending when the
\* bufferevent is handed on is for the connection's event_cb.
event_cb ==
    /\ m_bev = "dialogue" /\ "event" \in pending /\ "read" \notin pending
    /\ ProxyFailure
    /\ UNCHANGED <<conn, proxy, received, taken>>

Callback == receive_init \/ check_auth_response \/ read_final \/ event_cb
Arrival == \E n \in 1 .. Sent : Arrive(n)

Next == Arrival \/ Fails \/ Cancel \/ Callback

Spec == Init /\ [][Next]_vars

\* The event thread runs what is deferred; the proxy sends its replies whole.
Fairness == WF_vars(Callback) /\ WF_vars(Arrival)

FairSpec == Spec /\ Fairness

-----------------------------------------------------------------------------
(* Properties. *)

\* Types; nothing is taken out of the input that is not in it.
TypeOK ==
    /\ conn \in Conns /\ proxy \in Proxies
    /\ m_bev \in {"dialogue", "freed", "handed on"}
    /\ readcb \in {"receive_init", "check_auth_response", "read_final"}
    /\ low \in 0 .. SizeMod - 1
    /\ received \in Nat /\ taken \in Nat
    /\ taken <= received
    /\ pending \subseteq {"read", "event"}

\* bareproxy.cpp, "assert(len >= 8)", and the two reads of 2 bytes: a callback that
\* runs finds the bytes it takes for granted, whichever callback the deferred one
\* was scheduled for.
CallbackHasReply ==
    m_bev = "dialogue" /\ "read" \in pending =>
        Length >= IF readcb = "read_final" THEN 8 ELSE 2

\* A name of 1 to 127 bytes: one whose length is a positive signed char, and whose
\* reply reaches the watermark of 8.
Ordinary == proxy.atyp = "name" => proxy.len \in 1 .. 127

\* A reply that has arrived as a whole is noticed: the watermark, raised in steps as
\* the address's length becomes known, is never above the end of the reply.
ReplyNoticed ==
    m_bev = "dialogue" /\ Ordinary /\ received >= ReplyEnd => "read" \in pending

\* Callback, watermark and input of the dialogue agree: setcb and setwatermark, two calls
\* in every step of it, call no callback early and none too late.
Consistent == TypeOK /\ CallbackHasReply /\ ReplyNoticed

\* A connection through the proxy is only reported if the proxy granted it, in a
\* reply of a known form, having been sent a request it could be sent.
OnlyIfGranted ==
    m_bev = "handed on" =>
        /\ proxy.methodVersion /\ proxy.version /\ proxy.granted /\ proxy.atyp # "other"
        /\ CanWrite
        /\ proxy.method = "userpass" => conn.auth # "long"

\* What is handed on begins with the first byte of the peer's data.
PeerDataIntact == m_bev = "handed on" /\ Ordinary => taken = ReplyEnd

\* The dialogue comes to an end with whatever a proxy that answers answers.
Decided == m_bev = "dialogue" /\ Ordinary ~> m_bev # "dialogue"
=============================================================================
