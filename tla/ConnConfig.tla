----------------------------- MODULE ConnConfig -----------------------------
(***************************************************************************)
(* What a CConnection means: CConnectionBase (src/connection.cpp) takes a   *)
(* text or a sockaddr apart, and the kind of host it finds, the options and *)
(* the proxy decide what StartConnection makes of it and what goes onto the *)
(* network: a lookup, a connection to an address, or a request to a proxy.  *)
(*                                                                         *)
(* One candidate, from the list OnNeedOutgoingConnections returns to the    *)
(* application's callback. Retries repeat the same decisions; they are in   *)
(* module ConnAttempt.                                                      *)
(*                                                                         *)
(* A text is its host and, after the colon if there is one, its port.       *)
(***************************************************************************)
EXTENDS Base32

CONSTANTS
    Descs,      \* the candidates the application names, see Desc
    Samples,    \* byte strings whose encodings are hosts
    MaxAnswers  \* bound: the addresses of a response

MaxPort == 65535
Port == 0 .. MaxPort
Families == {"IPV4", "IPV6", "UNIX", "ONION_PROXY"}
IP == {"IPV4", "IPV6"}

\* What is before the last colon: nothing, literal addresses, a name, a name with
\* colons in it, a name that ends in ".onion" (label: what is before it).
Hosts == {"", "v4", "v6", "[v6]", "name", "colons", "onion"}
\* What is behind it: its number, or one of these.
NoColon == -1
NoDigits == -2     \* nothing
NoNumber == -3     \* what std::stoul refuses
Text == [host : Hosts, label : Seq(Char), port : Int]
NoText == [host |-> "", label |-> <<>>, port |-> NoColon]

\* A candidate: a text and a port, or the family and the port of a sockaddr; the
\* options; the proxy, which is not set or set by address or by name, and its type.
Desc == [text : Text, family : {"text", "IPV4", "IPV6", "UNIX", "other"}, portIn : Port,
         nFamily : SUBSET Families,
         doResolve : {"NO_RESOLVE", "RESOLVE_ONLY", "RESOLVE_CONNECT"},
         proxy : {"unset", "address", "name"},
         type : {"SOCKS5", "SOCKS5_FORCE_DOMAIN_TYPE"}]

\* A text that is an address without brackets and a port is left out, as it may read as
\* a longer address; a name with one colon is a name and a port. Only IP has ports. A
\* sockaddr comes without a text.
ASSUME ConstantsAssumption ==
    /\ Descs \subseteq Desc
    /\ \A d \in Descs : /\ d.text.host = "v6" => d.text.port = NoColon
                        /\ d.text.host = "colons" => d.text.port # NoColon
                        /\ d.family \in {"UNIX", "other"} => d.portIn = 0
                        /\ d.family # "text" => d.text = NoText
    /\ Samples \subseteq Seq(Byte)
    /\ MaxAnswers \in Nat

VARIABLES
    desc,        \* never changes
    conn,        \* the CConnectionBase made of it
    object,      \* what StartConnection made, "" before, "none" if nothing
    net,         \* what went onto the network
    m_resolved,  \* addresses of a response still to try or reported
    told         \* the callback the application got, "" before

vars == <<desc, conn, object, net, m_resolved, told>>

-----------------------------------------------------------------------------
(* CConnectionBase. A family is "none" where addr is empty; port is what      *)
(* GetPort() returns, from addr or from the member.                           *)

Unset == [isSet |-> FALSE, isDns |-> FALSE, isOnion |-> FALSE,
          host |-> NoText, family |-> "none", port |-> 0]

Addressed(family, port) == [Unset EXCEPT !.isSet = TRUE, !.family = family, !.port = port]

\* External: evutil_parse_sockaddr_port. A port, if there is one, is a positive short.
IsPort(n) == n \in 1 .. MaxPort
ParsesAs(text, family) ==
    CASE family = "IPV4" -> text.host = "v4" /\ (text.port = NoColon \/ IsPort(text.port))
      [] family = "IPV6" -> \/ text.host = "v6"
                            \/ text.host = "[v6]" /\ (text.port = NoColon \/ IsPort(text.port))
ParsedPort(text) == IF text.port = NoColon THEN 0 ELSE text.port

\* Mutant: a colon at 0 is not looked for (find_last_of is given npos there).
Splits_NotAtZero(text) ==
    text.port # NoColon /\ text.host \notin {"", "v6", "[v6]", "colons"}
\* fHaveColon && (colon == 0 || !fMultiColon)
Splits(text) == text.port # NoColon /\ text.host \notin {"v6", "[v6]", "colons"}

\* Mutant: the number is cut to a short.
SplitPort_Cut(text, portIn) ==
    IF text.port = NoDigits THEN portIn ELSE IF text.port >= 0 THEN text.port % 65536 ELSE 0
SplitPort(text, portIn) ==
    IF text.port = NoDigits THEN portIn ELSE IF text.port \in Port THEN text.port ELSE 0

\* The host is ".onion" with a label in front of it, and the label is base32.
EndsInOnion(host) ==
    /\ host.host = "onion" /\ host.port = NoColon
    /\ Len(host.label) > 0
    /\ ~Invalid(host.label)

Named(host, port) ==
    [Unset EXCEPT !.isSet = TRUE, !.host = host, !.port = port,
                  !.isDns = ~EndsInOnion(host), !.isOnion = EndsInOnion(host)]

\* CConnectionBase(hostIn, portIn)
FromText(text, portIn) ==
    IF text = NoText THEN Unset
    ELSE IF \E f \in IP : ParsesAs(text, f)
    THEN Addressed(CHOOSE f \in IP : ParsesAs(text, f),
                   IF ParsedPort(text) = 0 THEN portIn ELSE ParsedPort(text))
    ELSE IF Splits(text)
    THEN Named([text EXCEPT !.port = NoColon], SplitPort(text, portIn))
    ELSE Named(text, portIn)

\* ToString() of a connection that is set. The name of a UNIX address is the machine's.
ConnToString(c) ==
    CASE c.isDns \/ c.isOnion ->
            IF c.host.port = NoColon THEN [c.host EXCEPT !.port = c.port]
            ELSE [host |-> "colons", label |-> <<>>, port |-> c.port]
      [] c.family = "IPV4" -> [host |-> "v4", label |-> <<>>, port |-> c.port]
      [] c.family = "IPV6" -> [host |-> "[v6]", label |-> <<>>, port |-> c.port]
      [] OTHER -> [host |-> "name", label |-> <<>>, port |-> NoColon]

-----------------------------------------------------------------------------
(* What the options permit. *)

\* CanConnectDirect(sock, family)
FamilyPermitted(family) == family \in {"IPV4", "IPV6", "UNIX"} /\ family \in desc.nFamily

HasProxy == desc.proxy # "unset"

CanConnectDirect ==
    /\ conn.isSet /\ ~conn.isDns /\ ~conn.isOnion
    /\ FamilyPermitted(conn.family)

\* Mutant: an .onion host needs no leave.
CanConnectProxy_AnyOnion ==
    /\ conn.isSet /\ HasProxy
    /\ \/ conn.isDns /\ desc.doResolve = "RESOLVE_CONNECT"
       \/ conn.isOnion
       \/ ~conn.isDns /\ ~conn.isOnion /\ FamilyPermitted(conn.family)
CanConnectProxy ==
    /\ conn.isSet /\ HasProxy
    /\ \/ conn.isDns /\ desc.doResolve = "RESOLVE_CONNECT"
       \/ conn.isOnion /\ "ONION_PROXY" \in desc.nFamily
       \/ ~conn.isDns /\ ~conn.isOnion /\ FamilyPermitted(conn.family)

CanResolve ==
    /\ conn.isSet /\ conn.isDns
    /\ desc.doResolve # "NO_RESOLVE"
    /\ desc.nFamily \cap IP # {}

\* SetResolveFamily: the families of the hint, none if it fails.
ResolveFamilies ==
    IF IP \subseteq desc.nFamily THEN IP
    ELSE IF "IPV4" \in desc.nFamily THEN {"IPV4"}
    ELSE IF "IPV6" \in desc.nFamily THEN {"IPV6"}
    ELSE {}

-----------------------------------------------------------------------------
(* What goes onto the network. *)

Packets == [via : {"lookup", "direct", "proxy", "request"},
            family : Families \cup {"none", "domain"}, port : Port]
Packet(via, family, port) == [via |-> via, family |-> family, port |-> port]

\* DoResolve, Resolve: the lookup, or the failure.
DoResolve ==
    IF CanResolve /\ ResolveFamilies # {}
    THEN net' = net \cup {Packet("lookup", "none", conn.port)} /\ told' = told
    ELSE net' = net /\ told' = "OnDnsFailure"

\* CDirectConnection::Connect
ConnectDirect ==
    IF CanConnectDirect
    THEN net' = net \cup {Packet("direct", conn.family, conn.port)} /\ told' = told
    ELSE net' = net /\ told' = "OnConnectionFailure"

\* CProxyConn::Connect. GetSockAddr of a proxy given by name leaves AF_UNSPEC, to which
\* no socket can be connected.
ConnectProxy ==
    IF CanConnectProxy /\ desc.proxy = "address"
    THEN net' = net \cup {Packet("proxy", "none", 0)} /\ told' = told
    ELSE net' = net /\ told' = "OnProxyFailure"

\* Mutant: a host to be looked up is looked up whatever the proxy.
Kind_DnsFirst ==
    IF ~conn.isSet THEN "none"
    ELSE IF conn.isDns /\ desc.doResolve = "RESOLVE_ONLY"
    THEN IF HasProxy THEN "none" ELSE "CResolveOnly"
    ELSE IF conn.isDns THEN "CDNSConnection"
    ELSE IF HasProxy THEN "CProxyConn"
    ELSE "CDirectConnection"
\* RequestOutgoingInt skips a connection that is not set; StartConnection.
Kind ==
    IF ~conn.isSet THEN "none"
    ELSE IF conn.isDns /\ desc.doResolve = "RESOLVE_ONLY"
    THEN IF HasProxy THEN "none" ELSE "CResolveOnly"
    ELSE IF HasProxy THEN "CProxyConn"
    ELSE IF conn.isDns THEN "CDNSConnection"
    ELSE "CDirectConnection"

Init ==
    /\ desc \in Descs
    /\ conn = IF desc.family = "text" THEN FromText(desc.text, desc.portIn)
                                      ELSE Addressed(desc.family, desc.portIn)
    /\ object = "" /\ net = {} /\ m_resolved = <<>> /\ told = ""

StartConnection ==
    /\ object = ""
    /\ object' = Kind
    /\ CASE Kind = "none" -> UNCHANGED <<net, told>>
         [] Kind \in {"CResolveOnly", "CDNSConnection"} -> DoResolve
         [] Kind = "CProxyConn" -> ConnectProxy
         [] OTHER -> ConnectDirect
    /\ UNCHANGED <<desc, conn, m_resolved>>

InFlight(via) == told = "" /\ \E p \in net : p.via = via

\* ConnectResolved: the first address that is permitted, if there is one.
ConnectResolved(response) ==
    LET permitted == {i \in 1 .. Len(response) : FamilyPermitted(response[i])}
    IN  IF permitted = {}
        THEN m_resolved' = <<>> /\ net' = net /\ told' = "OnConnectionFailure"
        ELSE \E first \in permitted :
                 /\ \A i \in permitted : first <= i
                 /\ m_resolved' = SubSeq(response, first, Len(response))
                 /\ net' = net \cup {Packet("direct", response[first], conn.port)}
                 /\ told' = told

\* The response: addresses of the families that were asked for.
Responses == UNION {[1 .. n -> ResolveFamilies] : n \in 1 .. MaxAnswers}

OnResolveSuccess(response) ==
    /\ InFlight("lookup") /\ m_resolved = <<>>
    /\ IF object = "CResolveOnly"
       THEN m_resolved' = response /\ net' = net /\ told' = "OnDnsResponse"
       ELSE ConnectResolved(response)
    /\ UNCHANGED <<desc, conn, object>>

OnResolveFailure ==
    /\ InFlight("lookup") /\ m_resolved = <<>>
    /\ told' = "OnDnsFailure"
    /\ UNCHANGED <<desc, conn, object, net, m_resolved>>

OnConnectSuccess ==
    /\ InFlight("direct")
    /\ told' = "OnOutgoingConnection"
    /\ UNCHANGED <<desc, conn, object, net, m_resolved>>

\* The next address of the response, which the handler's Retry leads to; or the end.
OnConnectFailure ==
    /\ InFlight("direct")
    /\ IF Len(m_resolved) > 1 THEN ConnectResolved(Tail(m_resolved))
       ELSE told' = "OnConnectionFailure" /\ UNCHANGED <<net, m_resolved>>
    /\ UNCHANGED <<desc, conn, object>>

\* writeproto: the family of an address, "domain" for a name, "none" if it fails.
\* (Hosts are short here: one of more than 255 bytes fails like "none".)
RequestType ==
    IF conn.isDns \/ desc.type = "SOCKS5_FORCE_DOMAIN_TYPE" THEN "domain"
    ELSE IF conn.family \in IP THEN conn.family
    ELSE "none"

\* The proxy is connected to and ready for the request.
ProxyRequest ==
    /\ InFlight("proxy") /\ ~InFlight("request")
    /\ IF RequestType = "none" THEN told' = "OnConnectionFailure" /\ net' = net
       ELSE told' = told /\ net' = net \cup {Packet("request", RequestType, conn.port)}
    /\ UNCHANGED <<desc, conn, object, m_resolved>>

\* It cannot be connected to; it refuses, or fails; it connects.
ProxyUnreachable ==
    /\ InFlight("proxy") /\ ~InFlight("request")
    /\ told' = "OnProxyFailure"
    /\ UNCHANGED <<desc, conn, object, net, m_resolved>>
OnProxyFailure ==
    /\ InFlight("request")
    /\ told' = "OnConnectionFailure"
    /\ UNCHANGED <<desc, conn, object, net, m_resolved>>
OnProxySuccess ==
    /\ InFlight("request")
    /\ told' = "OnOutgoingConnection"
    /\ UNCHANGED <<desc, conn, object, net, m_resolved>>

Next ==
    \/ StartConnection
    \/ \E response \in Responses : OnResolveSuccess(response)
    \/ OnResolveFailure
    \/ OnConnectSuccess \/ OnConnectFailure
    \/ ProxyRequest \/ ProxyUnreachable \/ OnProxyFailure \/ OnProxySuccess

Spec == Init /\ [][Next]_vars

-----------------------------------------------------------------------------
(* Properties. *)

\* Types; a connection that is set has an address, a name to be looked up or an
\* .onion name, and never two of them (IsDNS, IsOnion, GetSockAddr).
TypeOK ==
    /\ desc \in Descs
    /\ conn.port \in Port
    /\ conn.host \in Text
    /\ conn.isSet <=> conn.isDns \/ conn.isOnion \/ conn.family # "none"
    /\ conn.isDns \/ conn.isOnion => conn.family = "none"
    /\ ~(conn.isDns /\ conn.isOnion)
    /\ object \in {"", "none", "CResolveOnly", "CDNSConnection", "CProxyConn",
                   "CDirectConnection"}
    /\ net \subseteq Packets
    /\ m_resolved \in Seq(IP)

\* A text whose colons are all the address's, or one; that a port is, or is not, there.
Plain(text) == text.host \notin {"v6", "[v6]", "colons"} \/ \E f \in IP : ParsesAs(text, f)
\* A name that, with a port, is an address.
Misnamed == conn.isDns /\ conn.host.host = "v4"

\* What ToString() says of a connection is, made into a connection, that connection:
\* the application may keep it, log it and use it again. Not for port 0 of an address,
\* nor for what only reads like one.
RoundTrips ==
    conn.isSet /\ conn.family \in IP \cup {"none"} /\ Plain(desc.text) /\ ~Misnamed
               /\ (conn.port = 0 => conn.family = "none") =>
        \A portIn \in {0, 8333} : FromText(ConnToString(conn), portIn) = conn

\* The port that a text names, if it is one, otherwise the default; 0 if it is none.
PortMeant ==
    IF desc.family # "text" \/ desc.text.port \in {NoColon, NoDigits} THEN desc.portIn
    ELSE IF IsPort(desc.text.port) THEN desc.text.port
    ELSE 0

\* Every lookup, connection and request is for the port that was meant: from the text
\* through the parser, the lookup and the sockaddr, however the host is written.
PortReachesNetwork ==
    Plain(desc.text) => \A p \in net : p.via # "proxy" => p.port = PortMeant

\* With a proxy, nothing but the connection to the proxy and the request to it goes
\* onto the network: no lookup gives the host away (StartConnection tests GetProxy()
\* before IsDNS()).
OnlyThroughProxy == HasProxy => \A p \in net : p.via \in {"proxy", "request"}

\* nFamily is kept to, for addresses given and found, directly and by proxy; a proxy is
\* asked to find a host only with RESOLVE_CONNECT, and an .onion host only with
\* ONION_PROXY. The resolver is asked (SetResolveFamily) for no address that
\* CanConnectDirect would refuse.
FamilyRespected ==
    /\ \A i \in DOMAIN m_resolved : FamilyPermitted(m_resolved[i])
    /\ \A p \in net :
        /\ p.via = "direct" => p.family \in desc.nFamily
        /\ p.via \in {"proxy", "request"} =>
            /\ conn.isDns => desc.doResolve = "RESOLVE_CONNECT"
            /\ conn.isOnion => "ONION_PROXY" \in desc.nFamily
            /\ conn.family # "none" => conn.family \in desc.nFamily

\* A host that is base32 with ".onion" is never looked up: it would tell the DNS.
OnionNotLookedUp ==
    desc.text.host = "onion" /\ desc.text.label # <<>>
        /\ (\E bytes \in Samples : desc.text.label = EncodeBase32(bytes)) =>
        \A p \in net : p.via \in {"proxy", "request"}

\* What EncodeBase32 makes of bytes decodes to these bytes, and is not invalid.
DecodesEncoded ==
    \A bytes \in Samples :
        desc.text.label = EncodeBase32(bytes) =>
            DecodeBase32(desc.text.label) = bytes /\ ~Invalid(desc.text.label)

\* A label that is accepted is, up to what follows, the only text for its bytes: bits
\* that no byte takes up must be 0, so two .onion names are not one host.
OnionCanonical ==
    ~Invalid(desc.text.label) =>
        LET canonical == EncodeBase32(DecodeBase32(desc.text.label))
        IN  /\ Len(canonical) <= Len(desc.text.label)
            /\ SubSeq(desc.text.label, 1, Len(canonical)) = canonical

\* A host is taken for what it is, and only for that: EndsInOnion, and the decoder under it,
\* accept what is an .onion name and leave no doubt about whose.
HostsRecognised == TypeOK /\ OnionNotLookedUp /\ DecodesEncoded /\ OnionCanonical
=============================================================================
