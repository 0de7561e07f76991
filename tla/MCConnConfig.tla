----------------------------- MODULE MCConnConfig -----------------------------
(* Small instance of ConnConfig for TLC. *)
EXTENDS ConnConfig

T(host, port) == [host |-> host, label |-> <<>>, port |-> port]

\* Ports: none, of no digits, of letters, 0, an ordinary one, the last and one too many,
\* one that is 80 if it is cut.
Ports == {NoColon, NoDigits, NoNumber, 0, 80, 65535, 65536, 65616}

MCTexts ==
    {T(host, port) : host \in {"", "v4", "[v6]", "name"}, port \in Ports}
    \cup {T("v6", NoColon), T("colons", 80), T("colons", NoDigits)}

\* The encodings of these, and every label of up to 3 of these characters, which are two
\* symbols and those that are none, alone and as the end of a group of eight.
MCSamples ==
    {<<>>, <<255>>, <<0>>, <<1, 2>>, <<102, 111, 111>>, <<1, 2, 3, 4>>,
     <<200, 7, 99, 31, 248>>, <<200, 7, 99, 31, 248, 1>>}
Short == UNION {[1 .. n -> {0, 17, Pad, Junk}] : n \in 0 .. 3}
MCLabels ==
    {EncodeBase32(bytes) : bytes \in MCSamples}
    \cup Short
    \cup {<<1, 2, 3, 4>> \o end : end \in Short}
    \cup {<<a, b>> \o [i \in 1 .. 6 |-> Pad] : a \in {0, 31}, b \in {0, 1, 4, 28}}
    \cup {<<31, 31, 31, 31, b, Pad, Pad, Pad>> : b \in {31, 30}}

Described(texts, family, ports, doResolve, nFamilies, proxies) ==
    [text : texts, family : family, portIn : ports, nFamily : nFamilies,
     doResolve : doResolve, proxy : proxies, type : {"SOCKS5", "SOCKS5_FORCE_DOMAIN_TYPE"}]

Resolves == {"NO_RESOLVE", "RESOLVE_ONLY", "RESOLVE_CONNECT"}
Onion(label) == [host |-> "onion", label |-> label, port |-> NoColon]

\* A proxy's type where there is a proxy; every family with hosts that use it.
MCDescs ==
    {d \in Described(MCTexts, {"text"}, {0, 8333}, {"RESOLVE_CONNECT"},
                     {IP}, {"unset", "address"})
         \cup Described({T("name", NoColon), T("v4", 80), T("v6", NoColon)}, {"text"}, {8333},
                        Resolves, SUBSET Families, {"unset", "address", "name"})
         \cup Described({NoText}, IP, {0, 80}, Resolves, SUBSET Families, {"unset", "address"})
         \cup Described({NoText}, {"UNIX", "other"}, {0}, Resolves, SUBSET Families,
                        {"unset", "address"})
         \cup Described({Onion(l) : l \in MCLabels}, {"text"}, {8333}, {"RESOLVE_CONNECT"},
                        {IP, Families}, {"unset", "address"})
         \cup Described({[Onion(EncodeBase32(<<7, 8, 9, 10, 11>>)) EXCEPT !.port = p] :
                             p \in Ports},
                        {"text"}, {8333}, {"RESOLVE_CONNECT"}, {IP, Families},
                        {"unset", "address"}) :
        d.proxy = "unset" => d.type = "SOCKS5"}
=============================================================================
