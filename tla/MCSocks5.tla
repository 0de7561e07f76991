------------------------------- MODULE MCSocks5 -------------------------------
(* Small instances of Socks5 for TLC. *)
EXTENDS Socks5

To(auth, host, type) == [auth |-> auth, host |-> host, type |-> type]

\* What writeproto and write_auth can and cannot write.
MCConns ==
    {To("fits", "name", "SOCKS5"), To("long", "name", "SOCKS5"),
     To("unset", "ip4", "SOCKS5"), To("unset", "other", "SOCKS5"),
     To("fits", "other", "SOCKS5_FORCE_DOMAIN_TYPE"),
     To("unset", "long name", "SOCKS5_FORCE_DOMAIN_TYPE")}

\* Replies that are not those of a SOCKS5 proxy at one point at most.
Answers(method, atyp, len, data) ==
    {[methodVersion |-> bad # "method", method |-> method,
      authVersion |-> bad # "auth", accepted |-> TRUE,
      version |-> bad # "version", granted |-> bad # "granted",
      atyp |-> atyp, len |-> len, data |-> data] :
        bad \in {"no", "method", "auth", "version", "granted"}}

\* Names below the watermark, at it and above, beyond a signed char's maximum, and so
\* far beyond that the sum wraps; the peer's data behind the reply, in the same segment or not.
MCProxies ==
    UNION {Answers(method, "name", len, data) :
            method \in {"none", "userpass"}, len \in {0, 1, 2}, data \in {0, 2}}
    \cup UNION {Answers(method, atyp, 0, data) :
            method \in {"none", "userpass", "other"}, atyp \in {"ip4", "ip6", "other"},
            data \in {0, 2}}
    \cup {p \in Answers("none", "name", 128, 0) \cup Answers("none", "name", 250, 0) :
            p.methodVersion /\ p.authVersion /\ p.version /\ p.granted}
    \cup {[p EXCEPT !.authVersion = v, !.accepted = FALSE] :
            p \in Answers("userpass", "ip4", 0, 2), v \in BOOLEAN}
=============================================================================
