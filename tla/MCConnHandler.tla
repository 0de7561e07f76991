---------------------------- MODULE MCConnHandler ----------------------------
(* Small instances of ConnHandler for TLC. *)
EXTENDS ConnHandler

\* A persistent name to look up, an address, a request to resolve through a proxy.
MCConnects == {[kind |-> "dns", persistent |-> TRUE],
               [kind |-> "direct", persistent |-> FALSE],
               [kind |-> "proxy_resolve", persistent |-> FALSE]}
\* For the liveness run: one persistent name, a request to resolve, one to resolve through
\* a proxy, and an entry that is not set.
MCLive == {[kind |-> "dns", persistent |-> TRUE],
           [kind |-> "resolve", persistent |-> FALSE],
           [kind |-> "proxy_resolve", persistent |-> FALSE],
           [kind |-> "unset", persistent |-> FALSE]}
=============================================================================
