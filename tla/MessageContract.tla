--------------------------- MODULE MessageContract ---------------------------
(***************************************************************************)
(* What handler.h promises an application of the messages of a peer         *)
(* (OnReceiveMessages, OnMalformedMessage): each of them, whole, once and   *)
(* in the order of the stream, up to the first that is malformed; that one  *)
(* is reported and ends the connection. There are no buffer and no          *)
(* watermarks here, and nothing is said of when.                            *)
(*                                                                         *)
(*   stream          for each message of the peer, whether it is well formed *)
(*   arrived         the messages that have arrived whole                   *)
(*   open            the connection is not closed                           *)
(*   app_msgs        how many messages the application was given            *)
(*   app_malformed   it was told OnMalformedMessage                         *)
(***************************************************************************)
EXTENDS Integers, Sequences

VARIABLES stream, arrived, open, app_msgs, app_malformed

cvars == <<stream, arrived, open, app_msgs, app_malformed>>

Init ==
    /\ stream \in Seq(BOOLEAN)
    /\ arrived \subseteq DOMAIN stream
    /\ open = TRUE
    /\ app_msgs = 0
    /\ app_malformed = FALSE

\* More of the stream arrives.
Arrive ==
    /\ open
    /\ arrived' \subseteq DOMAIN stream
    /\ arrived \subseteq arrived'
    /\ UNCHANGED <<stream, open, app_msgs, app_malformed>>

\* The messages that follow those it has been given.
Given ==
    /\ app_msgs' \in app_msgs .. Len(stream)
    /\ \A k \in app_msgs + 1 .. app_msgs' : k \in arrived /\ stream[k]

\* OnReceiveMessages.
Receive ==
    /\ open
    /\ Given
    /\ UNCHANGED <<stream, arrived, open, app_malformed>>

\* OnMalformedMessage, after OnReceiveMessages for what comes before.
Refuse ==
    /\ open
    /\ Given
    /\ app_msgs' < Len(stream) /\ ~stream[app_msgs' + 1]
    /\ app_malformed' = TRUE
    /\ open' = FALSE
    /\ UNCHANGED <<stream, arrived>>

\* Either side ends the connection.
Close ==
    /\ open
    /\ open' = FALSE
    /\ UNCHANGED <<stream, arrived, app_msgs, app_malformed>>

Next == Arrive \/ Receive \/ Refuse \/ Close

Contract == Init /\ [][Next]_cvars

-----------------------------------------------------------------------------
\* handler.h, OnMalformedMessage: it comes in its place and last. What the application was
\* given is what comes before the first malformed message, and had arrived.
InPlace ==
    /\ \A k \in 1 .. app_msgs : k \in arrived /\ stream[k]
    /\ app_malformed => ~open /\ app_msgs < Len(stream) /\ ~stream[app_msgs + 1]
=============================================================================
