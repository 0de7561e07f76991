---------------------------- MODULE MCConnection ----------------------------
(* Small instances of Connection for TLC. *)
EXTENDS Connection

\* A Send that stays below nMaxSendBuffer = 2, one that reaches it at once.
MCSizes == {1, 2}

Opts(threaded, fPersistent, sendsAfterClose) ==
    [threaded |-> threaded, fPersistent |-> fPersistent, sendsAfterClose |-> sendsAfterClose]

\* A reconnecting connection on one thread whose application may send at any time;
\* one that other threads use as well.
MCOptions == {Opts(FALSE, TRUE, TRUE), Opts(TRUE, FALSE, FALSE)}
\* One connection on one thread, without a Send after the close.
MCSilentAfterClose == {Opts(FALSE, FALSE, FALSE)}
=============================================================================
