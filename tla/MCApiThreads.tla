---------------------------- MODULE MCApiThreads ----------------------------
(* Small instances of ApiThreads for TLC. *)
EXTENDS ApiThreads

App(uses, fPersistent) == [uses |-> uses, once |-> TRUE, fPersistent |-> fPersistent]

\* Threads do everything to connections and shut down; callbacks answer and bind.
ThreadsWrite == App(
    {"thread"} \X (TableOps \cup {"Shutdown"}) \cup
    {<<"OnReceiveMessages", "Send">>, <<"OnReadyForFirstSend", "Send">>,
     <<"OnStartup", "Bind">>, <<"OnDisconnected", "SetGroupLimit">>}, FALSE)
\* The callbacks of a bufferevent and of the ping timer call; threads only close,
\* restart the timer and shut down.
CallbacksWrite == App(
    {"OnBytes", "OnPingTimeout"} \X {"Send", "CloseConnection", "StopPing"} \cup
    {"thread"} \X {"CloseConnection", "ResetPingTimeout", "Shutdown"}, FALSE)
\* Everything happens on the event thread, Shutdown in a callback too; connections are
\* persistent, and each message starts the ping timer again.
OneThread == App(
    {"OnReceiveMessages", "OnOutgoingConnection"} \X
        {"CloseConnection", "Shutdown", "Bind", "SetGroupLimit"} \cup
    {<<"OnReceiveMessages", "ResetPingTimeout">>}, TRUE)
\* Threads close persistent connections and start their ping timers, which the object
\* of a connection may carry over to the next.
Persistent == App({"thread"} \X {"CloseConnection", "ResetPingTimeout", "Shutdown"}, TRUE)
\* What a byte count or a silent peer suggests, while other threads use the connection.
Crossed == App(
    {<<"OnBytes", "PauseRecv">>, <<"OnPingTimeout", "CloseConnection">>} \cup
    {"thread"} \X {"Send", "ResetPingTimeout", "StopPing"}, FALSE)
MCCrossed == {Crossed}
MCApps == {ThreadsWrite, CallbacksWrite, OneThread, Persistent}
=============================================================================
