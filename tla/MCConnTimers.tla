----------------------------- MODULE MCConnTimers -----------------------------
(* Small instances of ConnTimers for TLC. *)
EXTENDS ConnTimers

Limits(initial, recv, send, retry, persistent, after) ==
    [nInitialTimeout |-> initial, nRecvTimeout |-> recv, nSendTimeout |-> send,
     nRetryInterval |-> retry, fPersistent |-> persistent, sendsAfterClose |-> after]

\* Limits that differ, each of the two being the longer; none; a retry at once.
MCOptions ==
    {Limits(1, 3, 2, 1, TRUE, FALSE), Limits(1, 2, 3, 0, FALSE, TRUE),
     Limits(4, 0, 2, 0, TRUE, FALSE), Limits(2, 2, 0, 1, FALSE, FALSE)}
=============================================================================
