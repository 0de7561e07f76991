---------------------------- MODULE MCConnAttempt ----------------------------
(* Small instances of ConnAttempt for TLC. *)
EXTENDS ConnAttempt

\* Every kind of candidate, with no retry, two, or no limit.
MCConns == [kind : Kinds, nRetries : {-1, 0, 2}, fPersistent : BOOLEAN, usable : BOOLEAN]

\* Responses of one to three addresses, any of which may be unusable.
MCResponses == UNION {[1 .. n -> BOOLEAN] : n \in 1 .. 3}
=============================================================================
