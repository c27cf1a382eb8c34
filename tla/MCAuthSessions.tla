----------------------------- MODULE MCAuthSessions -----------------------------
(***************************************************************************)
(* Model-checking instances of AuthSessions.                               *)
(***************************************************************************)
EXTENDS AuthSessions

CONSTANTS a, b

\* Both users start with the same password: passwords are not compared across
\* users, so nothing depends on it.
AllWithA == [u \in Users |-> a]
=============================================================================
