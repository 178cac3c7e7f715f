--------------------------- MODULE MCAuthSessions ---------------------------
(***************************************************************************)
(* A small instance of AuthSessions for TLC.                               *)
(***************************************************************************)
EXTENDS AuthSessions

CONSTANTS h1, h2, s1, t1, t2, t3

=============================================================================
