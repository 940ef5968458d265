------------------------------- MODULE MC_Auth -------------------------------
(* One account, two concurrent Refresh or Logout requests, three refresh   *)
(* tokens.                                                                 *)
EXTENDS Auth

CONSTANTS u1, q1, q2

MCEmails == {u1}
MCReqs == {q1, q2}
=============================================================================
