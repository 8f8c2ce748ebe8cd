------------------------- MODULE MCExecutionLedger -------------------------
(***************************************************************************)
(* Values for the parameters of ExecutionLedger: the keys of the requests  *)
(* of one session.                                                         *)
(***************************************************************************)
EXTENDS ExecutionLedger, TLC

CONSTANTS s1, k1, k2, r1, r2, r3

\* One session; r1 and r2 are two posts of one key, r3 is another request.
OneSession == [r \in Requests |-> s1]
RetriedKey == [r \in Requests |-> IF r = r3 THEN k2 ELSE k1]

\* One session, a key per request.
OwnKeys == [r \in Requests |-> IF r = r1 THEN k1 ELSE k2]
=============================================================================
