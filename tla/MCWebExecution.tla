--------------------------- MODULE MCWebExecution ---------------------------
(***************************************************************************)
(* Values for the parameters of WebExecution: two requests of one session  *)
(* and its handlers.                                                       *)
(***************************************************************************)
EXTENDS WebExecution, TLC

CONSTANTS s1, k1, k2, r1, r2, h1, h2

OneSession == [r \in Requests |-> s1]
OwnKeys == [r \in Requests |-> IF r = r1 THEN k1 ELSE k2]

AllOnFirst == [h \in Handlers |-> s1]
ClearThenDelete == [h \in Handlers |-> IF h = h1 THEN "clear_context" ELSE "delete_session"]
AllClear == [h \in Handlers |-> "clear_context"]
=============================================================================
