---------------------------- MODULE MCScheduler ----------------------------
\* Small instances of Scheduler: one task id, whose records come and go, one
\* click of its own.
EXTENDS Scheduler, TLC

CONSTANTS t1, s1, c1, k1

MCTaskOf == c1 :> t1
MCKeyOf == c1 :> k1

=============================================================================
