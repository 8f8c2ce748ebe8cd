----------------------------- MODULE AtMostOnce -----------------------------
(***************************************************************************)
(* What the scheduler's execution ledger promises, whatever crashes: the   *)
(* side effect of an occurrence is attempted at most once, and a task is   *)
(* not attempted again while the outcome of an attempt is not known to be  *)
(* a success ("refusing duplicate execution").                             *)
(***************************************************************************)
EXTENDS Naturals, Sequences

CONSTANT Occurrences    \* records with a field task

VARIABLES
    log,        \* the occurrences attempted so far, in order
    delivered   \* those that are known to have succeeded

Attempted == {log[i] : i \in DOMAIN log}

Init == log = <<>> /\ delivered = {}

Attempt(o) ==
    /\ o \notin Attempted
    /\ \A p \in Attempted : p.task = o.task => p \in delivered
    /\ log' = Append(log, o)
    /\ UNCHANGED delivered

Deliver(o) ==
    /\ o \in Attempted \ delivered
    /\ delivered' = delivered \cup {o}
    /\ UNCHANGED log

Next == \E o \in Occurrences : Attempt(o) \/ Deliver(o)

Spec == Init /\ [][Next]_<<log, delivered>>

=============================================================================
