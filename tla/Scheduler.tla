------------------------------ MODULE Scheduler ------------------------------
(***************************************************************************)
(* The scheduler: SchedulerService (agent/tools/scheduler/                 *)
(* scheduler_service.py) over TaskStore (task_store.py).                   *)
(*                                                                         *)
(* Every process of an installation may run a scanner, a loop that reads a *)
(* snapshot of the tasks and works through it, and clicks on "Run now"     *)
(* start threads of their own.  They share tasks.json, changed under a     *)
(* file lock, and the SQLite ledger scheduler_executions.  Every TaskStore *)
(* call is one transaction and one action here; users edit tasks between   *)
(* any two of them, and a process may be gone between any two of them.     *)
(*                                                                         *)
(* Abstractions.                                                           *)
(*  - A row of the ledger is an occurrence; the sets running, succeeded    *)
(*    and doubtful hold the rows of each status.  The lease token of a row *)
(*    is known to the actor that claimed it and is lost with it: job is    *)
(*    the occurrence whose token an actor has.                             *)
(*  - The fresh uuid of a task record is a number never drawn before.      *)
(*  - The next time of a recurring schedule (cron or interval) is any time *)
(*    up to Period after the moment it is computed from.                   *)
(*  - A scanner reads its clock and its snapshot in one step.  Owners, the *)
(*    texts of a task and the last_* fields it shows are left out; so are  *)
(*    tasks without a next_run_at, which no scanner ever runs.             *)
(***************************************************************************)
EXTENDS Integers, Sequences, FiniteSets

CONSTANTS
    Tasks,          \* task ids
    Scanners,       \* scheduler loops, one per process
    Clicks,         \* "Run now" clicks; repeating one is a retry
    TaskOf,         \* the task a click is about
    KeyOf,          \* its idempotency key
    Keys,
    Window,         \* the catch-up window of 600 s, in ticks
    Period,         \* longest distance to a next run, in ticks
    MaxTime,        \* bound: the clock stops here
    MaxGenerations, \* bound: task records created per id
    NoTask, NoSnapshot, NoJob

ASSUME ClicksAssumption ==
    /\ TaskOf \in [Clicks -> Tasks]
    /\ KeyOf \in [Clicks -> Keys]
    /\ Scanners \cap Clicks = {}

ASSUME TimeAssumption ==
    /\ Window \in Nat /\ Period \in Nat \ {0}
    /\ MaxTime \in Nat /\ MaxGenerations \in Nat

Actors == Scanners \cup Clicks
Times == 1..(MaxTime + Period)
Kinds == {"once", "recurring"}

Task == [gen: 1..MaxGenerations, due: Times, enabled: BOOLEAN, kind: Kinds]
Snapshot == [task: Tasks, due: Times, kind: Kinds]
\* "scheduled:<generation>:<next_run_at>" or "manual:<generation>:<key>"
Occurrence == [task: Tasks, gen: 1..MaxGenerations, slot: Times \cup Keys]
Stages == {"idle", "scanning", "skipping", "claiming", "claimed", "tried", "advancing"}

ASSUME NullAssumption ==
    /\ NoTask \notin Task /\ NoSnapshot \notin Snapshot /\ NoJob \notin Occurrence

VARIABLES
    clock,
    tasks,      \* [Tasks -> Task or NoTask], tasks.json
    drawn,      \* [Tasks -> Nat], generations drawn so far
    running, succeeded, doubtful,   \* rows of scheduler_executions
    stage,      \* [Actors -> Stages]
    job,        \* [Actors -> Occurrence or NoJob], the claim an actor works on
    seen,       \* [Scanners -> Nat], `now` of the scan
    todo,       \* [Scanners -> SUBSET Snapshot], rest of the snapshot
    cur,        \* [Scanners -> Snapshot or NoSnapshot], the task looked at
    log         \* history: the occurrences whose side effect was attempted

taskVars == <<tasks, drawn>>
rowVars == <<running, succeeded, doubtful>>
scanVars == <<seen, todo, cur>>
vars == <<clock, taskVars, rowVars, stage, job, scanVars, log>>

TypeOK ==
    /\ clock \in 0..MaxTime
    /\ tasks \in [Tasks -> Task \cup {NoTask}]
    /\ drawn \in [Tasks -> 0..MaxGenerations]
    /\ running \subseteq Occurrence
    /\ succeeded \subseteq Occurrence
    /\ doubtful \subseteq Occurrence
    /\ stage \in [Actors -> Stages]
    /\ job \in [Actors -> Occurrence \cup {NoJob}]
    /\ seen \in [Scanners -> 0..MaxTime]
    /\ todo \in [Scanners -> SUBSET Snapshot]
    /\ cur \in [Scanners -> Snapshot \cup {NoSnapshot}]
    /\ log \in Seq(Occurrence)

Init ==
    /\ clock = 0
    /\ tasks = [t \in Tasks |-> NoTask]
    /\ drawn = [t \in Tasks |-> 0]
    /\ running = {} /\ succeeded = {} /\ doubtful = {}
    /\ stage = [a \in Actors |-> "idle"]
    /\ job = [a \in Actors |-> NoJob]
    /\ seen = [s \in Scanners |-> 0]
    /\ todo = [s \in Scanners |-> {}]
    /\ cur = [s \in Scanners |-> NoSnapshot]
    /\ log = <<>>

----------------------------------------------------------------------------
(* Users: the scheduler tool and the handlers of the Web console.          *)

\* _calculate_next_run(): a time after `from`, for a schedule that has one.
RunsAfter(from) == (from + 1)..(from + Period)

\* Mutant: the record keeps the generation its id had.
AddTask_SameGeneration(t, kind) ==
    /\ tasks[t] = NoTask /\ drawn[t] < MaxGenerations
    /\ \E due \in RunsAfter(clock) :
         tasks' = [tasks EXCEPT ![t] =
            [gen |-> 1, due |-> due, enabled |-> TRUE, kind |-> kind]]
    /\ drawn' = [drawn EXCEPT ![t] = @ + 1]
    /\ UNCHANGED <<clock, rowVars, stage, job, scanVars, log>>

\* add_task(): an id may come back, with a generation of its own.
AddTask(t, kind) ==
    /\ tasks[t] = NoTask /\ drawn[t] < MaxGenerations
    /\ \E due \in RunsAfter(clock) :
         tasks' = [tasks EXCEPT ![t] =
            [gen |-> drawn[t] + 1, due |-> due, enabled |-> TRUE, kind |-> kind]]
    /\ drawn' = [drawn EXCEPT ![t] = @ + 1]
    /\ UNCHANGED <<clock, rowVars, stage, job, scanVars, log>>

\* update_task() for an edited schedule
Reschedule(t, kind) ==
    /\ tasks[t] # NoTask
    /\ \E due \in RunsAfter(clock) :
         tasks' = [tasks EXCEPT ![t] = [@ EXCEPT !.due = due, !.kind = kind]]
    /\ UNCHANGED <<clock, drawn, rowVars, stage, job, scanVars, log>>

EnableTask(t, enabled) ==
    /\ tasks[t] # NoTask
    /\ tasks' = [tasks EXCEPT ![t] = [@ EXCEPT !.enabled = enabled]]
    /\ UNCHANGED <<clock, drawn, rowVars, stage, job, scanVars, log>>

DeleteTask(t) ==
    /\ tasks[t] # NoTask
    /\ tasks' = [tasks EXCEPT ![t] = NoTask]
    /\ UNCHANGED <<clock, drawn, rowVars, stage, job, scanVars, log>>

UserStep ==
    \E t \in Tasks :
        \/ \E kind \in Kinds : AddTask(t, kind) \/ Reschedule(t, kind)
        \/ \E enabled \in BOOLEAN : EnableTask(t, enabled)
        \/ DeleteTask(t)

----------------------------------------------------------------------------
(* The ledger.                                                             *)

\* Mutant: a claim is refused for a running row of the task only.
Live_RunningOnly(t) == {o \in running : o.task = t}

\* The rows of the one-live-task index.
Live(t) == {o \in running \cup doubtful : o.task = t}

\* Mutant: only a live row refuses the insertion.
Free_SucceededAgain(o) == Live(o.task) = {}

\* _claim_execution_unlocked() may insert the row.
Free(o) == o \notin succeeded /\ Live(o.task) = {}

\* Between the claim of an occurrence and its outcome.
Working(a) == stage[a] \in {"claimed", "tried"}

\* Where an actor goes on when it is done with a claim.
Home(a) == IF a \in Scanners THEN "scanning" ELSE "idle"

Drop(a, next) ==
    /\ stage' = [stage EXCEPT ![a] = next]
    /\ job' = [job EXCEPT ![a] = NoJob]

Claim(a, o) ==
    /\ running' = running \cup {o}
    /\ stage' = [stage EXCEPT ![a] = "claimed"]
    /\ job' = [job EXCEPT ![a] = o]
    /\ UNCHANGED <<succeeded, doubtful>>

----------------------------------------------------------------------------
(* A scan: _check_and_execute_tasks().                                     *)

Snapshots ==
    {[task |-> t, due |-> tasks[t].due, kind |-> tasks[t].kind] :
        t \in {u \in Tasks : tasks[u] # NoTask /\ tasks[u].enabled}}

StartScan(s) ==
    /\ stage[s] = "idle"
    /\ stage' = [stage EXCEPT ![s] = "scanning"]
    /\ seen' = [seen EXCEPT ![s] = clock]
    /\ todo' = [todo EXCEPT ![s] = Snapshots]
    /\ UNCHANGED <<clock, taskVars, rowVars, job, cur, log>>

\* _is_task_due() of the next task of the snapshot
LookAt(s, task) ==
    /\ stage[s] = "scanning" /\ task \in todo[s]
    /\ todo' = [todo EXCEPT ![s] = @ \ {task}]
    /\ cur' = [cur EXCEPT ![s] = task]
    /\ stage' = [stage EXCEPT ![s] =
            IF seen[s] < task.due THEN "scanning"
            ELSE IF seen[s] - task.due <= Window THEN "claiming"
            ELSE "skipping"]
    /\ UNCHANGED <<clock, taskVars, rowVars, job, seen, log>>

\* The local variables of a scan go with it.
ForgetScan(a) ==
    /\ seen' = [s \in Scanners |-> IF s = a THEN 0 ELSE seen[s]]
    /\ todo' = [s \in Scanners |-> IF s = a THEN {} ELSE todo[s]]
    /\ cur' = [s \in Scanners |-> IF s = a THEN NoSnapshot ELSE cur[s]]

EndScan(s) ==
    /\ stage[s] = "scanning" /\ todo[s] = {}
    /\ stage' = [stage EXCEPT ![s] = "idle"]
    /\ ForgetScan(s)
    /\ UNCHANGED <<clock, taskVars, rowVars, job, log>>

\* The record that a scan leaves for its task: moved on, or removed when the
\* schedule has no next time.
MoveOn(t, kind, from) ==
    IF kind = "once" THEN tasks' = [tasks EXCEPT ![t] = NoTask]
    ELSE \E due \in RunsAfter(from) :
            tasks' = [tasks EXCEPT ![t] = [@ EXCEPT !.due = due]]

\* Overdue beyond the window: delete_task() or update_task(), which raises
\* for a task that is gone; neither looks at what the task is by now.
SkipRun(s) ==
    /\ stage[s] = "skipping"
    /\ IF tasks[cur[s].task] = NoTask THEN UNCHANGED tasks
       ELSE MoveOn(cur[s].task, cur[s].kind, seen[s])
    /\ stage' = [stage EXCEPT ![s] = "scanning"]
    /\ UNCHANGED <<clock, drawn, rowVars, job, scanVars, log>>

\* The task is still the one, and the occurrence, that the scan saw.
StillDue(s) ==
    /\ tasks[cur[s].task] # NoTask
    /\ tasks[cur[s].task].enabled
    /\ tasks[cur[s].task].due = cur[s].due

OccurrenceOf(s) ==
    [task |-> cur[s].task, gen |-> tasks[cur[s].task].gen, slot |-> cur[s].due]

\* Mutant: an occurrence that has succeeded is refused like any other.
ClaimScheduled_NoReconcile(s) ==
    /\ stage[s] = "claiming"
    /\ \/ /\ StillDue(s) /\ Free(OccurrenceOf(s))
          /\ Claim(s, OccurrenceOf(s))
       \/ /\ StillDue(s) => ~Free(OccurrenceOf(s))
          /\ stage' = [stage EXCEPT ![s] = "scanning"]
          /\ UNCHANGED <<rowVars, job>>
    /\ UNCHANGED <<clock, taskVars, scanVars, log>>

\* claim_scheduled_execution(): a claim, a reconciliation of an occurrence
\* that has succeeded before, or a refusal.
ClaimScheduled(s) ==
    /\ stage[s] = "claiming"
    /\ \/ /\ StillDue(s) /\ Free(OccurrenceOf(s))
          /\ Claim(s, OccurrenceOf(s))
       \/ /\ StillDue(s) /\ OccurrenceOf(s) \in succeeded
          /\ stage' = [stage EXCEPT ![s] = "advancing"]
          /\ UNCHANGED <<rowVars, job>>
       \/ /\ StillDue(s) => OccurrenceOf(s) \notin succeeded /\ ~Free(OccurrenceOf(s))
          /\ stage' = [stage EXCEPT ![s] = "scanning"]
          /\ UNCHANGED <<rowVars, job>>
    /\ UNCHANGED <<clock, taskVars, scanVars, log>>

\* advance_scheduled_execution()
Advance(s) ==
    /\ stage[s] = "advancing"
    /\ IF StillDue(s) THEN MoveOn(cur[s].task, cur[s].kind, seen[s])
       ELSE UNCHANGED tasks
    /\ stage' = [stage EXCEPT ![s] = "scanning"]
    /\ UNCHANGED <<clock, drawn, rowVars, job, scanVars, log>>

----------------------------------------------------------------------------
(* A claim, of a scan or of a click.                                       *)

\* run_task_now(): disabled and one-time tasks may be run, too; a key that
\* is known, or a task that is busy or in doubt, is refused.
ClaimManual(c) ==
    LET o == [task |-> TaskOf[c], gen |-> tasks[TaskOf[c]].gen, slot |-> KeyOf[c]]
    IN /\ stage[c] = "idle"
       /\ tasks[TaskOf[c]] # NoTask
       /\ Free(o)
       /\ Claim(c, o)
       /\ UNCHANGED <<clock, taskVars, scanVars, log>>

\* release_execution(): the readiness probe proved that nothing was tried.
Defer(a) ==
    /\ stage[a] = "claimed"
    /\ running' = running \ {job[a]}
    /\ Drop(a, Home(a))
    /\ UNCHANGED <<clock, taskVars, succeeded, doubtful, scanVars, log>>

\* execute_callback() gets past the probe.
Execute(a) ==
    /\ stage[a] = "claimed"
    /\ log' = Append(log, job[a])
    /\ stage' = [stage EXCEPT ![a] = "tried"]
    /\ UNCHANGED <<clock, taskVars, rowVars, job, scanVars>>

\* finish_execution(succeeded=True)
Succeed(a) ==
    /\ stage[a] = "tried"
    /\ running' = running \ {job[a]}
    /\ succeeded' = succeeded \cup {job[a]}
    /\ Drop(a, IF a \in Scanners THEN "advancing" ELSE "idle")
    /\ UNCHANGED <<clock, taskVars, doubtful, scanVars, log>>

\* finish_execution(succeeded=False)
Fail(a) ==
    /\ stage[a] = "tried"
    /\ running' = running \ {job[a]}
    /\ doubtful' = doubtful \cup {job[a]}
    /\ Drop(a, Home(a))
    /\ UNCHANGED <<clock, taskVars, succeeded, scanVars, log>>

\* The ledger cannot be written: the exception is logged, the row stays.
Lose(a) ==
    /\ Working(a)
    /\ Drop(a, Home(a))
    /\ UNCHANGED <<clock, taskVars, rowVars, scanVars, log>>

\* The process is gone, or its loop with a BaseException; a restarted one
\* has a new runner id and no lease token.
Crash(a) ==
    /\ stage[a] # "idle"
    /\ Drop(a, "idle")
    /\ ForgetScan(a)
    /\ UNCHANGED <<clock, taskVars, rowVars, log>>

----------------------------------------------------------------------------
(* The specification.                                                      *)

Tick ==
    /\ clock < MaxTime
    /\ clock' = clock + 1
    /\ UNCHANGED <<taskVars, rowVars, stage, job, scanVars, log>>

ScanStep(s) ==
    \/ StartScan(s)
    \/ \E task \in todo[s] : LookAt(s, task)
    \/ EndScan(s) \/ SkipRun(s) \/ ClaimScheduled(s) \/ Advance(s)

RunStep(a) == Defer(a) \/ Execute(a) \/ Succeed(a) \/ Fail(a) \/ Lose(a)

Next ==
    \/ \E s \in Scanners : ScanStep(s)
    \/ \E c \in Clicks : ClaimManual(c)
    \/ \E a \in Actors : RunStep(a) \/ Crash(a)
    \/ UserStep
    \/ Tick

Spec == Init /\ [][Next]_vars

\* Every loop runs on, a callback comes back, and crashes come to an end.
FairSpec ==
    /\ Spec
    /\ \A s \in Scanners : WF_vars(ScanStep(s) \/ RunStep(s))
    /\ <>[][\A s \in Scanners : Crash(s) => EndScan(s)]_vars

----------------------------------------------------------------------------
(* Properties.                                                             *)

\* The ledger as its promise: what was attempted, and what is known of it.
Ledger == INSTANCE AtMostOnce WITH
    Occurrences <- Occurrence, log <- log, delivered <- succeeded

\* Across processes, crashes, clicks, retries, deferrals and reused task ids
\* an occurrence has its side effect attempted at most once, and never while
\* an earlier attempt of its task has no confirmed success.
AtMostOncePerOccurrence == Ledger!Spec

\* "A task id can be reused after deletion": no row of the ledger, whenever
\* it was written, answers for an occurrence of the record created now.
RecreatedTaskStartsClean ==
    [][\A t \in Tasks :
         tasks[t] = NoTask /\ tasks'[t] # NoTask =>
            \A o \in running \cup succeeded \cup doubtful :
                o.task = t => o.gen # tasks'[t].gen]_vars

OverdueAt(t, due) ==
    tasks[t] # NoTask /\ tasks[t].enabled /\ tasks[t].due = due /\ due < clock

\* No overdue occurrence is left lying, not even one that has succeeded just
\* before the process died: it is claimed or moved on, unless a row in doubt
\* blocks its task.
OverdueIsHandled ==
    \A t \in Tasks, due \in Times :
        OverdueAt(t, due) ~> (~OverdueAt(t, due) \/ Live(t) # {})

----------------------------------------------------------------------------
(* What the safety properties rest on.                                     *)

\* An actor has a lease token from its claim to the outcome, of a row that
\* is running, and no two actors have the same.
Tokens ==
    /\ \A a \in Actors : Working(a) => job[a] \in running
    /\ \A a, b \in Actors : Working(a) /\ Working(b) /\ job[a] = job[b] => a = b
    /\ \A a \in Actors : Working(a) =>
            (stage[a] = "tried" <=> job[a] \in Ledger!Attempted)

\* A row has one status, a task one live row, an attempt a row.
OneLiveTask ==
    /\ running \cap succeeded = {}
    /\ doubtful \cap (running \cup succeeded) = {}
    /\ \A o, p \in running \cup doubtful : o.task = p.task => o = p
    /\ Ledger!Attempted \subseteq running \cup succeeded \cup doubtful
    /\ succeeded \cup doubtful \subseteq Ledger!Attempted

\* Records and rows are of generations that were drawn.
GenerationsDrawn ==
    \A t \in Tasks :
        /\ tasks[t] # NoTask => tasks[t].gen <= drawn[t]
        /\ \A o \in running \cup succeeded \cup doubtful : o.task = t => o.gen <= drawn[t]

\* A scan that has decided about a task still knows which one.
ScanHasTask ==
    \A s \in Scanners : stage[s] \notin {"idle", "scanning"} => cur[s] # NoSnapshot

LedgerInv == Tokens /\ OneLiveTask /\ ScanHasTask

=============================================================================
