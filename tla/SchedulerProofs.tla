-------------------------- MODULE SchedulerProofs --------------------------
(***************************************************************************)
(* Scheduler keeps the promise of AtMostOnce for any number of processes,  *)
(* clicks, tasks and task records, and for any clock.                      *)
(***************************************************************************)
EXTENDS Scheduler, TLAPS

----------------------------------------------------------------------------
(* Types.                                                                  *)

\* A next run lies among the times of the model.
LEMMA RunsAfterTimes ==
    ASSUME NEW from \in 0..MaxTime
    PROVE  RunsAfter(from) \subseteq Times
  BY TimeAssumption DEF RunsAfter, Times

\* What a scan leaves in the table of tasks is a task or nothing.
LEMMA MoveOnType ==
    ASSUME TypeOK, NEW t \in Tasks, NEW kind, NEW from \in 0..MaxTime,
           tasks[t] # NoTask, MoveOn(t, kind, from)
    PROVE  tasks' \in [Tasks -> Task \cup {NoTask}]
  <1>1. CASE kind = "once"
    BY <1>1 DEF MoveOn, TypeOK
  <1>2. CASE kind # "once"
    <2>1. PICK due \in RunsAfter(from) : tasks' = [tasks EXCEPT ![t] = [@ EXCEPT !.due = due]]
      BY <1>2 DEF MoveOn
    <2>2. due \in Times /\ tasks[t] \in Task
      BY <2>1, RunsAfterTimes DEF TypeOK
    <2>3. QED
      BY <2>1, <2>2 DEF TypeOK, Task
  <1>3. QED
    BY <1>1, <1>2

\* The user's edits keep the table of tasks well formed.
LEMMA UserType ==
    ASSUME TypeOK, UserStep
    PROVE  /\ tasks' \in [Tasks -> Task \cup {NoTask}]
           /\ drawn' \in [Tasks -> 0..MaxGenerations]
  <1>1. RunsAfter(clock) \subseteq Times
    BY RunsAfterTimes DEF TypeOK
  <1>2. PICK t \in Tasks :
            \/ \E kind \in Kinds : AddTask(t, kind) \/ Reschedule(t, kind)
            \/ \E enabled \in BOOLEAN : EnableTask(t, enabled)
            \/ DeleteTask(t)
    BY DEF UserStep
  <1>3. ASSUME NEW kind \in Kinds, AddTask(t, kind)
        PROVE  /\ tasks' \in [Tasks -> Task \cup {NoTask}]
               /\ drawn' \in [Tasks -> 0..MaxGenerations]
    <2>1. drawn[t] + 1 \in 1..MaxGenerations
      BY <1>3, TimeAssumption DEF AddTask, TypeOK
    <2>2. PICK due \in RunsAfter(clock) : tasks' = [tasks EXCEPT ![t] =
            [gen |-> drawn[t] + 1, due |-> due, enabled |-> TRUE, kind |-> kind]]
      BY <1>3 DEF AddTask
    <2>3. [gen |-> drawn[t] + 1, due |-> due, enabled |-> TRUE, kind |-> kind] \in Task
      BY <1>1, <2>1 DEF Task
    <2>4. drawn' \in [Tasks -> 0..MaxGenerations]
      BY <1>3, <2>1, TimeAssumption DEF AddTask, TypeOK
    <2>5. QED
      BY <2>2, <2>3, <2>4 DEF TypeOK
  <1>4. ASSUME NEW kind \in Kinds, Reschedule(t, kind)
        PROVE  tasks' \in [Tasks -> Task \cup {NoTask}] /\ drawn' = drawn
    <2>1. PICK due \in RunsAfter(clock) :
            tasks' = [tasks EXCEPT ![t] = [@ EXCEPT !.due = due, !.kind = kind]]
      BY <1>4 DEF Reschedule
    <2>2. tasks[t] \in Task /\ due \in Times
      BY <1>1, <1>4, <2>1 DEF Reschedule, TypeOK
    <2>3. QED
      BY <1>4, <2>1, <2>2 DEF Reschedule, TypeOK, Task
  <1>5. ASSUME NEW enabled \in BOOLEAN, EnableTask(t, enabled)
        PROVE  tasks' \in [Tasks -> Task \cup {NoTask}] /\ drawn' = drawn
    <2>1. tasks[t] \in Task
      BY <1>5 DEF EnableTask, TypeOK
    <2>2. QED
      BY <1>5, <2>1 DEF EnableTask, TypeOK, Task
  <1>6. CASE DeleteTask(t)
    BY <1>6 DEF DeleteTask, TypeOK
  <1>7. QED
    BY <1>2, <1>3, <1>4, <1>5, <1>6 DEF TypeOK

\* The occurrence that a scan would claim.
LEMMA OccurrenceType ==
    ASSUME TypeOK, NEW s \in Scanners, cur[s] # NoSnapshot, StillDue(s)
    PROVE  OccurrenceOf(s) \in Occurrence
  <1>1. cur[s] \in Snapshot /\ tasks[cur[s].task] \in Task
    BY DEF TypeOK, StillDue, Snapshot
  <1>2. QED
    BY <1>1 DEF OccurrenceOf, Occurrence, Snapshot, Task

\* A worker's occurrence is one.
LEMMA JobType ==
    ASSUME TypeOK, LedgerInv, NEW a \in Actors, Working(a)
    PROVE  job[a] \in Occurrence /\ job[a] \in running
  BY DEF TypeOK, LedgerInv, Tokens

\* Scans keep the tables well formed.
LEMMA ScanType ==
    ASSUME TypeOK, LedgerInv, NEW s \in Scanners, ScanStep(s)
    PROVE  TypeOK' /\ ScanHasTask'
  <1> s \in Actors
    BY DEF Actors
  <1>1. CASE StartScan(s)
    <2>1. Snapshots \in SUBSET Snapshot
      BY DEF Snapshots, Snapshot, TypeOK, Task
    <2>2. QED
      BY <1>1, <2>1 DEF StartScan, TypeOK, Stages, taskVars, rowVars, LedgerInv, ScanHasTask
  <1>2. ASSUME NEW task \in todo[s], LookAt(s, task)
        PROVE  TypeOK' /\ ScanHasTask'
    <2>1. task \in Snapshot /\ task # NoSnapshot
      BY NullAssumption DEF TypeOK
    <2>2. QED
      BY <1>2, <2>1 DEF LookAt, TypeOK, Stages, taskVars, rowVars, LedgerInv, ScanHasTask
  <1>3. CASE EndScan(s)
    BY <1>3, TimeAssumption
       DEF EndScan, ForgetScan, TypeOK, Stages, taskVars, rowVars, LedgerInv, ScanHasTask
  <1>4. ASSUME stage[s] \notin {"idle", "scanning"}, tasks[cur[s].task] # NoTask,
               MoveOn(cur[s].task, cur[s].kind, seen[s])
        PROVE  tasks' \in [Tasks -> Task \cup {NoTask}]
    <2>1. cur[s].task \in Tasks /\ seen[s] \in 0..MaxTime
      BY <1>4 DEF LedgerInv, ScanHasTask, TypeOK, Snapshot
    <2>2. QED
      BY <1>4, <2>1, MoveOnType
  <1>5. CASE SkipRun(s)
    <2>1. tasks' \in [Tasks -> Task \cup {NoTask}]
      BY <1>4, <1>5 DEF SkipRun, TypeOK
    <2>2. QED
      BY <1>5, <2>1 DEF SkipRun, TypeOK, Stages, rowVars, scanVars, LedgerInv, ScanHasTask
  <1>6. CASE Advance(s)
    <2>1. tasks' \in [Tasks -> Task \cup {NoTask}]
      BY <1>4, <1>6 DEF Advance, StillDue, TypeOK
    <2>2. QED
      BY <1>6, <2>1 DEF Advance, TypeOK, Stages, rowVars, scanVars, LedgerInv, ScanHasTask
  <1>7. CASE ClaimScheduled(s)
    <2>1. cur[s] # NoSnapshot
      BY <1>7 DEF ClaimScheduled, LedgerInv, ScanHasTask
    <2>2. StillDue(s) => OccurrenceOf(s) \in Occurrence
      BY <2>1, OccurrenceType
    <2>3. UNCHANGED <<clock, taskVars, scanVars, log>>
      BY <1>7 DEF ClaimScheduled
    <2>4. CASE StillDue(s) /\ Claim(s, OccurrenceOf(s))
      BY <2>1, <2>2, <2>3, <2>4
         DEF Claim, TypeOK, Stages, taskVars, scanVars, LedgerInv, ScanHasTask
    <2>5. ASSUME NEW next \in {"advancing", "scanning"},
                 stage' = [stage EXCEPT ![s] = next], UNCHANGED <<rowVars, job>>
          PROVE  TypeOK' /\ ScanHasTask'
      BY <2>1, <2>3, <2>5
         DEF TypeOK, Stages, taskVars, rowVars, scanVars, LedgerInv, ScanHasTask
    <2>6. QED
      BY <1>7, <2>4, <2>5 DEF ClaimScheduled
  <1>8. QED
    BY <1>1, <1>2, <1>3, <1>5, <1>6, <1>7 DEF ScanStep

\* A click claims an occurrence.
LEMMA ManualType ==
    ASSUME TypeOK, LedgerInv, NEW c \in Clicks, ClaimManual(c)
    PROVE  TypeOK' /\ ScanHasTask'
  <1> DEFINE o == [task |-> TaskOf[c], gen |-> tasks[TaskOf[c]].gen, slot |-> KeyOf[c]]
  <1>1. c \in Actors /\ c \notin Scanners
    BY ClicksAssumption DEF Actors
  <1>2. TaskOf[c] \in Tasks /\ KeyOf[c] \in Keys /\ tasks[TaskOf[c]] \in Task
    BY ClicksAssumption DEF ClaimManual, TypeOK
  <1>3. o \in Occurrence
    BY <1>2 DEF Occurrence, Task
  <1>4. Claim(c, o) /\ UNCHANGED <<clock, taskVars, scanVars, log>>
    BY DEF ClaimManual
  <1>5. QED
    BY <1>1, <1>3, <1>4 DEF Claim, TypeOK, Stages, taskVars, scanVars, LedgerInv, ScanHasTask

\* Executions keep the tables well formed.
LEMMA RunType ==
    ASSUME TypeOK, LedgerInv, NEW a \in Actors, RunStep(a) \/ Crash(a)
    PROVE  TypeOK' /\ ScanHasTask'
  <1> USE DEF TypeOK, Stages, LedgerInv, ScanHasTask, taskVars, rowVars, scanVars
  <1>1. CASE Defer(a)
    BY <1>1 DEF Defer, Drop, Home
  <1>2. CASE Execute(a)
    <2>1. job[a] \in Occurrence
      BY <1>2, JobType DEF Execute, Working
    <2>2. log' \in Seq(Occurrence)
      BY <1>2, <2>1 DEF Execute
    <2>3. QED
      BY <1>2, <2>2 DEF Execute
  <1>3. CASE Succeed(a)
    <2>1. job[a] \in Occurrence
      BY <1>3, JobType DEF Succeed, Working
    <2>2. QED
      BY <1>3, <2>1 DEF Succeed, Drop
  <1>4. CASE Fail(a)
    <2>1. job[a] \in Occurrence
      BY <1>4, JobType DEF Fail, Working
    <2>2. QED
      BY <1>4, <2>1 DEF Fail, Drop, Home
  <1>5. CASE Lose(a)
    BY <1>5 DEF Lose, Drop, Home
  <1>6. CASE Crash(a)
    BY <1>6, TimeAssumption DEF Crash, Drop, ForgetScan
  <1>7. QED
    BY <1>1, <1>2, <1>3, <1>4, <1>5, <1>6 DEF RunStep

----------------------------------------------------------------------------
(* The ledger.                                                             *)

\* A step that claims, tries and settles nothing keeps the ledger in order.
LEMMA CalmStep ==
    ASSUME LedgerInv, UNCHANGED <<rowVars, job, log>>,
           \A a \in Actors : (Working(a)' => Working(a) /\ stage'[a] = stage[a])
    PROVE  Tokens' /\ OneLiveTask'
  <1>1. Ledger!Attempted' = Ledger!Attempted
    BY DEF Ledger!Attempted
  <1>2. QED
    BY <1>1 DEF LedgerInv, Tokens, OneLiveTask, rowVars, Working

\* A claim of a free occurrence makes its row the only live one of the task.
LEMMA ClaimStep ==
    ASSUME TypeOK, LedgerInv, NEW a \in Actors, NEW o \in Occurrence,
           ~Working(a), Free(o), Claim(a, o), log' = log
    PROVE  Tokens' /\ OneLiveTask'
  <1>1. Ledger!Attempted' = Ledger!Attempted
    BY DEF Ledger!Attempted
  <1>2. o \notin running \cup succeeded \cup doubtful
    BY DEF Free, Live
  <1>3. o \notin Ledger!Attempted
    BY <1>2 DEF LedgerInv, OneLiveTask
  <1>4. \A b \in Actors : Working(b)' <=> Working(b) \/ b = a
    BY DEF Working, Claim, TypeOK
  <1>5. \A b \in Actors : b # a => stage'[b] = stage[b] /\ job'[b] = job[b]
    BY DEF Claim, TypeOK
  <1>6. stage'[a] = "claimed" /\ job'[a] = o
    BY DEF Claim, TypeOK
  <1>7. \A b \in Actors : Working(b) => job[b] # o
    BY <1>2 DEF LedgerInv, Tokens
  <1>8. Tokens'
    <2>1. \A b \in Actors : Working(b)' => job'[b] \in running'
      BY <1>4, <1>5, <1>6 DEF Claim, LedgerInv, Tokens
    <2>2. \A b, d \in Actors : Working(b)' /\ Working(d)' /\ job'[b] = job'[d] => b = d
      BY <1>4, <1>5, <1>6, <1>7 DEF LedgerInv, Tokens
    <2>3. \A b \in Actors : Working(b)' =>
            (stage'[b] = "tried" <=> job'[b] \in Ledger!Attempted')
      BY <1>1, <1>3, <1>4, <1>5, <1>6 DEF LedgerInv, Tokens
    <2>4. QED
      BY <2>1, <2>2, <2>3 DEF Tokens
  <1>9. OneLiveTask'
    BY <1>1, <1>2 DEF Claim, Free, Live, LedgerInv, OneLiveTask
  <1>10. QED
    BY <1>8, <1>9

\* An actor that gives up its token: its row is deleted, settled or left.
LEMMA DropStep ==
    ASSUME TypeOK, LedgerInv, NEW a \in Actors, NEW next, Drop(a, next),
           next \notin {"claimed", "tried"}, log' = log,
           \/ UNCHANGED rowVars
           \/ /\ stage[a] = "claimed"
              /\ running' = running \ {job[a]}
              /\ UNCHANGED <<succeeded, doubtful>>
           \/ /\ stage[a] = "tried"
              /\ running' = running \ {job[a]}
              /\ \/ succeeded' = succeeded \cup {job[a]} /\ UNCHANGED doubtful
                 \/ doubtful' = doubtful \cup {job[a]} /\ UNCHANGED succeeded
    PROVE  Tokens' /\ OneLiveTask'
  <1>1. Ledger!Attempted' = Ledger!Attempted
    BY DEF Ledger!Attempted
  <1>2. \A b \in Actors : Working(b)' <=> Working(b) /\ b # a
    BY DEF Working, Drop, TypeOK
  <1>3. \A b \in Actors : b # a => stage'[b] = stage[b] /\ job'[b] = job[b]
    BY DEF Drop, TypeOK
  <1>4. \A b \in Actors : Working(a) /\ Working(b) /\ b # a => job[b] # job[a]
    BY DEF LedgerInv, Tokens
  <1>5. Tokens'
    <2>1. \A b \in Actors : Working(b)' => job'[b] \in running'
      BY <1>2, <1>3, <1>4 DEF rowVars, LedgerInv, Tokens, Working
    <2>2. QED
      BY <1>1, <1>2, <1>3, <2>1 DEF LedgerInv, Tokens
  <1>6. OneLiveTask'
    <2>1. CASE UNCHANGED rowVars
      BY <1>1, <2>1 DEF rowVars, LedgerInv, OneLiveTask
    <2>2. CASE /\ stage[a] = "claimed"
               /\ running' = running \ {job[a]}
               /\ UNCHANGED <<succeeded, doubtful>>
      <3>1. job[a] \notin Ledger!Attempted
        BY <2>2 DEF Working, LedgerInv, Tokens
      <3>2. QED
        BY <1>1, <2>2, <3>1 DEF LedgerInv, OneLiveTask
    <2>3. CASE /\ stage[a] = "tried"
               /\ running' = running \ {job[a]}
               /\ \/ succeeded' = succeeded \cup {job[a]} /\ UNCHANGED doubtful
                  \/ doubtful' = doubtful \cup {job[a]} /\ UNCHANGED succeeded
      <3>1. job[a] \in running /\ job[a] \in Ledger!Attempted
        BY <2>3 DEF Working, LedgerInv, Tokens
      <3>2. QED
        BY <1>1, <2>3, <3>1 DEF LedgerInv, OneLiveTask
    <2>4. QED
      BY <2>1, <2>2, <2>3
  <1>7. QED
    BY <1>5, <1>6

\* The history of attempts after one more.
LEMMA AttemptedAppend ==
    ASSUME TypeOK, NEW o \in Occurrence, log' = Append(log, o)
    PROVE  Ledger!Attempted' = Ledger!Attempted \cup {o}
  <1>1. DOMAIN log' = DOMAIN log \cup {Len(log) + 1}
    BY DEF TypeOK
  <1>2. log'[Len(log) + 1] = o /\ \A i \in DOMAIN log : log'[i] = log[i]
    BY DEF TypeOK
  <1>3. QED
    BY <1>1, <1>2 DEF Ledger!Attempted

\* An attempt is of an occurrence whose row is running, and never a second.
LEMMA ExecuteStep ==
    ASSUME TypeOK, LedgerInv, NEW a \in Actors, Execute(a)
    PROVE  Tokens' /\ OneLiveTask'
  <1>1. Working(a) /\ job[a] \in Occurrence /\ job[a] \in running
    BY JobType DEF Execute, Working
  <1>2. Ledger!Attempted' = Ledger!Attempted \cup {job[a]}
    BY <1>1, AttemptedAppend DEF Execute
  <1>3. UNCHANGED <<rowVars, job>>
    BY DEF Execute
  <1>4. \A b \in Actors : /\ Working(b)' <=> Working(b)
                          /\ b # a => stage'[b] = stage[b]
    BY DEF Execute, Working, TypeOK
  <1>5. stage'[a] = "tried"
    BY DEF Execute, TypeOK
  <1>6. \A b \in Actors : Working(b) /\ b # a => job[b] # job[a]
    BY <1>1 DEF LedgerInv, Tokens
  <1>7. Tokens'
    BY <1>1, <1>2, <1>3, <1>4, <1>5, <1>6 DEF LedgerInv, Tokens, rowVars
  <1>8. OneLiveTask'
    BY <1>1, <1>2, <1>3 DEF LedgerInv, OneLiveTask, rowVars
  <1>9. QED
    BY <1>7, <1>8

\* A step that moves a stage keeps the work of all actors, if it keeps one's.
LEMMA SameWork ==
    ASSUME TypeOK, NEW s \in Actors, NEW next, ~Working(s),
           next \notin {"claimed", "tried"}, stage' = [stage EXCEPT ![s] = next]
    PROVE  \A a \in Actors : (Working(a)' => Working(a) /\ stage'[a] = stage[a])
  BY DEF TypeOK, Working

----------------------------------------------------------------------------
(* The theorems.                                                           *)

\* Every step of the scheduler keeps its tables well formed and its ledger
\* in order.
LEMMA LedgerStep == TypeOK /\ LedgerInv /\ [Next]_vars => TypeOK' /\ LedgerInv'
  <1> SUFFICES ASSUME TypeOK, LedgerInv, [Next]_vars
               PROVE  TypeOK' /\ LedgerInv'
    OBVIOUS
  <1>1. ASSUME NEW s \in Scanners, ScanStep(s)
        PROVE  TypeOK' /\ LedgerInv'
    <2> s \in Actors
      BY DEF Actors
    <2>1. TypeOK' /\ ScanHasTask'
      BY <1>1, ScanType
    <2> SUFFICES Tokens' /\ OneLiveTask'
      BY <2>1 DEF LedgerInv
    <2>2. ASSUME NEW next \in Stages \ {"claimed", "tried"},
                 ~Working(s), stage' = [stage EXCEPT ![s] = next],
                 UNCHANGED <<rowVars, job, log>>
          PROVE  Tokens' /\ OneLiveTask'
      <3>1. \A a \in Actors : (Working(a)' => Working(a) /\ stage'[a] = stage[a])
        BY <2>2, SameWork
      <3>2. QED
        BY <2>2, <3>1, CalmStep
    <2>3. CASE StartScan(s)
      BY <2>2, <2>3 DEF StartScan, Working, Stages
    <2>4. ASSUME NEW task \in todo[s], LookAt(s, task)
          PROVE  Tokens' /\ OneLiveTask'
      BY <2>2, <2>4 DEF LookAt, Working, Stages
    <2>5. CASE EndScan(s)
      BY <2>2, <2>5 DEF EndScan, Working, Stages
    <2>6. CASE SkipRun(s)
      BY <2>2, <2>6 DEF SkipRun, Working, Stages
    <2>7. CASE Advance(s)
      BY <2>2, <2>7 DEF Advance, Working, Stages
    <2>8. CASE ClaimScheduled(s)
      <3>1. ~Working(s) /\ cur[s] # NoSnapshot /\ log' = log
        BY <2>8 DEF ClaimScheduled, Working, LedgerInv, ScanHasTask
      <3>2. CASE StillDue(s) /\ Free(OccurrenceOf(s)) /\ Claim(s, OccurrenceOf(s))
        <4>1. OccurrenceOf(s) \in Occurrence
          BY <3>1, <3>2, OccurrenceType
        <4>2. QED
          BY <3>1, <3>2, <4>1, ClaimStep
      <3>3. QED
        BY <2>2, <2>8, <3>1, <3>2 DEF ClaimScheduled, Stages
    <2>9. QED
      BY <1>1, <2>3, <2>4, <2>5, <2>6, <2>7, <2>8 DEF ScanStep
  <1>2. ASSUME NEW c \in Clicks, ClaimManual(c)
        PROVE  TypeOK' /\ LedgerInv'
    <2> DEFINE o == [task |-> TaskOf[c], gen |-> tasks[TaskOf[c]].gen, slot |-> KeyOf[c]]
    <2>1. TypeOK' /\ ScanHasTask'
      BY <1>2, ManualType
    <2>2. c \in Actors /\ ~Working(c)
      BY <1>2 DEF Actors, ClaimManual, Working
    <2>3. TaskOf[c] \in Tasks /\ KeyOf[c] \in Keys /\ tasks[TaskOf[c]] \in Task
      BY <1>2, ClicksAssumption DEF ClaimManual, TypeOK
    <2>4. o \in Occurrence
      BY <2>3 DEF Occurrence, Task
    <2>5. Free(o) /\ Claim(c, o) /\ log' = log
      BY <1>2 DEF ClaimManual
    <2>6. Tokens' /\ OneLiveTask'
      BY <2>2, <2>4, <2>5, ClaimStep
    <2>7. QED
      BY <2>1, <2>6 DEF LedgerInv
  <1>3. ASSUME NEW a \in Actors, RunStep(a) \/ Crash(a)
        PROVE  TypeOK' /\ LedgerInv'
    <2>1. TypeOK' /\ ScanHasTask'
      BY <1>3, RunType
    <2> SUFFICES Tokens' /\ OneLiveTask'
      BY <2>1 DEF LedgerInv
    <2>2. CASE Execute(a)
      BY <2>2, ExecuteStep
    <2>3. CASE Defer(a)
      BY <2>3, DropStep DEF Defer, Home
    <2>4. CASE Succeed(a)
      BY <2>4, DropStep DEF Succeed
    <2>5. CASE Fail(a)
      BY <2>5, DropStep DEF Fail, Home
    <2>6. CASE Lose(a)
      BY <2>6, DropStep DEF Lose, Home
    <2>7. CASE Crash(a)
      BY <2>7, DropStep DEF Crash
    <2>8. QED
      BY <1>3, <2>1, <2>2, <2>3, <2>4, <2>5, <2>6, <2>7 DEF RunStep, LedgerInv
  <1>4. ASSUME UNCHANGED <<stage, job, rowVars, cur, log>>, TypeOK'
        PROVE  TypeOK' /\ LedgerInv'
    <2>1. \A a \in Actors : (Working(a)' => Working(a) /\ stage'[a] = stage[a])
      BY <1>4 DEF Working
    <2>2. QED
      BY <1>4, <2>1, CalmStep DEF LedgerInv, ScanHasTask
  <1>5. CASE UserStep
    <2>1. UNCHANGED <<clock, rowVars, stage, job, scanVars, log>>
      BY <1>5 DEF UserStep, AddTask, Reschedule, EnableTask, DeleteTask
    <2>2. TypeOK'
      BY <1>5, <2>1, UserType DEF TypeOK, rowVars, scanVars
    <2>3. QED
      BY <1>4, <2>1, <2>2 DEF scanVars
  <1>6. CASE Tick
    <2>1. TypeOK'
      BY <1>6, TimeAssumption DEF Tick, TypeOK, taskVars, rowVars, scanVars
    <2>2. QED
      BY <1>4, <1>6, <2>1 DEF Tick, scanVars
  <1>7. CASE UNCHANGED vars
    <2>1. TypeOK'
      BY <1>7 DEF vars, TypeOK, taskVars, rowVars, scanVars
    <2>2. QED
      BY <1>4, <1>7, <2>1 DEF vars, scanVars
  <1>8. QED
    BY <1>1, <1>2, <1>3, <1>5, <1>6, <1>7 DEF Next

\* The empty scheduler is in order.
LEMMA LedgerInit == Init => TypeOK /\ LedgerInv
  <1> SUFFICES ASSUME Init PROVE TypeOK /\ LedgerInv
    OBVIOUS
  <1>1. TypeOK
    <2>1. log \in Seq(Occurrence)
      BY DEF Init
    <2>2. QED
      BY <2>1, TimeAssumption DEF Init, TypeOK, Stages
  <1>2. Ledger!Attempted = {}
    BY DEF Init, Ledger!Attempted
  <1>3. OneLiveTask
    BY <1>2 DEF Init, OneLiveTask
  <1>4. Tokens /\ ScanHasTask
    BY DEF Init, Tokens, ScanHasTask, Working, Actors
  <1>5. QED
    BY <1>1, <1>3, <1>4 DEF LedgerInv

\* The tables are well formed at all times.
THEOREM SchedulerTypes == Spec => []TypeOK
  <1>1. Spec => [](TypeOK /\ LedgerInv)
    BY LedgerInit, LedgerStep, PTL DEF Spec
  <1>2. QED
    BY <1>1, PTL

\* At all times a lease token belongs to one actor and one running row, a
\* task has at most one row that is running or in doubt, and exactly the
\* settled rows, and some of the running ones, were attempted.
THEOREM OneExecutionPerTask == Spec => []LedgerInv
  <1>1. Spec => [](TypeOK /\ LedgerInv)
    BY LedgerInit, LedgerStep, PTL DEF Spec
  <1>2. QED
    BY <1>1, PTL

\* What a step of the scheduler does to the abstract ledger.
LEMMA LedgerRefines ==
    ASSUME TypeOK, LedgerInv, [Next]_vars
    PROVE  [Ledger!Next]_<<log, succeeded>>
  <1>1. ASSUME NEW a \in Actors, Execute(a)
        PROVE  Ledger!Next
    <2>1. job[a] \in Occurrence /\ job[a] \in running
      BY <1>1, JobType DEF Execute, Working
    <2>2. job[a] \notin Ledger!Attempted
      BY <1>1 DEF Execute, Working, LedgerInv, Tokens
    <2>3. \A p \in Ledger!Attempted : p.task = job[a].task => p \in succeeded
      BY <2>1, <2>2 DEF LedgerInv, OneLiveTask
    <2>4. Ledger!Attempt(job[a])
      BY <1>1, <2>2, <2>3 DEF Execute, rowVars, Ledger!Attempt
    <2>5. QED
      BY <2>1, <2>4 DEF Ledger!Next
  <1>2. ASSUME NEW a \in Actors, Succeed(a)
        PROVE  Ledger!Next
    <2>1. job[a] \in Occurrence /\ job[a] \in running
      BY <1>2, JobType DEF Succeed, Working
    <2>2. job[a] \in Ledger!Attempted \ succeeded
      BY <1>2, <2>1 DEF Succeed, Working, LedgerInv, Tokens, OneLiveTask
    <2>3. Ledger!Deliver(job[a])
      BY <1>2, <2>2 DEF Succeed, Ledger!Deliver
    <2>4. QED
      BY <2>1, <2>3 DEF Ledger!Next
  <1>3. ASSUME NEW s \in Scanners, ScanStep(s)
        PROVE  UNCHANGED <<log, succeeded>>
    BY <1>3 DEF ScanStep, StartScan, LookAt, EndScan, SkipRun, ClaimScheduled, Claim, Advance,
                rowVars
  <1>4. ASSUME NEW c \in Clicks, ClaimManual(c)
        PROVE  UNCHANGED <<log, succeeded>>
    BY <1>4 DEF ClaimManual, Claim
  <1>5. ASSUME NEW a \in Actors, Defer(a) \/ Fail(a) \/ Lose(a) \/ Crash(a)
        PROVE  UNCHANGED <<log, succeeded>>
    BY <1>5 DEF Defer, Fail, Lose, Crash, rowVars
  <1>6. ASSUME UserStep \/ Tick \/ UNCHANGED vars
        PROVE  UNCHANGED <<log, succeeded>>
    BY <1>6 DEF UserStep, AddTask, Reschedule, EnableTask, DeleteTask, Tick, vars, rowVars
  <1>7. QED
    BY <1>1, <1>2, <1>3, <1>4, <1>5, <1>6 DEF Next, RunStep

\* The scheduler implements AtMostOnce: no occurrence is attempted twice, and
\* none while an earlier attempt of its task is unconfirmed.
THEOREM SchedulerImplementsAtMostOnce == Spec => AtMostOncePerOccurrence
  <1>1. Init => Ledger!Init
    BY DEF Init, Ledger!Init
  <1>2. Spec => [](TypeOK /\ LedgerInv)
    BY LedgerInit, LedgerStep, PTL DEF Spec
  <1>3. TypeOK /\ LedgerInv /\ [Next]_vars => [Ledger!Next]_<<log, succeeded>>
    BY LedgerRefines
  <1>4. QED
    BY <1>1, <1>2, <1>3, PTL DEF Spec, AtMostOncePerOccurrence, Ledger!Spec

----------------------------------------------------------------------------
(* Generations.                                                            *)

\* Scans and users leave records of drawn generations, and rows alone.
LEMMA RecordsDrawn ==
    ASSUME TypeOK, GenerationsDrawn, UNCHANGED <<drawn, rowVars>>,
           \A t \in Tasks : tasks'[t] # NoTask =>
                tasks[t] # NoTask /\ tasks'[t].gen = tasks[t].gen
    PROVE  GenerationsDrawn'
  BY DEF GenerationsDrawn, rowVars

\* Moving a record on keeps its generation.
LEMMA MoveOnDrawn ==
    ASSUME TypeOK, NEW t \in Tasks, NEW kind, NEW from \in 0..MaxTime,
           tasks[t] # NoTask, MoveOn(t, kind, from), NEW u \in Tasks, tasks'[u] # NoTask
    PROVE  tasks[u] # NoTask /\ tasks'[u].gen = tasks[u].gen
  <1>1. CASE kind = "once"
    BY <1>1 DEF MoveOn, TypeOK
  <1>2. CASE kind # "once"
    <2>1. PICK due \in RunsAfter(from) : tasks' = [tasks EXCEPT ![t] = [@ EXCEPT !.due = due]]
      BY <1>2 DEF MoveOn
    <2>2. tasks[t] \in Task
      BY DEF TypeOK
    <2>3. QED
      BY <2>1, <2>2 DEF TypeOK, Task
  <1>3. QED
    BY <1>1, <1>2

\* A claim is of the generation of the record.
LEMMA ClaimDrawn ==
    ASSUME TypeOK, GenerationsDrawn, NEW a, NEW t \in Tasks, NEW slot, tasks[t] # NoTask,
           Claim(a, [task |-> t, gen |-> tasks[t].gen, slot |-> slot]), UNCHANGED taskVars
    PROVE  GenerationsDrawn'
  BY DEF Claim, GenerationsDrawn, taskVars

\* Every step keeps the generations among those drawn.
LEMMA GenerationsStep ==
    ASSUME TypeOK, LedgerInv, GenerationsDrawn, [Next]_vars
    PROVE  GenerationsDrawn'
  <1>1. ASSUME NEW s \in Scanners, ScanStep(s)
        PROVE  GenerationsDrawn'
    <2>1. CASE UNCHANGED <<taskVars, rowVars>>
      BY <2>1, RecordsDrawn DEF taskVars
    <2>2. ASSUME SkipRun(s) \/ Advance(s)
          PROVE  GenerationsDrawn'
      <3>1. cur[s].task \in Tasks /\ seen[s] \in 0..MaxTime
        BY <2>2 DEF SkipRun, Advance, LedgerInv, ScanHasTask, TypeOK, Snapshot
      <3>2. \/ UNCHANGED tasks
            \/ tasks[cur[s].task] # NoTask /\ MoveOn(cur[s].task, cur[s].kind, seen[s])
        BY <2>2 DEF SkipRun, Advance, StillDue
      <3>3. \A t \in Tasks : tasks'[t] # NoTask =>
                tasks[t] # NoTask /\ tasks'[t].gen = tasks[t].gen
        BY <3>1, <3>2, MoveOnDrawn
      <3>4. QED
        BY <2>2, <3>3, RecordsDrawn DEF SkipRun, Advance
    <2>3. ASSUME ClaimScheduled(s), StillDue(s), Claim(s, OccurrenceOf(s))
          PROVE  GenerationsDrawn'
      <3>1. cur[s].task \in Tasks
        BY <2>3 DEF ClaimScheduled, LedgerInv, ScanHasTask, TypeOK, Snapshot
      <3>2. QED
        BY <2>3, <3>1, ClaimDrawn DEF ClaimScheduled, StillDue, OccurrenceOf
    <2>4. QED
      BY <1>1, <2>1, <2>2, <2>3
         DEF ScanStep, StartScan, LookAt, EndScan, ClaimScheduled
  <1>2. ASSUME NEW c \in Clicks, ClaimManual(c)
        PROVE  GenerationsDrawn'
    BY <1>2, ClaimDrawn, ClicksAssumption DEF ClaimManual
  <1>3. ASSUME NEW a \in Actors, RunStep(a) \/ Crash(a)
        PROVE  GenerationsDrawn'
    <2>1. UNCHANGED taskVars
      BY <1>3 DEF RunStep, Defer, Execute, Succeed, Fail, Lose, Crash
    <2>2. running' \cup succeeded' \cup doubtful' \subseteq running \cup succeeded \cup doubtful
      BY <1>3, JobType
         DEF RunStep, Defer, Execute, Succeed, Fail, Lose, Crash, Working, rowVars
    <2>3. QED
      BY <2>1, <2>2 DEF GenerationsDrawn, taskVars
  <1>4. CASE UserStep
    <2>1. UNCHANGED rowVars
      BY <1>4 DEF UserStep, AddTask, Reschedule, EnableTask, DeleteTask
    <2>2. ASSUME NEW t \in Tasks, NEW kind \in Kinds, AddTask(t, kind)
          PROVE  GenerationsDrawn'
      <3>1. PICK due \in RunsAfter(clock) : tasks' = [tasks EXCEPT ![t] =
              [gen |-> drawn[t] + 1, due |-> due, enabled |-> TRUE, kind |-> kind]]
        BY <2>2 DEF AddTask
      <3>2. tasks'[t].gen = drawn'[t] /\ drawn'[t] = drawn[t] + 1 /\ drawn[t] \in Nat
        BY <2>2, <3>1, TimeAssumption DEF AddTask, TypeOK
      <3>3. \A u \in Tasks : u # t => tasks'[u] = tasks[u] /\ drawn'[u] = drawn[u]
        BY <2>2, <3>1 DEF AddTask, TypeOK
      <3>4. \A o \in running \cup succeeded \cup doubtful : o.gen \in Nat
        BY DEF TypeOK, Occurrence
      <3>5. \A o \in running \cup succeeded \cup doubtful :
                o.task = t => o.gen <= drawn[t] /\ o.gen \in Nat
        BY <3>4 DEF GenerationsDrawn
      <3>6. QED
        BY <2>1, <3>2, <3>3, <3>5 DEF GenerationsDrawn, rowVars
    <2>3. ASSUME NEW t \in Tasks, NEW kind \in Kinds, Reschedule(t, kind)
          PROVE  GenerationsDrawn'
      <3>1. PICK due \in RunsAfter(clock) :
              tasks' = [tasks EXCEPT ![t] = [@ EXCEPT !.due = due, !.kind = kind]]
        BY <2>3 DEF Reschedule
      <3>2. tasks[t] \in Task
        BY <2>3 DEF Reschedule, TypeOK
      <3>3. \A u \in Tasks : tasks'[u] # NoTask =>
                tasks[u] # NoTask /\ tasks'[u].gen = tasks[u].gen
        BY <2>3, <3>1, <3>2 DEF Reschedule, TypeOK, Task
      <3>4. QED
        BY <2>1, <2>3, <3>3, RecordsDrawn DEF Reschedule
    <2>4. ASSUME NEW t \in Tasks, NEW enabled \in BOOLEAN, EnableTask(t, enabled)
          PROVE  GenerationsDrawn'
      <3>1. tasks[t] \in Task
        BY <2>4 DEF EnableTask, TypeOK
      <3>2. \A u \in Tasks : tasks'[u] # NoTask =>
                tasks[u] # NoTask /\ tasks'[u].gen = tasks[u].gen
        BY <2>4, <3>1 DEF EnableTask, TypeOK, Task
      <3>3. QED
        BY <2>1, <2>4, <3>2, RecordsDrawn DEF EnableTask
    <2>5. ASSUME NEW t \in Tasks, DeleteTask(t)
          PROVE  GenerationsDrawn'
      BY <2>1, <2>5, RecordsDrawn DEF DeleteTask, TypeOK
    <2>6. QED
      BY <1>4, <2>2, <2>3, <2>4, <2>5 DEF UserStep
  <1>5. CASE Tick \/ UNCHANGED vars
    BY <1>5 DEF Tick, vars, taskVars, rowVars, GenerationsDrawn
  <1>6. QED
    BY <1>1, <1>2, <1>3, <1>4, <1>5 DEF Next

\* No row ever written for an id answers for the record that is added now.
THEOREM RecreatedTasksAreClean == Spec => RecreatedTaskStartsClean
  <1> DEFINE Clean == \A t \in Tasks :
         tasks[t] = NoTask /\ tasks'[t] # NoTask =>
            \A o \in running \cup succeeded \cup doubtful :
                o.task = t => o.gen # tasks'[t].gen
  <1>1. Init => GenerationsDrawn
    BY DEF Init, GenerationsDrawn
  <1>2. TypeOK /\ LedgerInv /\ GenerationsDrawn /\ [Next]_vars => GenerationsDrawn'
    BY GenerationsStep
  <1>3. TypeOK /\ LedgerInv /\ GenerationsDrawn /\ [Next]_vars => [Clean]_vars
    <2> SUFFICES ASSUME TypeOK, LedgerInv, GenerationsDrawn, [Next]_vars,
                        NEW t \in Tasks, tasks[t] = NoTask, tasks'[t] # NoTask,
                        NEW o \in running \cup succeeded \cup doubtful, o.task = t
                 PROVE  o.gen # tasks'[t].gen
      OBVIOUS
    <2>1. \E kind \in Kinds : AddTask(t, kind)
      <3>1. ASSUME NEW s \in Scanners, ScanStep(s)
            PROVE  FALSE
        <4>1. CASE UNCHANGED tasks
          BY <4>1
        <4>2. ASSUME SkipRun(s) \/ Advance(s), ~UNCHANGED tasks
              PROVE  FALSE
          <5>1. cur[s].task \in Tasks /\ seen[s] \in 0..MaxTime
            BY <4>2 DEF SkipRun, Advance, LedgerInv, ScanHasTask, TypeOK, Snapshot
          <5>2. tasks[cur[s].task] # NoTask /\ MoveOn(cur[s].task, cur[s].kind, seen[s])
            BY <4>2 DEF SkipRun, Advance, StillDue
          <5>3. QED
            BY <5>1, <5>2, MoveOnDrawn
        <4>3. QED
          BY <3>1, <4>1, <4>2
             DEF ScanStep, StartScan, LookAt, EndScan, ClaimScheduled, taskVars
      <3>2. CASE UserStep
        BY <3>2 DEF UserStep, AddTask, Reschedule, EnableTask, DeleteTask, TypeOK
      <3>3. QED
        BY <3>1, <3>2
           DEF Next, ClaimManual, RunStep, Defer, Execute, Succeed, Fail, Lose, Crash, Tick,
               vars, taskVars
    <2>2. PICK kind \in Kinds : AddTask(t, kind)
      BY <2>1
    <2>3. PICK due \in RunsAfter(clock) : tasks' = [tasks EXCEPT ![t] =
            [gen |-> drawn[t] + 1, due |-> due, enabled |-> TRUE, kind |-> kind]]
      BY <2>2 DEF AddTask
    <2>4. tasks'[t].gen = drawn[t] + 1 /\ drawn[t] \in Nat
      BY <2>3, TimeAssumption DEF TypeOK
    <2>5. o.gen <= drawn[t] /\ o.gen \in Nat
      BY DEF GenerationsDrawn, TypeOK, Occurrence
    <2>6. QED
      BY <2>4, <2>5
  <1>4. Spec => [](TypeOK /\ LedgerInv)
    BY LedgerInit, LedgerStep, PTL DEF Spec
  <1>5. QED
    BY <1>1, <1>2, <1>3, <1>4, PTL DEF Spec, RecreatedTaskStartsClean

=============================================================================
