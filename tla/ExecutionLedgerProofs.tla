----------------------- MODULE ExecutionLedgerProofs -----------------------
(***************************************************************************)
(* What ExecutionLedger guarantees for every number of sessions, requests  *)
(* and keys, every lease and every clock difference.                       *)
(*                                                                         *)
(* First the types, the authority of a session and the claims, from the    *)
(* invariant of fences and epochs; then what a row, its queue entry and    *)
(* its events may become, from what every transaction does to them.        *)
(***************************************************************************)
EXTENDS ExecutionLedger, TLAPS

RunTable == [Requests -> Run]
FenceTable == [Sessions -> Fence \cup {NoFence}]
EventTable == [Requests -> Seq(EventTypes)]

(***************************************************************************)
(* Types of the steps that the transactions share.                         *)
(***************************************************************************)

\* The sweep of expired fences keeps both tables well formed.
LEMMA SweepType ==
    ASSUME TypeOK, NEW scope \in SUBSET Sessions, NEW lag \in Lags
    PROVE  /\ RunsAfterExpiry(scope, lag) \in RunTable
           /\ FencesAfterExpiry(scope, lag) \in FenceTable
  BY DEF TypeOK, RunsAfterExpiry, FencesAfterExpiry, RunTable, FenceTable, Run,
         ExecutionStates, Settled, Pending

\* A cancellation marker is an event like the others.
LEMMA MarkerType ==
    ASSUME NEW es \in Seq(EventTypes), NEW type \in EventTypes
    PROVE  WithMarker(es, type) \in Seq(EventTypes)
  BY DEF WithMarker

\* So is the row that a cancellation leaves.
LEMMA CancelType ==
    ASSUME TypeOK, NEW rs \in RunTable, NEW targets
    PROVE  /\ CancelledRuns(rs, targets) \in RunTable
           /\ CancelledEvents(rs, targets) \in EventTable
           /\ StillQueued(rs, targets) \subseteq Requests
  <1>1. \A run \in Run : CancelRow(run) \in Run
    BY DEF CancelRow, Run, ExecutionStates, Settled, Pending
  <1>2. CancelledRuns(rs, targets) \in RunTable
    BY <1>1 DEF CancelledRuns, RunTable
  <1>3. CancelledEvents(rs, targets) \in EventTable
    BY MarkerType DEF CancelledEvents, EventTable, TypeOK, EventTypes, Terminal
  <1>4. QED
    BY <1>2, <1>3 DEF StillQueued, TypeOK

\* A supersession only marks rows old.
LEMMA SupersedeType ==
    ASSUME NEW rs \in RunTable, NEW es \in EventTable, NEW s
    PROVE  /\ SupersededRuns(rs, s) \in RunTable
           /\ SupersededEvents(rs, es, s) \in EventTable
  <1>1. SupersededRuns(rs, s) \in RunTable
    BY DEF SupersededRuns, RunTable, Run
  <1>2. SupersededEvents(rs, es, s) \in EventTable
    BY MarkerType DEF SupersededEvents, EventTable, EventTypes, Terminal
  <1>3. QED
    BY <1>1, <1>2

\* A claim takes well-formed tables to well-formed tables.
LEMMA ClaimType ==
    ASSUME TypeOK, NEW rs \in RunTable, NEW fs \in FenceTable,
           NEW queue \in SUBSET Requests, NEW ids, NEW scope, NEW lag \in Lags,
           ClaimNextQueued(rs, fs, queue, ids, scope, lag)
    PROVE  /\ runs' \in RunTable /\ fences' \in FenceTable
           /\ waiting' \subseteq Requests
           /\ lastEpoch' \in [Sessions -> Nat] /\ issued' \subseteq Claim
  <1>1. CASE runs' = rs /\ fences' = fs /\ waiting' = queue /\ UNCHANGED claimVars
    BY <1>1 DEF TypeOK, claimVars
  <1>2. CASE \E r \in Claimable(rs, fs, queue, scope) : ClaimEntry(r, rs, fs, queue, lag)
    <2>1. PICK r \in Claimable(rs, fs, queue, scope) : ClaimEntry(r, rs, fs, queue, lag)
      BY <1>2
    <2>2. r \in Requests /\ SessionOf[r] \in Sessions /\ NextEpoch(SessionOf[r]) \in Nat
      BY SessionsAssumption DEF Claimable, NextEpoch, TypeOK
    <2>3. runs' \in RunTable
      BY <2>1, <2>2 DEF ClaimEntry, RunTable, Run, ExecutionStates, Pending
    <2>4. Lease - lag \in Int
      BY LeaseAssumption DEF Lags
    <2>5. fences' \in FenceTable
      BY <2>1, <2>2, <2>4 DEF ClaimEntry, FenceTable, Fence
    <2>6. QED
      BY <2>1, <2>2, <2>3, <2>5 DEF ClaimEntry, TypeOK, Claim
  <1>3. QED
    BY <1>1, <1>2 DEF ClaimNextQueued

\* A session without keyless twins: scopes the transactions use.
LEMMA Scopes == \A r \in Requests : {SessionOf[r]} \in SUBSET Sessions
  BY SessionsAssumption

(***************************************************************************)
(* Type correctness.                                                       *)
(***************************************************************************)

\* The empty ledger is well formed.
LEMMA InitType == Init => TypeOK
  BY DEF Init, TypeOK, NoRun, Run, ExecutionStates

\* Accepting a request keeps the tables well formed.
LEMMA AdmissionType ==
    ASSUME TypeOK, NEW lag \in Lags
    PROVE  /\ \A r \in Requests : ClaimExecution(r, lag) => TypeOK'
           /\ \A scope \in SUBSET Sessions : ClaimNextQueuedExecution(scope, lag) => TypeOK'
           /\ \A r \in Requests : BeginLegacy(r) => TypeOK'
  <1>1. ASSUME NEW r \in Requests, ClaimExecution(r, lag)
        PROVE  TypeOK'
    <2> DEFINE s == SessionOf[r]
               rs == RunsAfterExpiry({s}, lag)
               fs == FencesAfterExpiry({s}, lag)
               row == [NoRun("queued") EXCEPT !.gen = generation[s]]
               rows == [q \in Requests |-> IF q = r THEN row ELSE rs[q]]
               ids == [queueId EXCEPT ![r] = lastQueueId + 1]
    <2>1. rs \in RunTable /\ fs \in FenceTable /\ s \in Sessions
      BY SweepType, Scopes, SessionsAssumption
    <2>2. CASE ClaimNextQueued(rs, fs, waiting, queueId, {s}, lag)
               /\ UNCHANGED <<queueId, lastQueueId>>
      <3>1. waiting \in SUBSET Requests
        BY DEF TypeOK
      <3>2. /\ runs' \in RunTable /\ fences' \in FenceTable
            /\ waiting' \subseteq Requests
            /\ lastEpoch' \in [Sessions -> Nat] /\ issued' \subseteq Claim
        BY <2>1, <2>2, <3>1, ClaimType
      <3>3. QED
        BY <1>1, <2>2, <3>2 DEF ClaimExecution, TypeOK, mutationVars, RunTable, FenceTable
    <2>3. CASE /\ lastQueueId' = lastQueueId + 1
               /\ queueId' = ids
               /\ ClaimNextQueued(rows, fs, waiting \cup {r}, ids, {s}, lag)
      <3>1. row \in Run
        BY <2>1 DEF NoRun, Run, ExecutionStates, Pending, TypeOK
      <3>2. rows \in RunTable
        BY <2>1, <3>1 DEF RunTable
      <3>3. waiting \cup {r} \in SUBSET Requests
        BY DEF TypeOK
      <3>4. /\ runs' \in RunTable /\ fences' \in FenceTable
            /\ waiting' \subseteq Requests
            /\ lastEpoch' \in [Sessions -> Nat] /\ issued' \subseteq Claim
        <4> HIDE DEF s, rs, fs, row, rows, ids
        <4>1. QED
          BY <2>1, <2>3, <3>2, <3>3, ClaimType
      <3>5. queueId' \in [Requests -> Nat] /\ lastQueueId' \in Nat
        BY <2>3 DEF TypeOK
      <3>6. UNCHANGED <<events, mutationVars>>
        BY <1>1 DEF ClaimExecution
      <3> HIDE DEF s, rs, fs, row, rows, ids
      <3>7. QED
        BY <3>4, <3>5, <3>6 DEF TypeOK, mutationVars, RunTable, FenceTable
    <2>4. QED
      BY <1>1, <2>2, <2>3 DEF ClaimExecution
  <1>2. ASSUME NEW scope \in SUBSET Sessions, ClaimNextQueuedExecution(scope, lag)
        PROVE  TypeOK'
    <2>1. /\ RunsAfterExpiry(scope, lag) \in RunTable
          /\ FencesAfterExpiry(scope, lag) \in FenceTable
          /\ waiting \in SUBSET Requests
      BY SweepType DEF TypeOK
    <2>2. /\ runs' \in RunTable /\ fences' \in FenceTable
          /\ waiting' \subseteq Requests
          /\ lastEpoch' \in [Sessions -> Nat] /\ issued' \subseteq Claim
      BY <1>2, <2>1, ClaimType DEF ClaimNextQueuedExecution
    <2>3. QED
      BY <1>2, <2>2 DEF ClaimNextQueuedExecution, TypeOK, mutationVars, RunTable, FenceTable
  <1>3. ASSUME NEW r \in Requests, BeginLegacy(r)
        PROVE  TypeOK'
    <2>1. NoRun("running") \in Run
      BY DEF NoRun, Run, ExecutionStates, Pending
    <2>2. QED
      BY <1>3, <2>1 DEF BeginLegacy, TypeOK, queueVars, mutationVars, claimVars
  <1>4. QED
    BY <1>1, <1>2, <1>3

\* So does every transaction of a worker.
LEMMA WorkerType ==
    ASSUME TypeOK, NEW lag \in Lags, WorkerStep(lag)
    PROVE  TypeOK'
  <1>1. ASSUME NEW c \in issued, VerifySessionFence(c, lag)
        PROVE  TypeOK'
    <2> DEFINE s == SessionOf[c.request]
               fs == FencesAfterExpiry({s}, lag)
    <2>1. c.request \in Requests /\ s \in Sessions
      BY SessionsAssumption DEF TypeOK, Claim
    <2>2. runs' \in RunTable /\ fs \in FenceTable
      BY <1>1, <2>1, SweepType DEF VerifySessionFence
    <2>3. Lease - lag \in Int
      BY LeaseAssumption DEF Lags
    <2>4. fences' \in FenceTable
      <3>1. CASE fences' = fs
        BY <2>2, <3>1
      <3>2. CASE Owns(fs, c) /\ fences' = [fs EXCEPT ![s].rem = Lease - lag]
        <4>1. fs[s] \in Fence
          BY <2>1, <2>2, <3>2 DEF Owns, FenceTable
        <4>2. [fs[s] EXCEPT !.rem = Lease - lag] \in Fence
          BY <2>3, <4>1 DEF Fence
        <4>3. QED
          BY <2>1, <2>2, <3>2, <4>2 DEF FenceTable
      <3>3. QED
        BY <1>1, <3>1, <3>2 DEF VerifySessionFence
    <2>5. QED
      BY <1>1, <2>2, <2>4
         DEF VerifySessionFence, TypeOK, queueVars, mutationVars, claimVars, RunTable, FenceTable
  <1>2. ASSUME NEW c \in issued, NEW outcome \in Outcomes, NEW rs \in RunTable,
               NEW fs \in FenceTable, Settle(rs, fs, c, outcome)
        PROVE  runs' \in RunTable /\ fences' \in FenceTable /\ events' \in EventTable
    <2>1. c.request \in Requests
      BY DEF TypeOK, Claim
    <2>2. outcome \in ExecutionStates
      BY DEF Outcomes, ExecutionStates, Settled, Pending
    <2>3. runs' \in RunTable
      BY <1>2, <2>1, <2>2 DEF Settle, RunTable, Run
    <2>4. WithMarker(events[c.request], "cancelled") \in Seq(EventTypes)
      BY <2>1, MarkerType DEF TypeOK, EventTypes, Terminal
    <2>5. events' \in EventTable
      BY <1>2, <2>1, <2>4 DEF Settle, EventTable, TypeOK
    <2>6. fences' \in FenceTable
      BY <1>2, <2>1, SessionsAssumption DEF Settle, FenceTable
    <2>7. QED
      BY <2>3, <2>5, <2>6
  <1>3. ASSUME NEW c \in issued, NEW outcome \in Outcomes, FinishExecution(c, outcome, lag)
        PROVE  TypeOK'
    <2> DEFINE s == SessionOf[c.request]
               rs == RunsAfterExpiry({s}, lag)
               fs == FencesAfterExpiry({s}, lag)
    <2>1. c.request \in Requests /\ rs \in RunTable /\ fs \in FenceTable /\ events \in EventTable
      BY SweepType, Scopes DEF TypeOK, Claim, EventTable
    <2>2. Effective(rs[c.request], outcome) \in Outcomes
      BY DEF Effective, Outcomes
    <2>3. runs' \in RunTable /\ fences' \in FenceTable /\ events' \in EventTable
      <3> HIDE DEF rs, fs
      <3>1. CASE Settle(rs, fs, c, Effective(rs[c.request], outcome))
        BY <1>2, <2>1, <2>2, <3>1
      <3>2. CASE runs' = rs /\ fences' = fs /\ events' = events
        BY <2>1, <3>2
      <3>3. QED
        BY <1>3, <3>1, <3>2 DEF FinishExecution, rs, fs
    <2>4. QED
      BY <1>3, <2>3 DEF FinishExecution, TypeOK, queueVars, mutationVars, claimVars,
                        RunTable, FenceTable, EventTable
  <1>4. ASSUME NEW c \in issued, RejectExecutionBeforeAgent(c, lag)
        PROVE  TypeOK'
    <2> DEFINE s == SessionOf[c.request]
               rs == RunsAfterExpiry({s}, lag)
               fs == FencesAfterExpiry({s}, lag)
    <2>1. c.request \in Requests /\ rs \in RunTable /\ fs \in FenceTable /\ events \in EventTable
      BY SweepType, Scopes DEF TypeOK, Claim, EventTable
    <2>2. "failed_safe" \in Outcomes
      BY DEF Outcomes
    <2>3. runs' \in RunTable /\ fences' \in FenceTable /\ events' \in EventTable
      <3> HIDE DEF rs, fs
      <3>1. CASE Settle(rs, fs, c, "failed_safe")
        BY <1>2, <2>1, <2>2, <3>1
      <3>2. CASE runs' = rs /\ fences' = fs /\ events' = events
        BY <2>1, <3>2
      <3>3. QED
        BY <1>4, <3>1, <3>2 DEF RejectExecutionBeforeAgent, rs, fs
    <2>4. QED
      BY <1>4, <2>3 DEF RejectExecutionBeforeAgent, TypeOK, queueVars, mutationVars, claimVars,
                        RunTable, FenceTable, EventTable
  <1>5. ASSUME NEW c \in issued \cup LegacyClaims, NEW type \in EventTypes,
               NEW id \in 1..Len(events[c.request]) + 1, AppendEvent(c, type, id, lag)
        PROVE  TypeOK'
    <2> DEFINE r == c.request
               scope == IF Keyed(r) /\ runs[r].exec = "running" THEN {SessionOf[r]} ELSE {}
               rs == RunsAfterExpiry(scope, lag)
    <2>1. r \in Requests
      BY SessionsAssumption DEF TypeOK, Claim, LegacyClaims
    <2>2. scope \in SUBSET Sessions
      BY <2>1, SessionsAssumption
    <2>3. rs \in RunTable /\ fences' \in FenceTable
      BY <1>5, <2>2, SweepType DEF AppendEvent
    <2>4. runs' \in RunTable
      <3>1. [rs EXCEPT ![r].closed = @ \/ type \in Terminal, ![r].old = FALSE]
              \in RunTable
        <4> DEFINE ends == type \in Terminal
                   row == [rs[r] EXCEPT !.closed = @ \/ ends, !.old = FALSE]
        <4>1. rs[r] \in Run /\ ends \in BOOLEAN
          <5> HIDE DEF rs
          <5>1. QED
            BY <2>1, <2>3 DEF RunTable
        <4>2. [rs EXCEPT ![r].closed = @ \/ ends, ![r].old = FALSE] = [rs EXCEPT ![r] = row]
          <5> HIDE DEF rs, ends
          <5>1. QED
            BY <2>1, <2>3, <4>1 DEF RunTable, Run
        <4>3. row \in Run
          <5> HIDE DEF rs, ends
          <5>1. QED
            BY <4>1 DEF Run
        <4> HIDE DEF row, rs
        <4>4. QED
          BY <2>1, <2>3, <4>2, <4>3 DEF RunTable
      <3>2. QED
        BY <1>5, <2>3, <3>1 DEF AppendEvent
    <2>5. events' \in EventTable
      <3>1. Append(events[r], type) \in Seq(EventTypes)
        BY <2>1 DEF TypeOK
      <3>2. events' = events \/ events' = [events EXCEPT ![r] = Append(@, type)]
        BY <1>5 DEF AppendEvent
      <3>3. QED
        BY <2>1, <3>1, <3>2 DEF EventTable, TypeOK
    <2>6. QED
      BY <1>5, <2>3, <2>4, <2>5 DEF AppendEvent, TypeOK, queueVars, mutationVars, claimVars,
                                    RunTable, FenceTable, EventTable
  <1>6. QED
    BY <1>1, <1>3, <1>4, <1>5 DEF WorkerStep

\* So does every cancellation.
LEMMA CancellationType ==
    ASSUME TypeOK, NEW lag \in Lags
    PROVE  /\ \A r \in Requests : MarkInterruptedExecution(r, lag) => TypeOK'
           /\ \A r \in Requests : RequestExecutionCancellation(r, lag) => TypeOK'
           /\ \A s \in Sessions : RequestSessionCancellation(s, lag) => TypeOK'
  <1>1. ASSUME NEW s \in Sessions, ExpireOnly({s}, lag)
        PROVE  TypeOK'
    <2>1. runs' \in RunTable /\ fences' \in FenceTable
      BY <1>1, SweepType DEF ExpireOnly
    <2>2. QED
      BY <1>1, <2>1
         DEF ExpireOnly, TypeOK, queueVars, mutationVars, claimVars, RunTable, FenceTable
  <1>2. ASSUME NEW s \in Sessions, NEW targets, RequestCancellation(s, targets, lag)
        PROVE  TypeOK'
    <2> DEFINE rs == RunsAfterExpiry({s}, lag)
    <2>1. rs \in RunTable /\ fences' \in FenceTable
      BY <1>2, SweepType DEF RequestCancellation
    <2>2. runs' \in RunTable /\ events' \in EventTable /\ waiting' \subseteq Requests
      BY <1>2, <2>1, CancelType DEF RequestCancellation
    <2>3. QED
      BY <1>2, <2>1, <2>2 DEF RequestCancellation, TypeOK, mutationVars, claimVars,
                              RunTable, FenceTable, EventTable
  <1>3. QED
    BY <1>1, <1>2, SessionsAssumption
       DEF MarkInterruptedExecution, RequestExecutionCancellation, RequestSessionCancellation

\* So does every transaction of a delete or a clear.
LEMMA MutationType ==
    ASSUME TypeOK, NEW lag \in Lags, NEW s \in Sessions, MutationStep(s, lag)
    PROVE  TypeOK'
  <1> DEFINE swept == RunsAfterExpiry({s}, lag)
  <1>1. swept \in RunTable /\ FencesAfterExpiry({s}, lag) \in FenceTable
    BY SweepType
  <1>2. ASSUME NEW kind \in {"clear_context", "delete_session"},
               BeginSessionMutation(s, kind, lag)
        PROVE  TypeOK'
    <2> DEFINE rs == CancelledRuns(swept, Of(s))
               es == CancelledEvents(swept, Of(s))
    <2>1. rs \in RunTable /\ es \in EventTable /\ StillQueued(swept, Of(s)) \subseteq Requests
      BY <1>1, CancelType
    <2>2. runs' \in RunTable /\ events' \in EventTable
      BY <1>2, <2>1, SupersedeType DEF BeginSessionMutation
    <2>3. opened' \in [Sessions -> Nat] /\ mutations' \in [Sessions -> Mutation \cup {NoMutation}]
      <3> DEFINE row == [token |-> opened[s] + 1, kind |-> kind, before |-> generation[s],
                         after |-> -1, completed |-> FALSE]
      <3>1. row \in Mutation
        BY DEF Mutation, TypeOK
      <3>2. \/ opened' = [opened EXCEPT ![s] = @ + 1] /\ mutations' = [mutations EXCEPT ![s] = row]
            \/ UNCHANGED <<opened, mutations>>
        BY <1>2 DEF BeginSessionMutation
      <3>3. /\ opened \in [Sessions -> Nat]
            /\ mutations \in [Sessions -> Mutation \cup {NoMutation}]
        BY DEF TypeOK
      <3> HIDE DEF row
      <3>4. QED
        BY <3>1, <3>2, <3>3
    <2>4. /\ fences' \in FenceTable /\ waiting' \subseteq Requests
          /\ UNCHANGED <<queueId, lastQueueId, generation, claimVars>>
      BY <1>1, <1>2, <2>1 DEF BeginSessionMutation
    <2>5. QED
      BY <2>2, <2>3, <2>4 DEF TypeOK, claimVars, RunTable, FenceTable, EventTable
  <1>3. ASSUME NEW token \in 1..opened[s], AdvanceContextGeneration(s, token, lag)
        PROVE  TypeOK'
    <2>1. mutations[s] \in Mutation
      BY <1>3 DEF AdvanceContextGeneration, Presents, TypeOK
    <2>2. mutations[s].before + 1 \in Nat
      BY <2>1 DEF Mutation
    <2>3. [mutations[s] EXCEPT !.after = mutations[s].before + 1] \in Mutation
      BY <2>1, <2>2 DEF Mutation
    <2>4. mutations' \in [Sessions -> Mutation \cup {NoMutation}]
      BY <1>3, <2>3 DEF AdvanceContextGeneration, TypeOK
    <2>5. generation' \in [Sessions -> Nat]
      BY <1>3, <2>2 DEF AdvanceContextGeneration, TypeOK
    <2>6. QED
      BY <1>1, <1>3, <2>4, <2>5
         DEF AdvanceContextGeneration, TypeOK, queueVars, claimVars, RunTable, FenceTable
  <1>4. ASSUME NEW token \in 1..opened[s], SessionMutationQuiescence(s, token, lag)
        PROVE  TypeOK'
    BY <1>1, <1>4 DEF SessionMutationQuiescence, ExpireOnly, TypeOK, queueVars, mutationVars,
                      claimVars, RunTable, FenceTable
  <1>5. ASSUME NEW token \in 1..opened[s], ReleaseSessionMutation(s, token, lag)
        PROVE  TypeOK'
    BY <1>1, <1>5
       DEF ReleaseSessionMutation, TypeOK, queueVars, claimVars, RunTable, FenceTable
  <1>6. ASSUME NEW token \in 1..opened[s], RecordDeleteCompletion(s, token, lag)
        PROVE  TypeOK'
    <2>1. mutations[s] \in Mutation
      BY <1>6 DEF RecordDeleteCompletion, Presents, TypeOK
    <2>2. [mutations[s] EXCEPT !.completed = TRUE] \in Mutation
      BY <2>1 DEF Mutation
    <2>3. mutations' \in [Sessions -> Mutation \cup {NoMutation}]
      BY <1>6, <2>2 DEF RecordDeleteCompletion, TypeOK
    <2>4. QED
      BY <1>1, <1>6, <2>3
         DEF RecordDeleteCompletion, TypeOK, queueVars, claimVars, RunTable, FenceTable
  <1>7. QED
    BY <1>2, <1>3, <1>4, <1>5, <1>6 DEF MutationStep

\* So does the maintenance pass.
LEMMA RetentionType ==
    ASSUME TypeOK
    PROVE  /\ Reap => TypeOK'
           /\ \A r \in Requests : GrowOld(r) => TypeOK'
           /\ Tick => TypeOK'
  <1>1. ASSUME Reap PROVE TypeOK'
    <2>1. NoRun("reaped") \in Run
      BY DEF NoRun, Run, ExecutionStates
    <2>2. QED
      BY <1>1, <2>1 DEF Reap, TypeOK, mutationVars, claimVars
  <1>2. ASSUME NEW r \in Requests, GrowOld(r) PROVE TypeOK'
    BY <1>2 DEF GrowOld, TypeOK, Run, queueVars, mutationVars, claimVars
  <1>3. ASSUME Tick PROVE TypeOK'
    <2>1. fences' \in [Sessions -> Fence \cup {NoFence}]
      <3>1. \A s \in Sessions : fences[s] # NoFence =>
              [fences[s] EXCEPT !.rem = @ - 1] \in Fence
        <4>1. \A f \in Fence : [f EXCEPT !.rem = @ - 1] \in Fence
          BY DEF Fence
        <4>2. \A s \in Sessions : fences[s] # NoFence => fences[s] \in Fence
          BY DEF TypeOK
        <4>3. QED
          BY <4>1, <4>2
      <3>2. QED
        BY <1>3, <3>1 DEF Tick, TypeOK
    <2>2. QED
      BY <1>3, <2>1 DEF Tick, TypeOK, queueVars, mutationVars, claimVars
  <1>4. QED
    BY <1>1, <1>2, <1>3

\* Every step leaves the tables well formed.
LEMMA TypeStep == TypeOK /\ [Next]_vars => TypeOK'
  <1> SUFFICES ASSUME TypeOK, [Next]_vars PROVE TypeOK'
    OBVIOUS
  <1>1. CASE UNCHANGED vars
    BY <1>1 DEF vars, queueVars, mutationVars, claimVars, TypeOK
  <1>2. CASE Next
    <2>1. \A s \in Sessions : {s} \in SUBSET Sessions
      OBVIOUS
    <2>2. Sessions \in SUBSET Sessions
      OBVIOUS
    <2>3. \A r \in Requests : BeginLegacy(r) => TypeOK'
      <3>1. 0 \in Lags
        BY LeaseAssumption DEF Lags
      <3>2. QED
        BY <3>1, AdmissionType
    <2>4. QED
      BY <1>2, <2>1, <2>2, <2>3, AdmissionType, WorkerType, CancellationType,
         MutationType, RetentionType DEF Next
  <1>3. QED
    BY <1>1, <1>2

\* The tables of the ledger stay well formed: every execution state is one of
\* the CHECK constraint's, every fence and mutation row is complete.
THEOREM TypeCorrect == Spec => []TypeOK
  BY InitType, TypeStep, PTL DEF Spec

(***************************************************************************)
(* Session authority.                                                      *)
(*                                                                         *)
(* FenceOwnership and ClaimedOnce are not inductive: that a claim draws a  *)
(* fresh epoch for a request nobody was handed before needs the history    *)
(* part below.  Both parts are stated of tables rs and fs, because every   *)
(* transaction first sweeps and then changes what the sweep left.          *)
(***************************************************************************)

OwnershipOf(rs, fs, le) ==
    /\ \A s \in Sessions : fs[s] # NoFence =>
         /\ SessionOf[fs[s].request] = s
         /\ rs[fs[s].request].exec = "running"
         /\ rs[fs[s].request].epoch = fs[s].epoch
         /\ fs[s].epoch = le[s]
    /\ \A r \in Requests : Keyed(r) /\ rs[r].exec = "running" =>
         Owns(fs, [request |-> r, epoch |-> rs[r].epoch])

\* A request that was handed out is past its queue, and its epoch was drawn.
HistoryOf(rs, le, claims) ==
    /\ \A c \in claims : /\ rs[c.request].exec \notin {"absent", "queued"}
                         /\ c.epoch <= le[SessionOf[c.request]]
    /\ \A c, d \in claims :
        (c.request = d.request
         \/ (SessionOf[c.request] = SessionOf[d.request] /\ c.epoch = d.epoch)) => c = d

SafeTables(rs, fs) == OwnershipOf(rs, fs, lastEpoch) /\ HistoryOf(rs, lastEpoch, issued)

Authority == SafeTables(runs, fences)

\* The inductive invariant implies both properties of the lease protocol.
LEMMA AuthorityMeaning == Authority => FenceOwnership /\ ClaimedOnce
  BY DEF Authority, SafeTables, OwnershipOf, HistoryOf, FenceOwnership, ClaimedOnce

\* rs2, fs2 differ from rs1, fs1 only in what authority does not depend on.
Calm(rs1, fs1, rs2, fs2) ==
    /\ \A r \in Requests :
        /\ rs1[r].exec = "running" => rs2[r].exec = "running" /\ rs2[r].epoch = rs1[r].epoch
        /\ Keyed(r) /\ rs2[r].exec = "running" => rs1[r].exec = "running"
        /\ rs1[r].exec \notin {"absent", "queued"} => rs2[r].exec \notin {"absent", "queued"}
    /\ \A s \in Sessions :
        \/ fs2[s] = fs1[s]
        \/ /\ fs1[s] # NoFence /\ fs2[s] # NoFence
           /\ fs2[s].request = fs1[s].request /\ fs2[s].epoch = fs1[s].epoch

\* A step that claims nothing and gives no fence away keeps both tables safe.
LEMMA CalmSafe ==
    ASSUME TypeOK, NEW rs1, NEW fs1 \in FenceTable, NEW rs2, NEW fs2,
           SafeTables(rs1, fs1), Calm(rs1, fs1, rs2, fs2)
    PROVE  SafeTables(rs2, fs2)
  <1>1. HistoryOf(rs2, lastEpoch, issued)
    BY DEF HistoryOf, SafeTables, Calm, TypeOK, Claim
  <1>2. ASSUME NEW s \in Sessions, fs2[s] # NoFence
        PROVE  /\ SessionOf[fs2[s].request] = s
               /\ rs2[fs2[s].request].exec = "running"
               /\ rs2[fs2[s].request].epoch = fs2[s].epoch
               /\ fs2[s].epoch = lastEpoch[s]
    <2>1. fs1[s] # NoFence /\ fs2[s].request = fs1[s].request /\ fs2[s].epoch = fs1[s].epoch
      BY <1>2 DEF Calm
    <2>2. fs1[s].request \in Requests
      BY <2>1 DEF FenceTable, Fence
    <2>3. QED
      BY <2>1, <2>2 DEF Calm, SafeTables, OwnershipOf
  <1>3. ASSUME NEW r \in Requests, Keyed(r), rs2[r].exec = "running"
        PROVE  Owns(fs2, [request |-> r, epoch |-> rs2[r].epoch])
    <2>1. rs1[r].exec = "running" /\ rs2[r].epoch = rs1[r].epoch
      BY <1>3 DEF Calm
    <2>2. Owns(fs1, [request |-> r, epoch |-> rs1[r].epoch])
      BY <1>3, <2>1 DEF SafeTables, OwnershipOf
    <2>3. SessionOf[r] \in Sessions
      BY SessionsAssumption
    <2>4. QED
      BY <2>1, <2>2, <2>3 DEF Owns, Calm
  <1>4. QED
    BY <1>1, <1>2, <1>3 DEF SafeTables, OwnershipOf

\* The sweep drops exactly the fences whose runs it moves to in_doubt.
LEMMA SweepSafe ==
    ASSUME TypeOK, Authority, NEW scope, NEW lag
    PROVE  SafeTables(RunsAfterExpiry(scope, lag), FencesAfterExpiry(scope, lag))
  <1> DEFINE rs == RunsAfterExpiry(scope, lag)
             fs == FencesAfterExpiry(scope, lag)
  <1>1. HistoryOf(rs, lastEpoch, issued)
    <2>1. \A r \in Requests : runs[r].exec \notin {"absent", "queued"}
                                => rs[r].exec \notin {"absent", "queued"}
      BY DEF RunsAfterExpiry, TypeOK, Run
    <2>2. QED
      BY <2>1 DEF HistoryOf, Authority, SafeTables, TypeOK, Claim
  <1>2. ASSUME NEW s \in Sessions, fs[s] # NoFence
        PROVE  /\ SessionOf[fs[s].request] = s
               /\ rs[fs[s].request].exec = "running"
               /\ rs[fs[s].request].epoch = fs[s].epoch
               /\ fs[s].epoch = lastEpoch[s]
    <2>1. fs[s] = fences[s] /\ fences[s] # NoFence /\ ~(s \in scope /\ Expired(s, lag))
      BY <1>2 DEF FencesAfterExpiry
    <2> DEFINE r == fences[s].request
    <2>2. r \in Requests
      BY <2>1 DEF TypeOK, Fence
    <2>3. /\ SessionOf[r] = s /\ runs[r].exec = "running"
          /\ runs[r].epoch = fences[s].epoch /\ fences[s].epoch = lastEpoch[s]
      BY <2>1 DEF Authority, SafeTables, OwnershipOf
    <2>4. Owns(fences, [request |-> r, epoch |-> runs[r].epoch])
      BY <2>1, <2>3 DEF Owns
    <2>5. rs[r] = runs[r]
      BY <2>1, <2>2, <2>3, <2>4 DEF RunsAfterExpiry, HoldsLiveFence
    <2>6. QED
      BY <2>1, <2>3, <2>5
  <1>3. ASSUME NEW r \in Requests, Keyed(r), rs[r].exec = "running"
        PROVE  Owns(fs, [request |-> r, epoch |-> rs[r].epoch])
    <2>1. rs[r] = runs[r] /\ ~(SessionOf[r] \in scope /\ ~HoldsLiveFence(r, lag))
      BY <1>3 DEF RunsAfterExpiry, TypeOK, Run
    <2>2. Owns(fences, [request |-> r, epoch |-> runs[r].epoch])
      BY <1>3, <2>1 DEF Authority, SafeTables, OwnershipOf
    <2>3. fs[SessionOf[r]] = fences[SessionOf[r]]
      BY <2>1, SessionsAssumption DEF FencesAfterExpiry, HoldsLiveFence
    <2>4. QED
      BY <2>1, <2>2, <2>3 DEF Owns
  <1>4. QED
    BY <1>1, <1>2, <1>3 DEF SafeTables, OwnershipOf

\* A settlement ends one run and frees its session, nothing else.
LEMMA SettleSafe ==
    ASSUME TypeOK, NEW rs \in RunTable, NEW fs \in FenceTable, SafeTables(rs, fs),
           NEW c \in Claim, NEW outcome \in Outcomes, Settle(rs, fs, c, outcome),
           Owns(fs, c), rs[c.request].exec = "running", rs[c.request].epoch = c.epoch
    PROVE  SafeTables(runs', fences')
  <1> DEFINE q == c.request
             sq == SessionOf[q]
  <1>1. q \in Requests /\ sq \in Sessions
    BY SessionsAssumption DEF Claim
  <1>2. /\ \A r \in Requests : r # q => runs'[r] = rs[r]
        /\ runs'[q].exec = outcome
        /\ \A s \in Sessions : s # sq => fences'[s] = fs[s]
        /\ fences'[sq] = NoFence
    BY <1>1 DEF Settle, RunTable, FenceTable, Run
  <1>3. outcome \notin {"absent", "queued", "running"}
    BY DEF Outcomes
  <1>4. HistoryOf(runs', lastEpoch, issued)
    BY <1>2, <1>3 DEF HistoryOf, SafeTables, TypeOK, Claim
  <1>5. \A s \in Sessions : fences'[s] # NoFence =>
            fences'[s] = fs[s] /\ fs[s].request # q /\ fs[s].request \in Requests
    BY <1>2 DEF SafeTables, OwnershipOf, FenceTable, Fence
  <1>6. \A r \in Requests : Keyed(r) /\ runs'[r].exec = "running" =>
            runs'[r] = rs[r] /\ r # q /\ SessionOf[r] # sq
    BY <1>1, <1>2, <1>3 DEF SafeTables, OwnershipOf, Owns
  <1>7. \A r \in Requests : Keyed(r) /\ runs'[r].exec = "running" =>
            Owns(fences', [request |-> r, epoch |-> runs'[r].epoch])
    BY <1>2, <1>6, SessionsAssumption DEF SafeTables, OwnershipOf, Owns
  <1>8. \A s \in Sessions : fences'[s] # NoFence =>
         /\ SessionOf[fences'[s].request] = s
         /\ runs'[fences'[s].request].exec = "running"
         /\ runs'[fences'[s].request].epoch = fences'[s].epoch
         /\ fences'[s].epoch = lastEpoch[s]
    BY <1>2, <1>5 DEF SafeTables, OwnershipOf
  <1>9. QED
    BY <1>4, <1>7, <1>8 DEF SafeTables, OwnershipOf

\* A claim hands out a request that was never handed out, under a new epoch,
\* in a session that no running keyed row claims.
LEMMA ClaimSafe ==
    ASSUME TypeOK, NEW rs \in RunTable, NEW fs \in FenceTable, SafeTables(rs, fs),
           NEW queue \in SUBSET Requests, NEW ids, NEW scope, NEW lag \in Lags,
           ClaimNextQueued(rs, fs, queue, ids, scope, lag)
    PROVE  Authority'
  <1>1. CASE runs' = rs /\ fences' = fs /\ UNCHANGED claimVars
    BY <1>1 DEF Authority, SafeTables, claimVars
  <1>2. CASE \E r \in Claimable(rs, fs, queue, scope) : ClaimEntry(r, rs, fs, queue, lag)
    <2>1. PICK q \in Claimable(rs, fs, queue, scope) : ClaimEntry(q, rs, fs, queue, lag)
      BY <1>2
    <2> DEFINE sq == SessionOf[q]
               e == lastEpoch[sq] + 1
               new == [request |-> q, epoch |-> e]
    <2>2. /\ q \in Requests /\ sq \in Sessions
          /\ rs[q].exec = "queued" /\ fs[sq] = NoFence
      BY SessionsAssumption DEF Claimable
    <2>3. lastEpoch[sq] \in Nat /\ e \in Nat /\ e > lastEpoch[sq]
      BY <2>2 DEF TypeOK
    <2>4. /\ \A r \in Requests : r # q => runs'[r] = rs[r]
          /\ runs'[q].exec = "running" /\ runs'[q].epoch = e
      BY <2>1, <2>2 DEF ClaimEntry, NextEpoch, RunTable, Run
    <2>5. /\ \A s \in Sessions : s # sq => fences'[s] = fs[s]
          /\ fences'[sq] = [request |-> q, epoch |-> e, rem |-> Lease - lag]
      BY <2>1, <2>2 DEF ClaimEntry, NextEpoch, FenceTable
    <2>6. /\ \A s \in Sessions : s # sq => lastEpoch'[s] = lastEpoch[s]
          /\ lastEpoch'[sq] = e
          /\ issued' = issued \cup {new}
      BY <2>1, <2>2 DEF ClaimEntry, NextEpoch, TypeOK
    <2>7. fences'[sq] # NoFence
      <3>1. Lease - lag \in Int
        BY LeaseAssumption DEF Lags
      <3>2. fences'[sq] \in Fence
        BY <2>2, <2>3, <2>5, <3>1 DEF Fence
      <3>3. QED
        BY <3>2, NullAssumption
    <2>8. HistoryOf(runs', lastEpoch', issued')
      <3>1. \A c \in issued : /\ c.request \in Requests /\ c.epoch \in Nat
                              /\ SessionOf[c.request] \in Sessions
                              /\ c.request # q
                              /\ c.epoch <= lastEpoch[SessionOf[c.request]]
                              /\ rs[c.request].exec \notin {"absent", "queued"}
        BY <2>2, SessionsAssumption DEF SafeTables, HistoryOf, TypeOK, Claim
      <3>2. \A c \in issued' : /\ runs'[c.request].exec \notin {"absent", "queued"}
                               /\ c.epoch <= lastEpoch'[SessionOf[c.request]]
        <4>1. ASSUME NEW c \in issued
              PROVE  /\ runs'[c.request].exec \notin {"absent", "queued"}
                     /\ c.epoch <= lastEpoch'[SessionOf[c.request]]
          <5>1. lastEpoch[SessionOf[c.request]] \in Nat
            BY <3>1 DEF TypeOK
          <5>2. lastEpoch'[SessionOf[c.request]] >= lastEpoch[SessionOf[c.request]]
            BY <2>3, <2>6, <3>1, <5>1
          <5>3. lastEpoch'[SessionOf[c.request]] \in Nat
            BY <2>3, <2>6, <3>1, <5>1
          <5>4. QED
            BY <2>4, <3>1, <5>1, <5>2, <5>3
        <4>2. new.request = q /\ new.epoch = e
          OBVIOUS
        <4>3. QED
          BY <2>3, <2>4, <2>6, <4>1, <4>2
      <3>3. ASSUME NEW c \in issued
            PROVE  /\ c.request # new.request
                   /\ ~(SessionOf[c.request] = SessionOf[new.request] /\ c.epoch = new.epoch)
        <4>1. SessionOf[c.request] = sq => c.epoch <= lastEpoch[sq]
          BY <3>1
        <4>2. c.epoch \in Nat
          BY <3>1
        <4>3. QED
          BY <2>3, <3>1, <4>1, <4>2
      <3>4. QED
        BY <2>6, <3>2, <3>3 DEF SafeTables, HistoryOf
    <2>9. ASSUME NEW s \in Sessions, fences'[s] # NoFence
          PROVE  /\ SessionOf[fences'[s].request] = s
                 /\ runs'[fences'[s].request].exec = "running"
                 /\ runs'[fences'[s].request].epoch = fences'[s].epoch
                 /\ fences'[s].epoch = lastEpoch'[s]
      <3>1. CASE s = sq
        BY <2>2, <2>4, <2>5, <2>6, <3>1
      <3>2. CASE s # sq
        <4>1. fs[s] # NoFence /\ fs[s].request \in Requests /\ fences'[s] = fs[s]
          BY <2>5, <2>9, <3>2 DEF FenceTable, Fence
        <4>2. fs[s].request # q
          BY <3>2, <4>1 DEF SafeTables, OwnershipOf
        <4>3. QED
          BY <2>4, <2>6, <3>2, <4>1, <4>2 DEF SafeTables, OwnershipOf
      <3>3. QED
        BY <3>1, <3>2
    <2>10. ASSUME NEW r \in Requests, Keyed(r), runs'[r].exec = "running"
           PROVE  Owns(fences', [request |-> r, epoch |-> runs'[r].epoch])
      <3>1. CASE r = q
        BY <2>4, <2>5, <2>7, <3>1 DEF Owns
      <3>2. CASE r # q
        <4>1. Owns(fs, [request |-> r, epoch |-> rs[r].epoch]) /\ runs'[r] = rs[r]
          BY <2>4, <2>10, <3>2 DEF SafeTables, OwnershipOf
        <4>2. SessionOf[r] # sq /\ SessionOf[r] \in Sessions
          BY <2>2, <4>1, SessionsAssumption DEF Owns
        <4>3. QED
          BY <2>5, <4>1, <4>2 DEF Owns
      <3>3. QED
        BY <3>1, <3>2
    <2>11. QED
      BY <2>8, <2>9, <2>10 DEF Authority, SafeTables, OwnershipOf
  <1>3. QED
    BY <1>1, <1>2 DEF ClaimNextQueued

\* Accepting a request preserves the lease authority.
LEMMA AdmissionSafe ==
    ASSUME TypeOK, Authority, NEW lag \in Lags
    PROVE  /\ \A r \in Requests : ClaimExecution(r, lag) => Authority'
           /\ \A scope \in SUBSET Sessions : ClaimNextQueuedExecution(scope, lag) => Authority'
           /\ \A r \in Requests : BeginLegacy(r) => Authority'
  <1>1. ASSUME NEW r \in Requests, ClaimExecution(r, lag)
        PROVE  Authority'
    <2> DEFINE s == SessionOf[r]
               rs == RunsAfterExpiry({s}, lag)
               fs == FencesAfterExpiry({s}, lag)
               row == [NoRun("queued") EXCEPT !.gen = generation[s]]
               rows == [q \in Requests |-> IF q = r THEN row ELSE rs[q]]
               ids == [queueId EXCEPT ![r] = lastQueueId + 1]
    <2>1. rs \in RunTable /\ fs \in FenceTable /\ SafeTables(rs, fs)
      BY SweepType, SweepSafe, Scopes
    <2>2. waiting \in SUBSET Requests /\ waiting \cup {r} \in SUBSET Requests
      BY DEF TypeOK
    <2>3. CASE ClaimNextQueued(rs, fs, waiting, queueId, {s}, lag)
      <3> HIDE DEF rs, fs
      <3>1. QED
        BY <2>1, <2>2, <2>3, ClaimSafe
    <2>4. CASE Twins(r) = {} /\ ClaimNextQueued(rows, fs, waiting \cup {r}, ids, {s}, lag)
      <3>1. row \in Run /\ row.exec = "queued"
        BY SessionsAssumption DEF NoRun, Run, ExecutionStates, Pending, TypeOK
      <3>2. rows \in RunTable
        BY <2>1, <3>1 DEF RunTable
      <3>3. Keyed(r) /\ runs[r].exec = "absent"
        BY <1>1, <2>4 DEF ClaimExecution, Twins, Of, HasRow
      <3>4. rs[r].exec = "absent"
        BY <3>3 DEF RunsAfterExpiry
      <3> HIDE DEF rs, fs, row
      <3>5. Calm(rs, fs, rows, fs)
        BY <3>1, <3>4 DEF Calm
      <3>6. SafeTables(rows, fs)
        BY <2>1, <3>5, CalmSafe
      <3> HIDE DEF rows, ids
      <3>7. QED
        BY <2>1, <2>2, <2>4, <3>2, <3>6, ClaimSafe
    <2>5. QED
      BY <1>1, <2>3, <2>4 DEF ClaimExecution
  <1>2. ASSUME NEW scope \in SUBSET Sessions, ClaimNextQueuedExecution(scope, lag)
        PROVE  Authority'
    <2>1. /\ RunsAfterExpiry(scope, lag) \in RunTable
          /\ FencesAfterExpiry(scope, lag) \in FenceTable
          /\ waiting \in SUBSET Requests
      BY SweepType DEF TypeOK
    <2>2. SafeTables(RunsAfterExpiry(scope, lag), FencesAfterExpiry(scope, lag))
      BY SweepSafe
    <2>3. QED
      BY <1>2, <2>1, <2>2, ClaimSafe DEF ClaimNextQueuedExecution
  <1>3. ASSUME NEW r \in Requests, BeginLegacy(r)
        PROVE  Authority'
    <2>1. Calm(runs, fences, runs', fences')
      BY <1>3 DEF BeginLegacy, Calm, NoRun, Keyed, TypeOK
    <2>2. fences \in FenceTable /\ UNCHANGED claimVars
      BY <1>3 DEF BeginLegacy, TypeOK, FenceTable
    <2>3. SafeTables(runs', fences')
      BY <2>1, <2>2, CalmSafe DEF Authority
    <2>4. QED
      BY <2>2, <2>3 DEF Authority, SafeTables, claimVars
  <1>4. QED
    BY <1>1, <1>2, <1>3

\* A step that leaves calm, swept tables keeps the authority.
LEMMA CalmStep ==
    ASSUME TypeOK, Authority, NEW scope \in SUBSET Sessions, NEW lag \in Lags,
           Calm(RunsAfterExpiry(scope, lag), FencesAfterExpiry(scope, lag), runs', fences'),
           UNCHANGED claimVars
    PROVE  Authority'
  <1>1. FencesAfterExpiry(scope, lag) \in FenceTable
    BY SweepType
  <1>2. SafeTables(RunsAfterExpiry(scope, lag), FencesAfterExpiry(scope, lag))
    BY SweepSafe
  <1>3. SafeTables(runs', fences')
    BY <1>1, <1>2, CalmSafe
  <1>4. QED
    BY <1>3 DEF Authority, SafeTables, claimVars

\* Tables that do not change are calm.
LEMMA CalmReflexive == \A rs, fs : Calm(rs, fs, rs, fs)
  BY DEF Calm

\* A cancellation ends queued runs and leaves running ones to their worker.
LEMMA CancelCalm ==
    ASSUME NEW rs \in RunTable, NEW fs, NEW targets
    PROVE  Calm(rs, fs, CancelledRuns(rs, targets), fs)
  <1>1. \A run \in Run :
            /\ CancelRow(run).epoch = run.epoch
            /\ CancelRow(run).exec = IF run.exec = "queued" THEN "cancelled" ELSE run.exec
    BY DEF CancelRow, Run
  <1>2. \A r \in Requests :
            CancelledRuns(rs, targets)[r] \in {rs[r], CancelRow(rs[r])} /\ rs[r] \in Run
    BY DEF CancelledRuns, RunTable
  <1>3. QED
    BY <1>1, <1>2 DEF Calm

\* Every transaction of a worker preserves the lease authority.
LEMMA WorkerSafe ==
    ASSUME TypeOK, Authority, NEW lag \in Lags, WorkerStep(lag)
    PROVE  Authority'
  <1>1. ASSUME NEW c \in issued, VerifySessionFence(c, lag)
        PROVE  Authority'
    <2> DEFINE s == SessionOf[c.request]
               rs == RunsAfterExpiry({s}, lag)
               fs == FencesAfterExpiry({s}, lag)
    <2>0. c.request \in Requests /\ s \in Sessions /\ {s} \in SUBSET Sessions
      BY SessionsAssumption DEF TypeOK, Claim
    <2>1. c.request \in Requests /\ s \in Sessions /\ fs \in FenceTable
      BY <2>0, SweepType
    <2>2. Calm(rs, fs, runs', fences')
      <3>1. CASE fences' = fs
        BY <1>1, <3>1, CalmReflexive DEF VerifySessionFence
      <3>2. CASE Owns(fs, c) /\ fences' = [fs EXCEPT ![s].rem = Lease - lag]
        <4>1. fs[s] \in Fence
          BY <2>1, <3>2 DEF Owns, FenceTable
        <4>2. Lease - lag \in Int
          BY LeaseAssumption DEF Lags
        <4>3. fences'[s] \in Fence /\ fences'[s].request = fs[s].request
              /\ fences'[s].epoch = fs[s].epoch
          BY <2>1, <3>2, <4>1, <4>2 DEF FenceTable, Fence
        <4>4. fences'[s] # NoFence /\ fs[s] # NoFence
          BY <4>1, <4>3, NullAssumption
        <4>5. \A x \in Sessions : x # s => fences'[x] = fs[x]
          BY <2>1, <3>2 DEF FenceTable
        <4>6. runs' = rs
          BY <1>1 DEF VerifySessionFence
        <4>7. QED
          BY <4>3, <4>4, <4>5, <4>6 DEF Calm
      <3>3. QED
        BY <1>1, <3>1, <3>2 DEF VerifySessionFence
    <2>3. {s} \in SUBSET Sessions /\ UNCHANGED claimVars
      BY <1>1, <2>1 DEF VerifySessionFence
    <2>4. QED
      BY <2>2, <2>3, CalmStep
  <1>2. ASSUME NEW c \in issued, NEW outcome \in Outcomes,
               LET s == SessionOf[c.request]
                   rs == RunsAfterExpiry({s}, lag)
                   fs == FencesAfterExpiry({s}, lag)
               IN IF Owns(fs, c) /\ rs[c.request].exec = "running" /\ rs[c.request].epoch = c.epoch
                  THEN Settle(rs, fs, c, outcome)
                  ELSE runs' = rs /\ fences' = fs,
               UNCHANGED claimVars
        PROVE  Authority'
    <2> DEFINE s == SessionOf[c.request]
               rs == RunsAfterExpiry({s}, lag)
               fs == FencesAfterExpiry({s}, lag)
    <2>1. c \in Claim /\ s \in Sessions /\ {s} \in SUBSET Sessions
      BY SessionsAssumption DEF TypeOK, Claim
    <2>2. rs \in RunTable /\ fs \in FenceTable /\ SafeTables(rs, fs)
      BY <2>1, SweepType, SweepSafe
    <2>3. CASE /\ Owns(fs, c) /\ rs[c.request].exec = "running"
               /\ rs[c.request].epoch = c.epoch /\ Settle(rs, fs, c, outcome)
      <3> HIDE DEF rs, fs
      <3>1. SafeTables(runs', fences')
        BY <2>1, <2>2, <2>3, SettleSafe
      <3>2. QED
        BY <1>2, <3>1 DEF Authority, SafeTables, claimVars
    <2>4. CASE runs' = rs /\ fences' = fs
      BY <1>2, <2>1, <2>4, CalmReflexive, CalmStep
    <2>5. QED
      BY <1>2, <2>3, <2>4
  <1>3. ASSUME NEW c \in issued, NEW outcome \in Outcomes, FinishExecution(c, outcome, lag)
        PROVE  Authority'
    <2> DEFINE rs == RunsAfterExpiry({SessionOf[c.request]}, lag)
    <2>1. Effective(rs[c.request], outcome) \in Outcomes
      BY DEF Effective, Outcomes
    <2>2. QED
      BY <1>2, <1>3, <2>1 DEF FinishExecution
  <1>4. ASSUME NEW c \in issued, RejectExecutionBeforeAgent(c, lag)
        PROVE  Authority'
    <2> DEFINE s == SessionOf[c.request]
               rs == RunsAfterExpiry({s}, lag)
               fs == FencesAfterExpiry({s}, lag)
    <2>1. c \in Claim /\ s \in Sessions /\ {s} \in SUBSET Sessions
      BY SessionsAssumption DEF TypeOK, Claim
    <2>2. rs \in RunTable /\ fs \in FenceTable /\ SafeTables(rs, fs)
      BY <2>1, SweepType, SweepSafe
    <2>3. UNCHANGED claimVars /\ "failed_safe" \in Outcomes
      BY <1>4 DEF RejectExecutionBeforeAgent, Outcomes
    <2>4. CASE /\ Owns(fs, c) /\ rs[c.request].exec = "running"
               /\ rs[c.request].epoch = c.epoch /\ Settle(rs, fs, c, "failed_safe")
      <3> HIDE DEF rs, fs
      <3>1. SafeTables(runs', fences')
        BY <2>1, <2>2, <2>3, <2>4, SettleSafe
      <3>2. QED
        BY <2>3, <3>1 DEF Authority, SafeTables, claimVars
    <2>5. CASE runs' = rs /\ fences' = fs
      BY <2>1, <2>3, <2>5, CalmReflexive, CalmStep
    <2>6. QED
      BY <1>4, <2>4, <2>5 DEF RejectExecutionBeforeAgent
  <1>5. ASSUME NEW c \in issued \cup LegacyClaims, NEW type \in EventTypes,
               NEW id \in 1..Len(events[c.request]) + 1, AppendEvent(c, type, id, lag)
        PROVE  Authority'
    <2> DEFINE r == c.request
               scope == IF Keyed(r) /\ runs[r].exec = "running" THEN {SessionOf[r]} ELSE {}
               rs == RunsAfterExpiry(scope, lag)
               fs == FencesAfterExpiry(scope, lag)
    <2>1. r \in Requests
      BY SessionsAssumption DEF TypeOK, Claim, LegacyClaims
    <2>2. scope \in SUBSET Sessions
      BY <2>1, SessionsAssumption
    <2>3. rs \in RunTable /\ fences' = fs /\ UNCHANGED claimVars
      BY <1>5, <2>2, SweepType DEF AppendEvent
    <2>4. \/ runs' = rs
          \/ runs' = [rs EXCEPT ![r].closed = @ \/ type \in Terminal, ![r].old = FALSE]
      BY <1>5 DEF AppendEvent
    <2>5. \A q \in Requests : runs'[q].exec = rs[q].exec /\ runs'[q].epoch = rs[q].epoch
      <3>1. CASE runs' = rs
        BY <3>1
      <3>2. CASE runs' = [rs EXCEPT ![r].closed = @ \/ type \in Terminal, ![r].old = FALSE]
        <4> HIDE DEF rs
        <4>1. \A q \in Requests : rs[q] \in Run
          BY <2>3 DEF RunTable
        <4>2. ASSUME NEW q \in Requests, q # r
              PROVE  runs'[q] = rs[q]
          BY <2>3, <3>2, <4>2 DEF RunTable
        <4>3. runs'[r].exec = rs[r].exec /\ runs'[r].epoch = rs[r].epoch
          BY <2>1, <2>3, <3>2, <4>1 DEF RunTable, Run
        <4>4. QED
          BY <4>2, <4>3
      <3>3. QED
        BY <2>4, <3>1, <3>2
    <2>6. Calm(rs, fs, runs', fences')
      <3> HIDE DEF rs, fs
      <3>1. QED
        BY <2>3, <2>5 DEF Calm
    <2>7. QED
      BY <2>2, <2>3, <2>6, CalmStep
  <1>6. QED
    BY <1>1, <1>3, <1>4, <1>5 DEF WorkerStep

\* Every cancellation preserves the lease authority.
LEMMA CancellationSafe ==
    ASSUME TypeOK, Authority, NEW lag \in Lags
    PROVE  /\ \A r \in Requests : MarkInterruptedExecution(r, lag) => Authority'
           /\ \A s \in Sessions : \A targets :
                RequestCancellation(s, targets, lag) => Authority'
  <1>1. ASSUME NEW r \in Requests, MarkInterruptedExecution(r, lag)
        PROVE  Authority'
    <2>1. {SessionOf[r]} \in SUBSET Sessions
      BY Scopes
    <2>2. QED
      BY <1>1, <2>1, CalmReflexive, CalmStep DEF MarkInterruptedExecution, ExpireOnly
  <1>2. ASSUME NEW s \in Sessions, NEW targets, RequestCancellation(s, targets, lag)
        PROVE  Authority'
    <2>1. Calm(RunsAfterExpiry({s}, lag), FencesAfterExpiry({s}, lag), runs', fences')
      BY <1>2, SweepType, CancelCalm DEF RequestCancellation
    <2>2. UNCHANGED claimVars
      BY <1>2 DEF RequestCancellation
    <2>3. QED
      BY <2>1, <2>2, CalmStep
  <1>3. QED
    BY <1>1, <1>2

\* Every transaction of a delete or a clear preserves the lease authority.
LEMMA MutationSafe ==
    ASSUME TypeOK, Authority, NEW s \in Sessions, NEW lag \in Lags, MutationStep(s, lag)
    PROVE  Authority'
  <1> DEFINE rs == RunsAfterExpiry({s}, lag)
             fs == FencesAfterExpiry({s}, lag)
  <1>1. rs \in RunTable
    BY SweepType
  <1>2. UNCHANGED claimVars
    BY DEF MutationStep, BeginSessionMutation, AdvanceContextGeneration, ExpireOnly,
           SessionMutationQuiescence, ReleaseSessionMutation, RecordDeleteCompletion
  <1>3. ASSUME NEW kind, BeginSessionMutation(s, kind, lag)
        PROVE  Calm(rs, fs, runs', fences')
    <2> DEFINE cancelled == CancelledRuns(rs, Of(s))
    <2>1. runs' = SupersededRuns(cancelled, s) /\ fences' = fs
      BY <1>3 DEF BeginSessionMutation
    <2>2. cancelled \in RunTable
      BY <1>1, CancelType
    <2>3. Calm(rs, fs, cancelled, fs)
      BY <1>1, CancelCalm
    <2>4. \A r \in Requests : /\ SupersededRuns(cancelled, s)[r].exec = cancelled[r].exec
                              /\ SupersededRuns(cancelled, s)[r].epoch = cancelled[r].epoch
      <3> HIDE DEF cancelled
      <3>1. QED
        BY <2>2 DEF SupersededRuns, RunTable, Run
    <2>5. QED
      <3> HIDE DEF cancelled, rs, fs
      <3>1. QED
        BY <2>1, <2>3, <2>4 DEF Calm
  <1>4. CASE runs' = rs /\ fences' = fs
    BY <1>2, <1>4, CalmReflexive, CalmStep
  <1>5. (\E kind : BeginSessionMutation(s, kind, lag)) \/ (runs' = rs /\ fences' = fs)
    BY DEF MutationStep, AdvanceContextGeneration, ExpireOnly,
           SessionMutationQuiescence, ReleaseSessionMutation, RecordDeleteCompletion
  <1>6. QED
    BY <1>2, <1>3, <1>4, <1>5, CalmStep

\* Retention removes settled rows only, and no fence stands for one of them.
LEMMA RetentionSafe ==
    ASSUME TypeOK, Authority, Reap \/ Tick \/ \E r \in Requests : GrowOld(r)
    PROVE  Authority'
  <1>1. fences \in FenceTable
    BY DEF TypeOK, FenceTable
  <1>2. UNCHANGED claimVars
    BY DEF Reap, Tick, GrowOld
  <1>3. ASSUME Calm(runs, fences, runs', fences')
        PROVE  Authority'
    <2>1. SafeTables(runs', fences')
      BY <1>1, <1>3, CalmSafe DEF Authority
    <2>2. QED
      BY <1>2, <2>1 DEF Authority, SafeTables, claimVars
  <1>4. CASE Reap
    <2>1. ASSUME NEW s \in Sessions
          PROVE  fences'[s] = fences[s]
      <3>1. fences[s] # NoFence => runs[fences[s].request].exec = "running"
        BY DEF Authority, SafeTables, OwnershipOf
      <3>2. QED
        BY <1>4, <3>1 DEF Reap, Settled
    <2>2. \A r \in Requests : runs'[r] = runs[r]
                              \/ (runs'[r].exec = "reaped" /\ runs[r].exec \in Settled)
      BY <1>4 DEF Reap, NoRun
    <2>3. QED
      BY <1>3, <2>1, <2>2 DEF Calm, Settled
  <1>5. CASE \E r \in Requests : GrowOld(r)
    <2>1. PICK r \in Requests : GrowOld(r)
      BY <1>5
    <2>2. \A q \in Requests : runs'[q].exec = runs[q].exec /\ runs'[q].epoch = runs[q].epoch
      BY <2>1 DEF GrowOld, TypeOK, Run
    <2>3. QED
      BY <1>3, <2>1, <2>2 DEF Calm, GrowOld
  <1>6. CASE Tick
    <2>1. ASSUME NEW s \in Sessions
          PROVE  \/ fences'[s] = fences[s]
                 \/ /\ fences[s] # NoFence /\ fences'[s] # NoFence
                    /\ fences'[s].request = fences[s].request
                    /\ fences'[s].epoch = fences[s].epoch
      <3>1. CASE fences'[s] # fences[s]
        <4>1. fences[s] # NoFence /\ fences'[s] = [fences[s] EXCEPT !.rem = @ - 1]
          BY <1>6, <3>1 DEF Tick
        <4>2. fences[s] \in Fence
          BY <4>1 DEF TypeOK
        <4>3. fences'[s] \in Fence /\ fences'[s].request = fences[s].request
              /\ fences'[s].epoch = fences[s].epoch
          BY <4>1, <4>2 DEF Fence
        <4>4. QED
          BY <4>1, <4>3, NullAssumption
      <3>2. QED
        BY <3>1
    <2>2. runs' = runs
      BY <1>6 DEF Tick
    <2>3. QED
      BY <1>3, <2>1, <2>2 DEF Calm
  <1>7. QED
    BY <1>4, <1>5, <1>6

\* The empty ledger claims nothing.
LEMMA AuthorityInit == Init => Authority
  BY NullAssumption DEF Init, Authority, SafeTables, OwnershipOf, HistoryOf, NoRun

\* Every step of the ledger preserves the lease authority.
LEMMA AuthorityStep == TypeOK /\ Authority /\ [Next]_vars => Authority'
  <1> SUFFICES ASSUME TypeOK, Authority, [Next]_vars
               PROVE  Authority'
    OBVIOUS
  <1>1. CASE UNCHANGED vars
    BY <1>1 DEF vars, claimVars, Authority, SafeTables
  <1>2. ASSUME NEW lag \in Lags, NEW r \in Requests, ClaimExecution(r, lag)
        PROVE  Authority'
    BY <1>2, AdmissionSafe
  <1>3. ASSUME NEW lag \in Lags, NEW scope \in SUBSET Sessions,
               ClaimNextQueuedExecution(scope, lag)
        PROVE  Authority'
    BY <1>3, AdmissionSafe
  <1>4. ASSUME NEW lag \in Lags, WorkerStep(lag)
        PROVE  Authority'
    BY <1>4, WorkerSafe
  <1>5. ASSUME NEW lag \in Lags, NEW r \in Requests,
               MarkInterruptedExecution(r, lag) \/ RequestExecutionCancellation(r, lag)
        PROVE  Authority'
    BY <1>5, CancellationSafe, SessionsAssumption DEF RequestExecutionCancellation
  <1>6. ASSUME NEW lag \in Lags, NEW s \in Sessions,
               RequestSessionCancellation(s, lag) \/ MutationStep(s, lag)
        PROVE  Authority'
    BY <1>6, CancellationSafe, MutationSafe DEF RequestSessionCancellation
  <1>7. ASSUME NEW r \in Requests, BeginLegacy(r)
        PROVE  Authority'
    <2>1. 0 \in Lags
      BY LeaseAssumption DEF Lags
    <2>2. QED
      BY <1>7, <2>1, AdmissionSafe
  <1>8. CASE Reap \/ Tick \/ \E r \in Requests : GrowOld(r)
    BY <1>8, RetentionSafe
  <1>9. \A s \in Sessions : {s} \in SUBSET Sessions
    OBVIOUS
  <1>10. Sessions \in SUBSET Sessions
    OBVIOUS
  <1>11. QED
    BY <1>1, <1>2, <1>3, <1>4, <1>5, <1>6, <1>7, <1>8, <1>9, <1>10 DEF Next

\* The invariant on which everything about the ledger rests.
LEMMA LedgerSafe == Spec => [](TypeOK /\ Authority)
  <1>1. Init => TypeOK /\ Authority
    BY InitType, AuthorityInit
  <1>2. TypeOK /\ Authority /\ [Next]_vars => (TypeOK /\ Authority)'
    BY TypeStep, AuthorityStep
  <1>3. QED
    BY <1>1, <1>2, PTL DEF Spec

\* However claims, expiries, heartbeats, settlements, cancellations, mutations
\* and late calls interleave, a session has at most one authorised worker:
\* its fence row and the running keyed row stand for each other, under the
\* newest epoch of the session.
THEOREM SessionAuthority == Spec => []FenceOwnership
  BY LedgerSafe, AuthorityMeaning, PTL

\* No request is ever handed to a second worker and no epoch is given out
\* twice in a session: a takeover leaves in_doubt, it never executes again.
THEOREM ClaimedAtMostOnce == Spec => []ClaimedOnce
  BY LedgerSafe, AuthorityMeaning, PTL

----------------------------------------------------------------------------
(***************************************************************************)
(* What becomes of a request, in which order the queue of a session is     *)
(* served, and what a destructive mutation may rely on.                    *)
(*                                                                         *)
(* RowStep lists everything that a transaction may do to the row and the   *)
(* journal of one request; RowSteps proves that the list is complete.      *)
(* Whatever concerns one request then follows from the list.               *)
(***************************************************************************)

(***************************************************************************)
(* The life of one request: a and es are its row and its journal before a  *)
(* transaction, b and fs what they are after it.                           *)
(***************************************************************************)

Kept(a, es, b, fs) ==
    /\ b.exec = a.exec /\ b.cancel = a.cancel /\ b.gen = a.gen /\ b.closed = a.closed
    /\ b.epoch = a.epoch /\ fs = es

\* Accepted, and perhaps claimed at once
Admitted(r, a, es, b, fs) ==
    /\ Keyed(r) /\ mutations[SessionOf[r]] = NoMutation
    /\ a.exec = "absent" /\ b.exec \in {"queued", "running"}
    /\ b.cancel = FALSE /\ b.closed = FALSE /\ b.gen = generation[SessionOf[r]]
    /\ fs = es

\* A run without a key
Begun(r, a, es, b, fs) ==
    ~Keyed(r) /\ a.exec = "absent" /\ b = NoRun("running") /\ fs = es

Claimed(r, a, es, b, fs) ==
    /\ mutations[SessionOf[r]] = NoMutation
    /\ a.exec = "queued" /\ b.exec = "running"
    /\ b.cancel = a.cancel /\ b.gen = a.gen /\ b.closed = a.closed
    /\ fs = es

\* Swept, with an expired fence or without one
Doubted(a, es, b, fs) ==
    /\ a.exec = "running" /\ b.exec = "in_doubt"
    /\ b.cancel = a.cancel /\ b.gen = a.gen /\ b.closed = a.closed
    /\ b.epoch = a.epoch /\ fs = es

Concluded(a, es, b, fs) ==
    /\ a.exec = "running" /\ b.exec \in Outcomes
    /\ b.exec = "completed" => ~a.cancel
    /\ b.cancel = a.cancel /\ b.gen = a.gen /\ b.epoch = a.epoch
    /\ b.closed = (a.closed \/ b.exec = "cancelled")
    /\ fs = IF b.exec = "cancelled" THEN WithMarker(es, "cancelled") ELSE es

\* A running request is asked to stop
Asked(a, es, b, fs) ==
    /\ a.exec = "running" /\ b.exec = "running"
    /\ b.cancel = TRUE /\ b.gen = a.gen /\ b.closed = a.closed
    /\ b.epoch = a.epoch /\ fs = es

\* A queued one is cancelled on the spot
Dropped(a, es, b, fs) ==
    /\ a.exec = "queued" /\ b.exec = "cancelled"
    /\ b.cancel = TRUE /\ b.gen = a.gen /\ b.closed = TRUE /\ b.epoch = a.epoch
    /\ fs = WithMarker(es, "cancelled")

\* The delivery of a settled one is closed by a mutation
Overtaken(a, es, b, fs) ==
    /\ a.exec \in Settled /\ ~a.closed
    /\ b.exec = a.exec /\ b.cancel = a.cancel /\ b.gen = a.gen /\ b.closed = TRUE
    /\ b.epoch = a.epoch
    /\ fs = WithMarker(es, IF a.exec = "cancelled" THEN "cancelled" ELSE "error")

\* A worker appends an event, or repeats one
Delivered(r, a, es, b, fs) ==
    /\ HasRow(r) /\ Current(r)
    /\ b.exec = a.exec /\ b.cancel = a.cancel /\ b.gen = a.gen /\ b.epoch = a.epoch
    /\ \E type \in EventTypes :
         /\ Keyed(r) /\ type = "done" => a.exec = "completed"
         /\ b.closed = (a.closed \/ type \in Terminal)
         /\ \/ ~a.closed /\ fs = Append(es, type)
            \/ fs = es /\ \E id \in 1..Len(es) : es[id] = type

Forgotten(a, es, b, fs) ==
    a.exec \in Settled /\ a.old /\ b = NoRun("reaped") /\ fs = <<>>

\* What anyone but the holder of its claim may do to a request
Proceeds(r, a, es, b, fs) ==
    \/ Kept(a, es, b, fs) \/ Admitted(r, a, es, b, fs) \/ Claimed(r, a, es, b, fs)
    \/ Doubted(a, es, b, fs) \/ Asked(a, es, b, fs) \/ Dropped(a, es, b, fs)
    \/ Overtaken(a, es, b, fs) \/ Delivered(r, a, es, b, fs)

RowStep(r, a, es, b, fs) ==
    \/ Proceeds(r, a, es, b, fs) \/ Concluded(a, es, b, fs)
    \/ Begun(r, a, es, b, fs) \/ Forgotten(a, es, b, fs)

AllRowsStep == \A r \in Requests : RowStep(r, runs[r], events[r], runs'[r], events'[r])

\* The sweep keeps a row, or leaves a running one in doubt.
LEMMA SweepRow ==
    ASSUME TypeOK, NEW scope, NEW lag, NEW r \in Requests
    PROVE  LET b == RunsAfterExpiry(scope, lag)[r]
           IN /\ b \in Run
              /\ \/ b = runs[r]
                 \/ /\ runs[r].exec = "running"
                    /\ b = [runs[r] EXCEPT !.exec = "in_doubt", !.old = FALSE]
                    /\ Doubted(runs[r], events[r], b, events[r])
  <1>1. runs[r] \in Run
    BY DEF TypeOK
  <1> DEFINE doubt == [runs[r] EXCEPT !.exec = "in_doubt", !.old = FALSE]
  <1>2. doubt \in Run /\ doubt.exec = "in_doubt" /\ doubt.cancel = runs[r].cancel
        /\ doubt.gen = runs[r].gen /\ doubt.closed = runs[r].closed
        /\ doubt.epoch = runs[r].epoch
    BY <1>1 DEF Run, ExecutionStates, Pending
  <1>3. \/ RunsAfterExpiry(scope, lag)[r] = runs[r]
        \/ RunsAfterExpiry(scope, lag)[r] = doubt /\ runs[r].exec = "running"
    BY DEF RunsAfterExpiry
  <1>4. QED
    BY <1>1, <1>2, <1>3 DEF Doubted

\* Hence so do the transactions that only sweep, as far as rows are concerned.
LEMMA SweepOnly ==
    ASSUME TypeOK, NEW scope, NEW lag, NEW r \in Requests,
           runs'[r] = RunsAfterExpiry(scope, lag)[r], events'[r] = events[r]
    PROVE  Proceeds(r, runs[r], events[r], runs'[r], events'[r])
  <1> DEFINE b == RunsAfterExpiry(scope, lag)[r]
  <1>1. CASE b = runs[r]
    <2>1. Kept(runs[r], events[r], runs'[r], events'[r])
      BY <1>1 DEF Kept
    <2>2. QED
      BY <2>1 DEF Proceeds
  <1>2. CASE Doubted(runs[r], events[r], b, events[r])
    <2>1. Doubted(runs[r], events[r], runs'[r], events'[r])
      BY <1>2 DEF Doubted
    <2>2. QED
      BY <2>1 DEF Proceeds
  <1>3. QED
    BY <1>1, <1>2, SweepRow

\* The oldest claimable entry becomes running; the other rows stay.
LEMMA ClaimRows ==
    ASSUME NEW rs \in RunTable, NEW fs, NEW queue \in SUBSET Requests, NEW ids, NEW scope, NEW lag,
           ClaimNextQueued(rs, fs, queue, ids, scope, lag), NEW r \in Requests
    PROVE  \/ runs'[r] = rs[r]
           \/ /\ rs[r].exec = "queued" /\ mutations[SessionOf[r]] = NoMutation
              /\ runs'[r].exec = "running" /\ runs'[r].cancel = rs[r].cancel
              /\ runs'[r].gen = rs[r].gen /\ runs'[r].closed = rs[r].closed
  <1>1. CASE runs' = rs
    BY <1>1
  <1>2. ASSUME NEW q \in Claimable(rs, fs, queue, scope), ClaimEntry(q, rs, fs, queue, lag)
        PROVE  \/ runs'[r] = rs[r]
               \/ /\ rs[r].exec = "queued" /\ mutations[SessionOf[r]] = NoMutation
                  /\ runs'[r].exec = "running" /\ runs'[r].cancel = rs[r].cancel
                  /\ runs'[r].gen = rs[r].gen /\ runs'[r].closed = rs[r].closed
    <2>1. q \in Requests /\ rs[q].exec = "queued" /\ mutations[SessionOf[q]] = NoMutation
      BY DEF Claimable
    <2>2. CASE r = q
      BY <1>2, <2>1, <2>2 DEF ClaimEntry, RunTable, Run
    <2>3. CASE r # q
      BY <1>2, <2>1, <2>3 DEF ClaimEntry, RunTable
    <2>4. QED
      BY <2>2, <2>3
  <1>3. QED
    BY <1>1, <1>2 DEF ClaimNextQueued

\* Accepting a request adds its row, and starts at most one that was queued.
LEMMA AdmissionRows ==
    ASSUME TypeOK, NEW lag \in Lags, NEW r \in Requests
    PROVE  /\ \A q \in Requests : ClaimExecution(q, lag)
                => Proceeds(r, runs[r], events[r], runs'[r], events'[r])
           /\ \A scope \in SUBSET Sessions : ClaimNextQueuedExecution(scope, lag)
                => Proceeds(r, runs[r], events[r], runs'[r], events'[r])
           /\ \A q \in Requests : BeginLegacy(q)
                => \/ Proceeds(r, runs[r], events[r], runs'[r], events'[r])
                   \/ Begun(r, runs[r], events[r], runs'[r], events'[r])
  <1>1. ASSUME NEW scope \in SUBSET Sessions, NEW ids, events' = events,
               ClaimNextQueued(RunsAfterExpiry(scope, lag), FencesAfterExpiry(scope, lag),
                               waiting, ids, scope, lag)
        PROVE  Proceeds(r, runs[r], events[r], runs'[r], events'[r])
    <2> DEFINE rs == RunsAfterExpiry(scope, lag)
               fs == FencesAfterExpiry(scope, lag)
    <2>1. rs \in RunTable /\ waiting \in SUBSET Requests
      BY SweepType DEF TypeOK
    <2>2. \/ runs'[r] = rs[r]
          \/ /\ rs[r].exec = "queued" /\ mutations[SessionOf[r]] = NoMutation
             /\ runs'[r].exec = "running" /\ runs'[r].cancel = rs[r].cancel
             /\ runs'[r].gen = rs[r].gen /\ runs'[r].closed = rs[r].closed
      <3> HIDE DEF rs, fs
      <3>1. ClaimNextQueued(rs, fs, waiting, ids, scope, lag)
        BY <1>1 DEF rs, fs
      <3>2. QED
        BY <2>1, <3>1, ClaimRows
    <2>3. CASE runs'[r] = rs[r]
      BY <1>1, <2>3, SweepOnly
    <2>4. CASE rs[r].exec = "queued" /\ runs'[r] # rs[r]
      <3>1. rs[r] = runs[r]
        BY <2>4, SweepRow DEF Doubted
      <3>2. Claimed(r, runs[r], events[r], runs'[r], events'[r])
        BY <1>1, <2>2, <2>4, <3>1 DEF Claimed
      <3>3. QED
        BY <3>2 DEF Proceeds
    <2>5. QED
      BY <2>2, <2>3, <2>4
  <1>2. ASSUME NEW q \in Requests, ClaimExecution(q, lag)
        PROVE  Proceeds(r, runs[r], events[r], runs'[r], events'[r])
    <2> DEFINE s == SessionOf[q]
               rs == RunsAfterExpiry({s}, lag)
               fs == FencesAfterExpiry({s}, lag)
               row == [NoRun("queued") EXCEPT !.gen = generation[s]]
               rows == [x \in Requests |-> IF x = q THEN row ELSE rs[x]]
               ids == [queueId EXCEPT ![q] = lastQueueId + 1]
    <2>1. CASE ClaimNextQueued(rs, fs, waiting, queueId, {s}, lag)
      BY <1>1, <1>2, <2>1, Scopes DEF ClaimExecution
    <2>2. CASE /\ Twins(q) = {} /\ mutations[s] = NoMutation
               /\ ClaimNextQueued(rows, fs, waiting \cup {q}, ids, {s}, lag)
      <3>1. rs \in RunTable /\ waiting \cup {q} \in SUBSET Requests
        BY SweepType, Scopes DEF TypeOK
      <3>2. row \in Run /\ row.exec = "queued" /\ row.cancel = FALSE
            /\ row.closed = FALSE /\ row.gen = generation[s]
        BY SessionsAssumption DEF NoRun, Run, ExecutionStates, Pending, TypeOK
      <3>3. rows \in RunTable
        BY <3>1, <3>2 DEF RunTable
      <3>4. \/ runs'[r] = rows[r]
            \/ /\ rows[r].exec = "queued" /\ mutations[SessionOf[r]] = NoMutation
               /\ runs'[r].exec = "running" /\ runs'[r].cancel = rows[r].cancel
               /\ runs'[r].gen = rows[r].gen /\ runs'[r].closed = rows[r].closed
        <4> HIDE DEF rows, fs, ids
        <4>1. QED
          BY <2>2, <3>1, <3>3, ClaimRows
      <3>5. CASE r = q
        <4>1. Keyed(r) /\ runs[r].exec = "absent"
          BY <1>2, <2>2, <3>5 DEF ClaimExecution, Twins, Of, HasRow
        <4>2. rows[r] = row
          BY <3>5
        <4>3. /\ runs'[r].exec \in {"queued", "running"} /\ runs'[r].cancel = FALSE
              /\ runs'[r].closed = FALSE /\ runs'[r].gen = generation[SessionOf[r]]
          <5> HIDE DEF row, rows
          <5>1. QED
            BY <3>2, <3>4, <3>5, <4>2
        <4>4. Admitted(r, runs[r], events[r], runs'[r], events'[r])
          BY <1>2, <2>2, <3>5, <4>1, <4>3 DEF Admitted, ClaimExecution
        <4>5. QED
          BY <4>4 DEF Proceeds
      <3>6. CASE r # q
        <4>1. rows[r] = rs[r] /\ events'[r] = events[r]
          BY <1>2, <3>6 DEF ClaimExecution
        <4>2. CASE runs'[r] = rs[r]
          BY <4>1, <4>2, SweepOnly
        <4>3. CASE rs[r].exec = "queued" /\ runs'[r] # rs[r]
          <5>1. rs[r] = runs[r]
            BY <4>3, SweepRow DEF Doubted
          <5>2. Claimed(r, runs[r], events[r], runs'[r], events'[r])
            <6> HIDE DEF rows, rs
            <6>1. QED
              BY <3>4, <4>1, <4>3, <5>1 DEF Claimed
          <5>3. QED
            BY <5>2 DEF Proceeds
        <4>4. QED
          <5> HIDE DEF rows, rs
          <5>1. QED
            BY <3>4, <4>1, <4>2, <4>3
      <3>7. QED
        BY <3>5, <3>6
    <2>3. QED
      BY <1>2, <2>1, <2>2 DEF ClaimExecution
  <1>3. ASSUME NEW scope \in SUBSET Sessions, ClaimNextQueuedExecution(scope, lag)
        PROVE  Proceeds(r, runs[r], events[r], runs'[r], events'[r])
    BY <1>1, <1>3 DEF ClaimNextQueuedExecution
  <1>4. ASSUME NEW q \in Requests, BeginLegacy(q)
        PROVE  \/ Proceeds(r, runs[r], events[r], runs'[r], events'[r])
               \/ Begun(r, runs[r], events[r], runs'[r], events'[r])
    <2>1. CASE r = q
      BY <1>4, <2>1 DEF Begun, BeginLegacy, Keyed, TypeOK
    <2>2. CASE r # q
      <3>1. Kept(runs[r], events[r], runs'[r], events'[r])
        BY <1>4, <2>2 DEF Kept, BeginLegacy, TypeOK
      <3>2. QED
        BY <3>1 DEF Proceeds
    <2>3. QED
      BY <2>1, <2>2
  <1>5. QED
    BY <1>2, <1>3, <1>4

\* A settlement concludes the run of its claim.
LEMMA SettleRows ==
    ASSUME TypeOK, NEW lag \in Lags, NEW c \in Claim, NEW outcome \in Outcomes,
           LET rs == RunsAfterExpiry({SessionOf[c.request]}, lag)
               fs == FencesAfterExpiry({SessionOf[c.request]}, lag)
           IN /\ rs[c.request].exec = "running"
              /\ outcome = "completed" => ~rs[c.request].cancel
              /\ Settle(rs, fs, c, outcome),
           NEW r \in Requests
    PROVE  IF r = c.request
           THEN Concluded(runs[r], events[r], runs'[r], events'[r]) /\ runs'[r].exec = outcome
           ELSE Proceeds(r, runs[r], events[r], runs'[r], events'[r])
  <1> DEFINE q == c.request
             rs == RunsAfterExpiry({SessionOf[q]}, lag)
             marked == outcome = "cancelled"
  <1>1. q \in Requests /\ rs \in RunTable
    BY SweepType, Scopes DEF Claim
  <1>2. /\ runs' = [rs EXCEPT ![q].exec = outcome, ![q].old = FALSE,
                              ![q].closed = @ \/ marked]
        /\ events' = IF marked THEN [events EXCEPT ![q] = WithMarker(@, "cancelled")]
                     ELSE events
    BY DEF Settle
  <1>3. CASE r = q
    <2>1. rs[q] = runs[q] /\ rs[q] \in Run
      <3>1. rs[q].exec = "running"
        OBVIOUS
      <3>2. rs[q] \in Run /\ (rs[q] = runs[q] \/ rs[q].exec = "in_doubt")
        BY <1>1, SweepRow DEF Doubted
      <3> HIDE DEF rs
      <3>3. QED
        BY <3>1, <3>2
    <2>2. /\ runs'[q].exec = outcome /\ runs'[q].cancel = runs[q].cancel
          /\ runs'[q].gen = runs[q].gen /\ runs'[q].epoch = runs[q].epoch
          /\ runs'[q].closed = (runs[q].closed \/ marked)
      <3> HIDE DEF rs
      <3>1. QED
        BY <1>1, <1>2, <2>1 DEF RunTable, Run
    <2>3. events'[q] = IF marked THEN WithMarker(events[q], "cancelled") ELSE events[q]
      BY <1>1, <1>2 DEF TypeOK
    <2>4. Concluded(runs[q], events[q], runs'[q], events'[q])
      <3>1. outcome = "completed" => ~rs[q].cancel
        OBVIOUS
      <3>2. rs[q].exec = "running"
        OBVIOUS
      <3> HIDE DEF q, rs
      <3>3. QED
        BY <2>1, <2>2, <2>3, <3>1, <3>2 DEF Concluded
    <2>5. QED
      BY <1>3, <2>2, <2>4
  <1>4. CASE r # q
    <2>1. runs'[r] = rs[r] /\ events'[r] = events[r]
      <3> HIDE DEF rs
      <3>1. QED
        BY <1>1, <1>2, <1>4 DEF RunTable, TypeOK
    <2>2. QED
      BY <1>4, <2>1, SweepOnly
  <1>5. QED
    BY <1>3, <1>4

\* A worker's call concludes the run of its claim, or no run at all.
LEMMA CallRows ==
    ASSUME TypeOK, Authority, NEW lag \in Lags, NEW r \in Requests
    PROVE  /\ \A c \in issued : VerifySessionFence(c, lag)
                => Proceeds(r, runs[r], events[r], runs'[r], events'[r])
           /\ \A c \in issued, outcome \in Outcomes : FinishExecution(c, outcome, lag)
                => \/ Proceeds(r, runs[r], events[r], runs'[r], events'[r])
                   \/ /\ r = c.request
                      /\ Concluded(runs[r], events[r], runs'[r], events'[r])
                      /\ runs'[r].exec \in {outcome, "cancelled"}
                      /\ runs'[r].exec = "cancelled" => outcome \in {"completed", "cancelled"}
           /\ \A c \in issued : RejectExecutionBeforeAgent(c, lag)
                => \/ Proceeds(r, runs[r], events[r], runs'[r], events'[r])
                   \/ /\ r = c.request
                      /\ Concluded(runs[r], events[r], runs'[r], events'[r])
                      /\ runs'[r].exec = "failed_safe"
           /\ \A c \in issued \cup LegacyClaims, type \in EventTypes :
                \A id \in 1..Len(events[c.request]) + 1 : AppendEvent(c, type, id, lag)
                  => Proceeds(r, runs[r], events[r], runs'[r], events'[r])
  <1>1. ASSUME NEW c \in issued, VerifySessionFence(c, lag)
        PROVE  Proceeds(r, runs[r], events[r], runs'[r], events'[r])
    BY <1>1, SweepOnly DEF VerifySessionFence
  <1>2. ASSUME NEW c \in issued, NEW outcome \in Outcomes, FinishExecution(c, outcome, lag)
        PROVE  \/ Proceeds(r, runs[r], events[r], runs'[r], events'[r])
               \/ /\ r = c.request
                  /\ Concluded(runs[r], events[r], runs'[r], events'[r])
                  /\ runs'[r].exec \in {outcome, "cancelled"}
                  /\ runs'[r].exec = "cancelled" => outcome \in {"completed", "cancelled"}
    <2> DEFINE rs == RunsAfterExpiry({SessionOf[c.request]}, lag)
               fs == FencesAfterExpiry({SessionOf[c.request]}, lag)
               actual == Effective(rs[c.request], outcome)
    <2>1. c \in Claim /\ actual \in Outcomes /\ actual \in {outcome, "cancelled"}
          /\ (actual = "cancelled" => outcome \in {"completed", "cancelled"})
          /\ (actual = "completed" => ~rs[c.request].cancel)
      BY DEF TypeOK, Effective, Outcomes
    <2>2. CASE rs[c.request].exec = "running" /\ Settle(rs, fs, c, actual)
      <3> HIDE DEF actual
      <3>1. IF r = c.request
            THEN Concluded(runs[r], events[r], runs'[r], events'[r]) /\ runs'[r].exec = actual
            ELSE Proceeds(r, runs[r], events[r], runs'[r], events'[r])
        BY <2>1, <2>2, SettleRows
      <3>2. QED
        BY <2>1, <3>1
    <2>3. CASE runs' = rs /\ events' = events
      BY <2>3, SweepOnly
    <2>4. QED
      BY <1>2, <2>2, <2>3 DEF FinishExecution
  <1>3. ASSUME NEW c \in issued, RejectExecutionBeforeAgent(c, lag)
        PROVE  \/ Proceeds(r, runs[r], events[r], runs'[r], events'[r])
               \/ /\ r = c.request
                  /\ Concluded(runs[r], events[r], runs'[r], events'[r])
                  /\ runs'[r].exec = "failed_safe"
    <2> DEFINE rs == RunsAfterExpiry({SessionOf[c.request]}, lag)
               fs == FencesAfterExpiry({SessionOf[c.request]}, lag)
    <2>1. c \in Claim /\ "failed_safe" \in Outcomes
      BY DEF TypeOK, Outcomes
    <2>2. CASE rs[c.request].exec = "running" /\ Settle(rs, fs, c, "failed_safe")
      BY <2>1, <2>2, SettleRows
    <2>3. CASE runs' = rs /\ events' = events
      BY <2>3, SweepOnly
    <2>4. QED
      BY <1>3, <2>2, <2>3 DEF RejectExecutionBeforeAgent
  <1>4. ASSUME NEW c \in issued \cup LegacyClaims, NEW type \in EventTypes,
               NEW id \in 1..Len(events[c.request]) + 1, AppendEvent(c, type, id, lag)
        PROVE  Proceeds(r, runs[r], events[r], runs'[r], events'[r])
    <2> DEFINE q == c.request
               executing == Keyed(q) /\ runs[q].exec = "running"
               scope == IF executing THEN {SessionOf[q]} ELSE {}
               rs == RunsAfterExpiry(scope, lag)
               fs == FencesAfterExpiry(scope, lag)
               isNew == id = Len(events[q]) + 1
               delivers ==
                 /\ \/ ~Keyed(q)
                    \/ executing /\ Owns(fs, c) /\ type # "done"
                    \/ ~executing /\ type \in PostSettlement(runs[q].exec)
                 /\ \/ isNew /\ ~runs[q].closed /\ events' = [events EXCEPT ![q] = Append(@, type)]
                    \/ ~isNew /\ events[q][id] = type /\ events' = events
                 /\ runs' = [rs EXCEPT ![q].closed = @ \/ type \in Terminal,
                                      ![q].old = FALSE]
    <2>1. q \in Requests /\ scope \in SUBSET Sessions /\ events[q] \in Seq(EventTypes)
      BY SessionsAssumption DEF TypeOK, Claim, LegacyClaims
    <2>2. rs \in RunTable
      BY <2>1, SweepType
    <2>3. HasRow(q) /\ Current(q) /\ (delivers \/ (runs' = rs /\ events' = events))
      BY <1>4 DEF AppendEvent
    <2>4. CASE runs' = rs /\ events' = events
      BY <2>4, SweepOnly
    <2>5. CASE delivers /\ r # q
      <3>1. runs'[r] = rs[r] /\ events'[r] = events[r]
        <4> HIDE DEF rs
        <4>1. QED
          BY <2>1, <2>2, <2>5 DEF RunTable, TypeOK
      <3>2. QED
        BY <3>1, SweepOnly
    <2>6. CASE delivers /\ r = q
      <3>1. rs[q] = runs[q] /\ runs[q] \in Run
        <4>1. CASE executing /\ Owns(fs, c)
          <5> DEFINE s == SessionOf[q]
          <5>1. s \in Sessions /\ fs[s] = fences[s] /\ fences[s] # NoFence
                /\ fences[s].request = q /\ ~Expired(s, lag)
            BY <2>1, <4>1, SessionsAssumption DEF Owns, FencesAfterExpiry
          <5>2. fences[s].epoch = runs[q].epoch
            BY <5>1 DEF Authority, SafeTables, OwnershipOf
          <5>3. HoldsLiveFence(q, lag)
            BY <5>1, <5>2 DEF HoldsLiveFence, Owns
          <5>4. QED
            BY <2>1, <5>3 DEF RunsAfterExpiry, TypeOK
        <4>2. CASE ~executing
          BY <2>1, <4>2 DEF RunsAfterExpiry, TypeOK
        <4>3. QED
          BY <2>6, <4>1, <4>2
      <3>2. /\ runs'[q].exec = runs[q].exec /\ runs'[q].cancel = runs[q].cancel
            /\ runs'[q].gen = runs[q].gen /\ runs'[q].epoch = runs[q].epoch
            /\ runs'[q].closed = (runs[q].closed \/ type \in Terminal)
        <4> HIDE DEF rs
        <4>1. QED
          BY <2>1, <2>2, <2>6, <3>1 DEF RunTable, Run
      <3>3. Keyed(q) /\ type = "done" => runs[q].exec = "completed"
        BY <2>6 DEF PostSettlement
      <3>4. \/ ~runs[q].closed /\ events'[q] = Append(events[q], type)
            \/ events'[q] = events[q] /\ \E i \in 1..Len(events[q]) : events[q][i] = type
        <4>1. CASE isNew
          BY <2>1, <2>6, <4>1 DEF TypeOK
        <4>2. CASE ~isNew
          <5>1. id \in 1..Len(events[q])
            BY <2>1, <4>2
          <5>2. QED
            BY <2>6, <4>2, <5>1
        <4>3. QED
          BY <4>1, <4>2
      <3>5. Delivered(q, runs[q], events[q], runs'[q], events'[q])
        <4> HIDE DEF q
        <4>1. QED
          BY <2>3, <3>2, <3>3, <3>4 DEF Delivered
      <3>6. QED
        BY <2>6, <3>5 DEF Proceeds
    <2>7. QED
      BY <2>3, <2>4, <2>5, <2>6
  <1>5. QED
    BY <1>1, <1>2, <1>3, <1>4

\* Hence a worker's step is one of the moves.
LEMMA WorkerRows ==
    ASSUME TypeOK, Authority, NEW lag \in Lags, WorkerStep(lag), NEW r \in Requests
    PROVE  RowStep(r, runs[r], events[r], runs'[r], events'[r])
  BY CallRows DEF WorkerStep, RowStep

\* A cancellation drops a queued run and asks a running one.
LEMMA CancelledRow ==
    ASSUME TypeOK, NEW scope, NEW lag, NEW targets, NEW r \in Requests
    PROVE  LET rs == RunsAfterExpiry(scope, lag)
               b == CancelledRuns(rs, targets)[r]
               es == CancelledEvents(rs, targets)[r]
           IN /\ \/ Kept(runs[r], events[r], b, es) \/ Doubted(runs[r], events[r], b, es)
                 \/ Asked(runs[r], events[r], b, es) \/ Dropped(runs[r], events[r], b, es)
              /\ b.exec = "cancelled" => b.closed \/ b.exec = runs[r].exec
              /\ b \in Run
  <1> DEFINE rs == RunsAfterExpiry(scope, lag)
             a == rs[r]
             b == CancelledRuns(rs, targets)[r]
             es == CancelledEvents(rs, targets)[r]
  <1>1. /\ a \in Run
        /\ a = runs[r] \/ Doubted(runs[r], events[r], a, events[r])
    BY SweepRow
  <1>2. /\ b = IF r \in targets THEN CancelRow(a) ELSE a
        /\ es = IF r \in targets /\ a.exec = "queued"
                THEN WithMarker(events[r], "cancelled") ELSE events[r]
    BY DEF CancelledRuns, CancelledEvents
  <1> HIDE DEF rs, b, es
  <1>3. CASE r \in targets /\ a.exec = "queued"
    <2>1. a = runs[r]
      BY <1>1, <1>3 DEF Doubted
    <2>2. /\ b.exec = "cancelled" /\ b.cancel = TRUE /\ b.closed = TRUE /\ b.gen = a.gen
          /\ b.epoch = a.epoch /\ b \in Run
      BY <1>1, <1>2, <1>3 DEF CancelRow, Run, ExecutionStates, Settled
    <2>3. Dropped(runs[r], events[r], b, es)
      BY <1>2, <1>3, <2>1, <2>2 DEF Dropped
    <2>4. QED
      BY <2>2, <2>3 DEF b, es, rs
  <1>4. CASE r \in targets /\ a.exec = "running"
    <2>1. a = runs[r]
      BY <1>1, <1>4 DEF Doubted
    <2>2. /\ b.exec = "running" /\ b.cancel = TRUE /\ b.closed = a.closed /\ b.gen = a.gen
          /\ b.epoch = a.epoch /\ b \in Run
      BY <1>1, <1>2, <1>4 DEF CancelRow, Run
    <2>3. Asked(runs[r], events[r], b, es)
      BY <1>2, <1>4, <2>1, <2>2 DEF Asked
    <2>4. QED
      BY <2>2, <2>3 DEF b, es, rs
  <1>5. CASE ~(r \in targets /\ a.exec \in {"queued", "running"})
    <2>1. b = a /\ es = events[r]
      BY <1>2, <1>5 DEF CancelRow
    <2>2. Kept(runs[r], events[r], b, es) \/ Doubted(runs[r], events[r], b, es)
      BY <1>1, <2>1 DEF Kept
    <2>3. b.exec = "cancelled" => b.exec = runs[r].exec
      BY <1>1, <2>1 DEF Doubted
    <2>4. QED
      BY <1>1, <2>1, <2>2, <2>3 DEF b, es, rs
  <1>6. QED
    BY <1>3, <1>4, <1>5

\* Neither does a reader that gives up on a worker do more than sweep.
LEMMA CancellationRows ==
    ASSUME TypeOK, NEW lag \in Lags, NEW s \in Sessions, NEW r \in Requests
    PROVE  /\ \A q \in Requests : MarkInterruptedExecution(q, lag)
                => Proceeds(r, runs[r], events[r], runs'[r], events'[r])
           /\ \A targets : RequestCancellation(s, targets, lag)
                => Proceeds(r, runs[r], events[r], runs'[r], events'[r])
  <1>1. ASSUME NEW q \in Requests, MarkInterruptedExecution(q, lag)
        PROVE  Proceeds(r, runs[r], events[r], runs'[r], events'[r])
    BY <1>1, SweepOnly DEF MarkInterruptedExecution, ExpireOnly
  <1>2. ASSUME NEW targets, RequestCancellation(s, targets, lag)
        PROVE  Proceeds(r, runs[r], events[r], runs'[r], events'[r])
    <2> DEFINE rs == RunsAfterExpiry({s}, lag)
    <2>1. runs' = CancelledRuns(rs, targets) /\ events' = CancelledEvents(rs, targets)
      BY <1>2 DEF RequestCancellation
    <2>2. \/ Kept(runs[r], events[r], runs'[r], events'[r])
          \/ Doubted(runs[r], events[r], runs'[r], events'[r])
          \/ Asked(runs[r], events[r], runs'[r], events'[r])
          \/ Dropped(runs[r], events[r], runs'[r], events'[r])
      BY <2>1, CancelledRow
    <2>3. QED
      BY <2>2 DEF Proceeds
  <1>3. QED
    BY <1>1, <1>2

\* A mutation cancels like a cancellation, and closes what is left open.
LEMMA MutationRows ==
    ASSUME TypeOK, NEW lag \in Lags, NEW s \in Sessions, MutationStep(s, lag), NEW r \in Requests
    PROVE  Proceeds(r, runs[r], events[r], runs'[r], events'[r])
  <1>1. ASSUME NEW kind, BeginSessionMutation(s, kind, lag)
        PROVE  Proceeds(r, runs[r], events[r], runs'[r], events'[r])
    <2> DEFINE swept == RunsAfterExpiry({s}, lag)
               rs == CancelledRuns(swept, Of(s))
               es == CancelledEvents(swept, Of(s))
    <2>1. /\ runs' = SupersededRuns(rs, s)
          /\ events' = SupersededEvents(rs, es, s)
      BY <1>1 DEF BeginSessionMutation
    <2>2. /\ \/ Kept(runs[r], events[r], rs[r], es[r]) \/ Doubted(runs[r], events[r], rs[r], es[r])
             \/ Asked(runs[r], events[r], rs[r], es[r]) \/ Dropped(runs[r], events[r], rs[r], es[r])
          /\ rs[r] \in Run
      BY CancelledRow
    <2> HIDE DEF rs, es
    <2>3. CASE r \in Of(s) /\ Superseded(rs[r])
      <3>1. Kept(runs[r], events[r], rs[r], es[r])
        BY <2>2, <2>3 DEF Superseded, Settled, Doubted, Asked, Dropped
      <3>2. /\ runs'[r].exec = rs[r].exec /\ runs'[r].cancel = rs[r].cancel
            /\ runs'[r].gen = rs[r].gen /\ runs'[r].closed = TRUE /\ runs'[r].epoch = rs[r].epoch
            /\ events'[r] = WithMarker(es[r], IF rs[r].exec = "cancelled" THEN "cancelled" ELSE "error")
        BY <2>1, <2>2, <2>3 DEF SupersededRuns, SupersededEvents, Run
      <3>3. Overtaken(runs[r], events[r], runs'[r], events'[r])
        BY <2>3, <3>1, <3>2 DEF Kept, Overtaken, Superseded
      <3>4. QED
        BY <3>3 DEF Proceeds
    <2>4. CASE ~(r \in Of(s) /\ Superseded(rs[r]))
      <3>1. runs'[r] = rs[r] /\ events'[r] = es[r]
        BY <2>1, <2>4 DEF SupersededRuns, SupersededEvents
      <3>2. QED
        BY <2>2, <3>1 DEF Proceeds
    <2>5. QED
      BY <2>3, <2>4
  <1>2. ASSUME NEW token,
               \/ AdvanceContextGeneration(s, token, lag) \/ SessionMutationQuiescence(s, token, lag)
               \/ ReleaseSessionMutation(s, token, lag) \/ RecordDeleteCompletion(s, token, lag)
        PROVE  Proceeds(r, runs[r], events[r], runs'[r], events'[r])
    <2>1. runs' = RunsAfterExpiry({s}, lag) /\ events' = events
      BY <1>2 DEF AdvanceContextGeneration, SessionMutationQuiescence, ReleaseSessionMutation,
                  RecordDeleteCompletion, ExpireOnly
    <2>2. QED
      BY <2>1, SweepOnly
  <1>3. QED
    BY <1>1, <1>2 DEF MutationStep

\* Retention forgets settled rows of the past; time touches no row.
LEMMA RetentionRows ==
    ASSUME TypeOK, NEW r \in Requests
    PROVE  /\ Reap => \/ Proceeds(r, runs[r], events[r], runs'[r], events'[r])
                      \/ Forgotten(runs[r], events[r], runs'[r], events'[r])
           /\ Tick \/ (\E q \in Requests : GrowOld(q)) \/ UNCHANGED vars
                => Proceeds(r, runs[r], events[r], runs'[r], events'[r])
  <1>1. ASSUME Reap
        PROVE  \/ Kept(runs[r], events[r], runs'[r], events'[r])
               \/ Forgotten(runs[r], events[r], runs'[r], events'[r])
    BY <1>1 DEF Reap, Kept, Forgotten
  <1>2. ASSUME Tick \/ (\E q \in Requests : GrowOld(q)) \/ UNCHANGED vars
        PROVE  Kept(runs[r], events[r], runs'[r], events'[r])
    <2>1. CASE runs' = runs /\ events' = events
      BY <2>1 DEF Kept
    <2>2. ASSUME NEW q \in Requests, GrowOld(q)
          PROVE  Kept(runs[r], events[r], runs'[r], events'[r])
      <3>1. /\ runs'[r].exec = runs[r].exec /\ runs'[r].cancel = runs[r].cancel
            /\ runs'[r].gen = runs[r].gen /\ runs'[r].closed = runs[r].closed
            /\ runs'[r].epoch = runs[r].epoch
        BY <2>2 DEF GrowOld, TypeOK, Run
      <3>2. QED
        BY <2>2, <3>1 DEF GrowOld, Kept
    <2>3. QED
      BY <1>2, <2>1, <2>2 DEF Tick, vars
  <1>3. QED
    BY <1>1, <1>2 DEF Proceeds

\* The list of moves is complete.
LEMMA RowSteps == TypeOK /\ Authority /\ [Next]_vars => AllRowsStep
  <1> SUFFICES ASSUME TypeOK, Authority, [Next]_vars, NEW r \in Requests
               PROVE  RowStep(r, runs[r], events[r], runs'[r], events'[r])
    BY DEF AllRowsStep
  <1>1. ASSUME NEW lag \in Lags, NEW q \in Requests,
               \/ RequestExecutionCancellation(q, lag) \/ MarkInterruptedExecution(q, lag)
        PROVE  Proceeds(r, runs[r], events[r], runs'[r], events'[r])
    <2>1. SessionOf[q] \in Sessions
      BY SessionsAssumption
    <2>2. QED
      BY <1>1, <2>1, CancellationRows DEF RequestExecutionCancellation
  <1>2. ASSUME NEW lag \in Lags, NEW s \in Sessions, RequestSessionCancellation(s, lag)
        PROVE  Proceeds(r, runs[r], events[r], runs'[r], events'[r])
    BY <1>2, CancellationRows DEF RequestSessionCancellation
  <1>3. ASSUME NEW lag \in Lags, NEW q \in Requests, ClaimExecution(q, lag)
        PROVE  Proceeds(r, runs[r], events[r], runs'[r], events'[r])
    BY <1>3, AdmissionRows
  <1>4. ASSUME NEW lag \in Lags,
               \/ \E s \in Sessions : ClaimNextQueuedExecution({s}, lag)
               \/ ClaimNextQueuedExecution(Sessions, lag)
        PROVE  Proceeds(r, runs[r], events[r], runs'[r], events'[r])
    <2>1. Sessions \in SUBSET Sessions /\ \A s \in Sessions : {s} \in SUBSET Sessions
      OBVIOUS
    <2>2. QED
      BY <1>4, <2>1, AdmissionRows
  <1>5. ASSUME NEW q \in Requests, BeginLegacy(q)
        PROVE  \/ Proceeds(r, runs[r], events[r], runs'[r], events'[r])
               \/ Begun(r, runs[r], events[r], runs'[r], events'[r])
    <2>1. 0 \in Lags
      BY LeaseAssumption DEF Lags
    <2>2. QED
      BY <1>5, <2>1, AdmissionRows
  <1>6. QED
    BY <1>1, <1>2, <1>3, <1>4, <1>5, WorkerRows, MutationRows, RetentionRows DEF Next, RowStep

(***************************************************************************)
(* Outcomes.                                                               *)
(***************************************************************************)

\* What a run ended as is never rewritten: by no late or repeated call of a
\* worker, no sweep, no cancellation.  Only retention removes a settled row,
\* and an unresolved one is never resolved nor removed.
THEOREM OutcomesAreFinal == Spec => OutcomeIsFinal
  <1> DEFINE Final == \A r \in Requests :
               /\ runs[r].exec \in Settled =>
                    runs'[r].exec = runs[r].exec \/ (runs'[r].exec = "reaped" /\ runs[r].old)
               /\ runs[r].exec \in {"in_doubt", "reaped"} => runs'[r].exec = runs[r].exec
  <1>1. ASSUME TypeOK, Authority, [Next]_vars
        PROVE  Final
    <2> SUFFICES ASSUME NEW r \in Requests
                 PROVE  /\ runs[r].exec \in Settled =>
                             runs'[r].exec = runs[r].exec \/ (runs'[r].exec = "reaped" /\ runs[r].old)
                        /\ runs[r].exec \in {"in_doubt", "reaped"} => runs'[r].exec = runs[r].exec
      OBVIOUS
    <2>1. RowStep(r, runs[r], events[r], runs'[r], events'[r])
      BY <1>1, RowSteps DEF AllRowsStep
    <2>2. CASE Forgotten(runs[r], events[r], runs'[r], events'[r])
      BY <2>2 DEF Forgotten, NoRun, Settled
    <2>3. CASE runs'[r].exec = runs[r].exec
      BY <2>3
    <2>4. CASE runs[r].exec \in {"absent", "queued", "running"}
      BY <2>4 DEF Settled
    <2>5. QED
      BY <2>1, <2>2, <2>3, <2>4
         DEF RowStep, Proceeds, Kept, Admitted, Begun, Claimed, Doubted, Concluded, Asked, Dropped,
             Overtaken, Delivered
  <1>2. TypeOK /\ Authority /\ [Next]_vars => [Final]_vars
    BY <1>1
  <1>3. QED
    BY <1>2, LedgerSafe, PTL DEF Spec, OutcomeIsFinal

(***************************************************************************)
(* Endings.                                                                *)
(***************************************************************************)

TerminalIsLast(es) == \A i \in DOMAIN es : es[i] \in Terminal => i = Len(es)
HasDone(es) == \E i \in DOMAIN es : es[i] = "done"

\* What holds of a row and its journal; without a row there is no journal.
Ending(r, a, es) ==
    /\ a.cancel => a.exec # "completed"
    /\ Keyed(r) /\ HasDone(es) => a.exec = "completed"
    /\ a.closed <=> EndsDelivery(es)
    /\ TerminalIsLast(es)
    /\ a.exec = "cancelled" => a.closed
    /\ a.exec \in {"absent", "reaped"} => es = <<>>

Endings == \A r \in Requests : Ending(r, runs[r], events[r])

\* A journal that goes on after nothing terminal keeps its one ending.
LEMMA AppendedEnding ==
    ASSUME NEW es \in Seq(EventTypes), NEW type \in EventTypes,
           TerminalIsLast(es), ~EndsDelivery(es)
    PROVE  /\ TerminalIsLast(Append(es, type))
           /\ EndsDelivery(Append(es, type)) <=> type \in Terminal
           /\ HasDone(Append(es, type)) <=> HasDone(es) \/ type = "done"
  <1> DEFINE fs == Append(es, type)
  <1>1. /\ fs \in Seq(EventTypes) /\ Len(fs) = Len(es) + 1 /\ Len(es) \in Nat
        /\ DOMAIN es = 1..Len(es) /\ DOMAIN fs = 1..Len(es) + 1
        /\ fs[Len(es) + 1] = type /\ \A i \in 1..Len(es) : fs[i] = es[i]
    OBVIOUS
  <1>2. \A i \in 1..Len(es) : es[i] \notin Terminal
    BY <1>1 DEF TerminalIsLast, EndsDelivery
  <1> HIDE DEF fs
  <1>3. TerminalIsLast(fs)
    BY <1>1, <1>2 DEF TerminalIsLast
  <1>4. EndsDelivery(fs) <=> type \in Terminal
    BY <1>1 DEF EndsDelivery
  <1>5. HasDone(fs) <=> HasDone(es) \/ type = "done"
    BY <1>1 DEF HasDone
  <1>6. QED
    BY <1>3, <1>4, <1>5 DEF fs

\* A marker ends a journal, unless it has ended, and is never a done.
LEMMA MarkedEnding ==
    ASSUME NEW es \in Seq(EventTypes), NEW type \in {"cancelled", "error"}, TerminalIsLast(es)
    PROVE  /\ TerminalIsLast(WithMarker(es, type))
           /\ EndsDelivery(WithMarker(es, type))
           /\ HasDone(WithMarker(es, type)) <=> HasDone(es)
  <1>1. CASE EndsDelivery(es)
    BY <1>1 DEF WithMarker
  <1>2. CASE ~EndsDelivery(es)
    <2>1. type \in EventTypes /\ type \in Terminal /\ type # "done"
      BY DEF EventTypes, Terminal
    <2>2. WithMarker(es, type) = Append(es, type)
      BY <1>2 DEF WithMarker
    <2>3. QED
      BY <1>2, <2>1, <2>2, AppendedEnding
  <1>3. QED
    BY <1>1, <1>2

\* No move of a row spoils its ending.
LEMMA EndingStep ==
    ASSUME TypeOK, NEW r \in Requests, Ending(r, runs[r], events[r]),
           RowStep(r, runs[r], events[r], runs'[r], events'[r])
    PROVE  Ending(r, runs'[r], events'[r])
  <1> DEFINE a == runs[r]
             b == runs'[r]
             es == events[r]
             fs == events'[r]
  <1>1. es \in Seq(EventTypes) /\ a.closed \in BOOLEAN /\ a.cancel \in BOOLEAN
    BY DEF TypeOK, Run
  <1>2. Ending(r, a, es) /\ RowStep(r, a, es, b, fs) /\ a = runs[r]
    OBVIOUS
  <1> SUFFICES Ending(r, b, fs)
    OBVIOUS
  <1> HIDE DEF a, b, es, fs
  <1>3. CASE Kept(a, es, b, fs)
    BY <1>2, <1>3 DEF Kept, Ending
  <1>4. CASE Admitted(r, a, es, b, fs)
    BY <1>2, <1>4 DEF Admitted, Ending, HasDone, EndsDelivery
  <1>5. CASE Begun(r, a, es, b, fs) \/ Forgotten(a, es, b, fs)
    BY <1>2, <1>5 DEF Begun, Forgotten, NoRun, Ending, HasDone, EndsDelivery, TerminalIsLast
  <1>6. CASE Claimed(r, a, es, b, fs) \/ Doubted(a, es, b, fs) \/ Asked(a, es, b, fs)
    BY <1>2, <1>6 DEF Claimed, Doubted, Asked, Ending
  <1>7. CASE Concluded(a, es, b, fs)
    <2>1. CASE b.exec = "cancelled"
      BY <1>1, <1>2, <1>7, <2>1, MarkedEnding DEF Concluded, Ending
    <2>2. CASE b.exec # "cancelled"
      BY <1>1, <1>2, <1>7, <2>2 DEF Concluded, Ending, Outcomes
    <2>3. QED
      BY <2>1, <2>2
  <1>8. CASE Dropped(a, es, b, fs)
    BY <1>1, <1>2, <1>8, MarkedEnding DEF Dropped, Ending
  <1>9. CASE Overtaken(a, es, b, fs)
    BY <1>1, <1>2, <1>9, MarkedEnding DEF Overtaken, Ending, Settled
  <1>10. CASE Delivered(r, a, es, b, fs)
    <2>1. PICK type \in EventTypes :
             /\ Keyed(r) /\ type = "done" => a.exec = "completed"
             /\ b.closed = (a.closed \/ type \in Terminal)
             /\ \/ ~a.closed /\ fs = Append(es, type)
                \/ fs = es /\ \E id \in 1..Len(es) : es[id] = type
      BY <1>10 DEF Delivered
    <2>2. /\ b.exec = a.exec /\ b.cancel = a.cancel /\ a.exec \notin {"absent", "reaped"}
      BY <1>2, <1>10 DEF Delivered, HasRow
    <2>3. CASE ~a.closed /\ fs = Append(es, type)
      <3>1. /\ TerminalIsLast(fs)
            /\ EndsDelivery(fs) <=> type \in Terminal
            /\ HasDone(fs) <=> HasDone(es) \/ type = "done"
        BY <1>1, <1>2, <2>3, AppendedEnding DEF Ending
      <3>2. b.closed <=> type \in Terminal
        BY <2>1, <2>3
      <3>3. QED
        BY <1>2, <2>1, <2>2, <2>3, <3>1, <3>2 DEF Ending
    <2>4. CASE fs = es /\ \E id \in 1..Len(es) : es[id] = type
      <3>1. type \in Terminal => EndsDelivery(es)
        BY <1>1, <1>2, <2>4 DEF Ending, TerminalIsLast, EndsDelivery
      <3>2. b.closed <=> a.closed
        BY <1>2, <2>1, <3>1 DEF Ending
      <3>3. QED
        BY <1>2, <2>2, <2>4, <3>2 DEF Ending
    <2>5. QED
      BY <2>1, <2>3, <2>4
  <1>11. QED
    BY <1>2, <1>3, <1>4, <1>5, <1>6, <1>7, <1>8, <1>9, <1>10 DEF RowStep, Proceeds

\* However late events, settlements, cancellations, sweeps and mutations of a
\* session interleave: a run that was asked to stop is never recorded as
\* completed, a journal holds done only for a completed run, it has at most one
\* terminal event, which is its last, exactly when delivery is closed, and a
\* cancelled run always has one.
THEOREM EndingsAreTrue == Spec => []OneTrueEnding
  <1>1. Init => Endings
    BY DEF Init, Endings, Ending, NoRun, HasDone, EndsDelivery, TerminalIsLast
  <1>2. TypeOK /\ Authority /\ Endings /\ [Next]_vars => Endings'
    BY RowSteps, EndingStep DEF AllRowsStep, Endings
  <1>3. Endings => OneTrueEnding
    BY DEF Endings, Ending, HasDone, TerminalIsLast, OneTrueEnding
  <1>4. QED
    BY <1>1, <1>2, <1>3, LedgerSafe, PTL DEF Spec

(***************************************************************************)
(* Destructive mutations: everything that a transaction may do to the      *)
(* generation and to the mutation row of one session.                      *)
(***************************************************************************)

SessionKept(s) ==
    /\ generation'[s] = generation[s] /\ mutations'[s] = mutations[s]
    /\ opened'[s] = opened[s]

\* Every row of the session has reached its end.
Settles(s) == \A r \in Of(s) : HasRow(r) => runs'[r].exec \in Settled

Opened(s) ==
    /\ mutations[s] = NoMutation
    /\ mutations'[s] # NoMutation
    /\ mutations'[s].before = generation[s] /\ mutations'[s].completed = FALSE
    /\ mutations'[s].token = opened[s] + 1 /\ opened'[s] = opened[s] + 1
    /\ generation'[s] = generation[s]

Advanced(s) ==
    /\ mutations[s] # NoMutation /\ mutations'[s] # NoMutation
    /\ mutations'[s].before = mutations[s].before
    /\ mutations'[s].token = mutations[s].token /\ opened'[s] = opened[s]
    /\ generation[s] = mutations[s].before
    /\ generation'[s] = mutations[s].before + 1
    /\ Settles(s)

Recorded(s) ==
    /\ mutations[s] # NoMutation /\ mutations'[s] # NoMutation
    /\ mutations'[s].before = mutations[s].before
    /\ mutations'[s].token = mutations[s].token /\ opened'[s] = opened[s]
    /\ generation'[s] = generation[s]
    /\ Settles(s)

Reopened(s) ==
    /\ mutations[s] # NoMutation /\ mutations'[s] = NoMutation
    /\ mutations[s].kind = "clear_context"
    /\ generation[s] = mutations[s].before + 1
    /\ generation'[s] = generation[s] /\ opened'[s] = opened[s]
    /\ Settles(s)

SessionStep(s) ==
    SessionKept(s) \/ Opened(s) \/ Advanced(s) \/ Recorded(s) \/ Reopened(s)

\* A session found quiet after the sweep has only settled rows.
LEMMA QuietSettles ==
    ASSUME TypeOK, NEW s \in Sessions, NEW lag,
           runs' = RunsAfterExpiry({s}, lag), Quiet(RunsAfterExpiry({s}, lag), s)
    PROVE  Settles(s)
  <1> SUFFICES ASSUME NEW r \in Of(s), HasRow(r)
               PROVE  runs'[r].exec \in Settled
    BY DEF Settles
  <1>1. r \in Requests /\ runs'[r].exec \notin Pending
    BY DEF Of, Quiet
  <1>2. runs'[r].exec = runs[r].exec \/ runs'[r].exec = "in_doubt"
    BY <1>1 DEF RunsAfterExpiry, TypeOK, Run
  <1>3. QED
    BY <1>1, <1>2 DEF TypeOK, Run, ExecutionStates, Pending, HasRow

\* The transactions of a mutation, at its session and at another one.
LEMMA MutationSessions ==
    ASSUME TypeOK, NEW lag \in Lags, NEW q \in Sessions, MutationStep(q, lag), NEW s \in Sessions
    PROVE  SessionStep(s)
  <1>1. ASSUME NEW kind \in {"clear_context", "delete_session"}, BeginSessionMutation(q, kind, lag)
        PROVE  SessionKept(s) \/ Opened(s)
    <2>1. generation' = generation
      BY <1>1 DEF BeginSessionMutation
    <2>2. CASE mutations' = mutations /\ opened' = opened
      BY <2>1, <2>2 DEF SessionKept
    <2>3. CASE /\ mutations[q] = NoMutation /\ opened' = [opened EXCEPT ![q] = @ + 1]
               /\ mutations' = [mutations EXCEPT ![q] =
                    [token |-> opened[q] + 1, kind |-> kind, before |-> generation[q],
                     after |-> -1, completed |-> FALSE]]
      <3>1. CASE s # q
        BY <2>1, <2>3, <3>1 DEF SessionKept, TypeOK
      <3>2. CASE s = q
        <4> DEFINE new == [token |-> opened[q] + 1, kind |-> kind, before |-> generation[q],
                           after |-> -1, completed |-> FALSE]
        <4>1. mutations'[s] = new
          BY <2>3, <3>2 DEF TypeOK
        <4>2. new \in Mutation /\ new.before = generation[s] /\ new.completed = FALSE
              /\ new.token = opened[s] + 1 /\ opened'[s] = opened[s] + 1
          BY <2>3, <3>2 DEF Mutation, TypeOK
        <4> HIDE DEF new
        <4>3. QED
          BY <2>1, <2>3, <3>2, <4>1, <4>2, NullAssumption DEF Opened
      <3>3. QED
        BY <3>1, <3>2
    <2>4. QED
      BY <1>1, <2>2, <2>3 DEF BeginSessionMutation
  <1>2. ASSUME NEW token, AdvanceContextGeneration(q, token, lag)
        PROVE  SessionKept(s) \/ Advanced(s)
    <2>1. Settles(q) /\ mutations[q] # NoMutation /\ mutations[q] \in Mutation
      BY <1>2, QuietSettles DEF AdvanceContextGeneration, Presents, TypeOK
    <2>2. CASE generation' = generation /\ mutations' = mutations /\ opened' = opened
      BY <2>2 DEF SessionKept
    <2>3. CASE /\ generation[q] = mutations[q].before /\ opened' = opened
               /\ generation' = [generation EXCEPT ![q] = mutations[q].before + 1]
               /\ mutations' = [mutations EXCEPT ![q].after = mutations[q].before + 1]
      <3>1. CASE s # q
        BY <2>3, <3>1 DEF SessionKept, TypeOK
      <3>2. CASE s = q
        <4> DEFINE new == [mutations[q] EXCEPT !.after = mutations[q].before + 1]
        <4>1. mutations'[s] = new /\ generation'[s] = mutations[s].before + 1
          BY <2>3, <3>2 DEF TypeOK
        <4>2. new \in Mutation /\ new.before = mutations[q].before
              /\ new.token = mutations[q].token
          BY <2>1 DEF Mutation
        <4>3. QED
          BY <2>1, <2>3, <3>2, <4>1, <4>2, NullAssumption DEF Advanced
      <3>3. QED
        BY <3>1, <3>2
    <2>4. QED
      BY <1>2, <2>2, <2>3 DEF AdvanceContextGeneration
  <1>3. ASSUME NEW token, SessionMutationQuiescence(q, token, lag)
        PROVE  SessionKept(s)
    BY <1>3 DEF SessionMutationQuiescence, ExpireOnly, mutationVars, SessionKept
  <1>4. ASSUME NEW token, ReleaseSessionMutation(q, token, lag)
        PROVE  SessionKept(s) \/ Reopened(s)
    <2>1. Settles(q)
      BY <1>4, QuietSettles DEF ReleaseSessionMutation
    <2>2. CASE s # q
      BY <1>4, <2>2 DEF ReleaseSessionMutation, SessionKept, TypeOK
    <2>3. CASE s = q
      BY <1>4, <2>1, <2>3 DEF ReleaseSessionMutation, Presents, Reopened, TypeOK
    <2>4. QED
      BY <2>2, <2>3
  <1>5. ASSUME NEW token, RecordDeleteCompletion(q, token, lag)
        PROVE  SessionKept(s) \/ Recorded(s)
    <2>1. Settles(q) /\ mutations[q] # NoMutation /\ mutations[q] \in Mutation
      BY <1>5, QuietSettles DEF RecordDeleteCompletion, Presents, TypeOK
    <2>2. CASE s # q
      BY <1>5, <2>2 DEF RecordDeleteCompletion, SessionKept, TypeOK
    <2>3. CASE s = q
      <3> DEFINE new == [mutations[q] EXCEPT !.completed = TRUE]
      <3>1. mutations'[s] = new /\ generation' = generation /\ opened' = opened
        BY <1>5, <2>3 DEF RecordDeleteCompletion, TypeOK
      <3>2. new \in Mutation /\ new.before = mutations[q].before
              /\ new.token = mutations[q].token
        BY <2>1 DEF Mutation
      <3>3. QED
        BY <2>1, <2>3, <3>1, <3>2, NullAssumption DEF Recorded
    <2>4. QED
      BY <2>2, <2>3
  <1>6. QED
    BY <1>1, <1>2, <1>3, <1>4, <1>5 DEF MutationStep, SessionStep

\* The list of the moves of a session is complete.
LEMMA SessionSteps == TypeOK /\ [Next]_vars => \A s \in Sessions : SessionStep(s)
  <1> SUFFICES ASSUME TypeOK, [Next]_vars, NEW s \in Sessions
               PROVE  SessionStep(s)
    OBVIOUS
  <1>1. CASE UNCHANGED <<generation, mutations, opened>>
    BY <1>1 DEF SessionStep, SessionKept
  <1>2. ASSUME NEW lag \in Lags, NEW q \in Sessions, MutationStep(q, lag)
        PROVE  SessionStep(s)
    BY <1>2, MutationSessions
  <1>3. ASSUME NEW lag \in Lags, WorkerStep(lag)
        PROVE  UNCHANGED mutationVars
    <2>1. ASSUME NEW c, VerifySessionFence(c, lag) \/ RejectExecutionBeforeAgent(c, lag)
          PROVE  UNCHANGED mutationVars
      BY <2>1 DEF VerifySessionFence, RejectExecutionBeforeAgent
    <2>2. ASSUME NEW c, NEW outcome, FinishExecution(c, outcome, lag)
          PROVE  UNCHANGED mutationVars
      BY <2>2 DEF FinishExecution
    <2>3. ASSUME NEW c, NEW type, NEW id, AppendEvent(c, type, id, lag)
          PROVE  UNCHANGED mutationVars
      BY <2>3 DEF AppendEvent
    <2>4. QED
      BY <1>3, <2>1, <2>2, <2>3 DEF WorkerStep
  <1>4. ASSUME NEW lag \in Lags, NEW r \in Requests,
               \/ ClaimExecution(r, lag) \/ MarkInterruptedExecution(r, lag)
               \/ RequestExecutionCancellation(r, lag)
        PROVE  UNCHANGED mutationVars
    BY <1>4 DEF ClaimExecution, MarkInterruptedExecution, ExpireOnly,
                RequestExecutionCancellation, RequestCancellation
  <1>5. ASSUME NEW lag \in Lags, NEW q \in Sessions,
               RequestSessionCancellation(q, lag) \/ ClaimNextQueuedExecution({q}, lag)
               \/ ClaimNextQueuedExecution(Sessions, lag)
        PROVE  UNCHANGED mutationVars
    BY <1>5 DEF RequestSessionCancellation, RequestCancellation, ClaimNextQueuedExecution
  <1>6. ASSUME Reap \/ Tick \/ \E r \in Requests : BeginLegacy(r) \/ GrowOld(r)
        PROVE  UNCHANGED mutationVars
    BY <1>6 DEF Reap, Tick, BeginLegacy, GrowOld
  <1>7. QED
    BY <1>1, <1>2, <1>3, <1>4, <1>5, <1>6 DEF Next, vars, mutationVars

\* A row belongs to a generation that its session has had, before a pending
\* mutation if there is one; and OldContextQuiet.
Context(r) ==
    LET s == SessionOf[r]
    IN Keyed(r) /\ HasRow(r) =>
         /\ runs[r].gen <= generation[s]
         /\ mutations[s] # NoMutation => runs[r].gen <= mutations[s].before
         /\ (\/ runs[r].gen < generation[s]
             \/ mutations[s] # NoMutation /\ mutations[s].completed)
            => runs[r].exec \in Settled

Contexts == \A r \in Requests : Context(r)

\* What the moves of a keyed row mean for its context.
LEMMA RowContext ==
    ASSUME NEW r \in Requests, Keyed(r), HasRow(r)',
           RowStep(r, runs[r], events[r], runs'[r], events'[r])
    PROVE  \/ /\ HasRow(r) /\ runs'[r].gen = runs[r].gen
              /\ runs[r].exec \in Settled => runs'[r].exec \in Settled
           \/ /\ mutations[SessionOf[r]] = NoMutation
              /\ runs'[r].gen = generation[SessionOf[r]]
  BY DEF RowStep, Proceeds, Kept, Admitted, Begun, Claimed, Doubted, Concluded, Asked, Dropped,
         Overtaken, Delivered, Forgotten, HasRow, Settled, NoRun

\* No move of a row and of its session spoils the context of the row.
LEMMA ContextStep ==
    ASSUME TypeOK, TypeOK', NEW r \in Requests, Context(r),
           RowStep(r, runs[r], events[r], runs'[r], events'[r]), SessionStep(SessionOf[r])
    PROVE  Context(r)'
  <1> DEFINE s == SessionOf[r]
  <1> SUFFICES ASSUME Keyed(r), HasRow(r)'
               PROVE  /\ runs'[r].gen <= generation'[s]
                      /\ mutations'[s] # NoMutation => runs'[r].gen <= mutations'[s].before
                      /\ (\/ runs'[r].gen < generation'[s]
                          \/ mutations'[s] # NoMutation /\ mutations'[s].completed)
                         => runs'[r].exec \in Settled
    BY DEF Context, Keyed
  <1>1. /\ s \in Sessions /\ generation[s] \in Nat /\ runs'[r].gen \in Nat /\ runs[r].gen \in Nat
        /\ mutations[s] # NoMutation => mutations[s].before \in Nat
    BY SessionsAssumption DEF TypeOK, Run, Mutation
  <1>2. CASE /\ HasRow(r) /\ runs'[r].gen = runs[r].gen
             /\ runs[r].exec \in Settled => runs'[r].exec \in Settled
    <2>1. /\ runs[r].gen <= generation[s]
          /\ mutations[s] # NoMutation => runs[r].gen <= mutations[s].before
          /\ (\/ runs[r].gen < generation[s]
              \/ mutations[s] # NoMutation /\ mutations[s].completed)
             => runs'[r].exec \in Settled
      BY <1>2 DEF Context
    <2>2. Settles(s) => runs'[r].exec \in Settled
      BY <1>2 DEF Settles, Of
    <2>3. CASE SessionKept(s)
      BY <1>2, <2>1, <2>3 DEF SessionKept
    <2>4. CASE Opened(s)
      BY <1>1, <1>2, <2>1, <2>4 DEF Opened
    <2>5. CASE Advanced(s)
      BY <1>1, <1>2, <2>1, <2>2, <2>5 DEF Advanced
    <2>6. CASE Recorded(s)
      BY <1>1, <1>2, <2>1, <2>2, <2>6 DEF Recorded
    <2>7. CASE Reopened(s)
      BY <1>1, <1>2, <2>1, <2>7 DEF Reopened
    <2>8. QED
      BY <2>3, <2>4, <2>5, <2>6, <2>7 DEF SessionStep
  <1>3. CASE mutations[s] = NoMutation /\ runs'[r].gen = generation[s]
    <2>1. CASE SessionKept(s)
      BY <1>1, <1>3, <2>1 DEF SessionKept
    <2>2. CASE Opened(s)
      BY <1>1, <1>3, <2>2 DEF Opened
    <2>3. QED
      BY <1>3, <2>1, <2>2 DEF SessionStep, Advanced, Recorded, Reopened
  <1>4. QED
    BY <1>2, <1>3, RowContext

\* The step invariant of the mutations.
LEMMA ContextsHold == Spec => []Contexts
  <1>1. Init => Contexts
    BY DEF Init, Contexts, Context, HasRow, NoRun
  <1>2. TypeOK /\ Authority /\ Contexts /\ [Next]_vars => Contexts'
    <2> SUFFICES ASSUME TypeOK, Authority, Contexts, [Next]_vars, NEW r \in Requests
                 PROVE  Context(r)'
      BY DEF Contexts
    <2>1. TypeOK' /\ SessionOf[r] \in Sessions
      BY TypeStep, SessionsAssumption
    <2>2. Context(r)
      BY DEF Contexts
    <2>3. QED
      BY <2>1, <2>2, RowSteps, SessionSteps, ContextStep DEF AllRowsStep
  <1>3. QED
    BY <1>1, <1>2, LedgerSafe, PTL DEF Spec

\* Once a clear has advanced the generation of a session, nothing of the old
\* context is queued, running or unresolved, and a session whose deletion has a
\* receipt has no such run: a run cannot slip in between the quiescence check
\* and the write, in whatever order calls arrive.
THEOREM OldContextsAreQuiet == Spec => []OldContextQuiet
  <1>1. Contexts => OldContextQuiet
    BY DEF Contexts, Context, OldContextQuiet
  <1>2. QED
    BY <1>1, ContextsHold, PTL

\* While a mutation is pending nothing of its session is admitted, claimed or
\* delivered but the markers; and the gate reopens only for a clear that has
\* advanced the generation, when every row is settled and of the old context.
THEOREM MutationsAreGated == Spec => MutationGate
  <1> DEFINE Reopens(s) == (mutations[s] # NoMutation /\ mutations'[s] = NoMutation)
                => /\ mutations[s].kind = "clear_context"
                   /\ generation[s] = mutations[s].before + 1
                   /\ \A r \in Of(s) : Keyed(r) /\ HasRow(r) =>
                        runs[r].gen < generation[s] /\ runs'[r].exec \in Settled
             Gate == /\ \A r \in Requests : StaysClosed(r)
                     /\ \A s \in Sessions : Reopens(s)
  <1>1. ASSUME TypeOK, Authority, Contexts, [Next]_vars, NEW r \in Requests
        PROVE  StaysClosed(r)
    <2> SUFFICES ASSUME Keyed(r), mutations[SessionOf[r]] # NoMutation
                 PROVE  /\ runs'[r].exec \in {"queued", "running"} => runs'[r].exec = runs[r].exec
                        /\ Len(events'[r]) > Len(events[r]) =>
                             /\ events'[r][Len(events'[r])] \in {"cancelled", "error"}
                             /\ runs'[r].exec \in Settled
      BY DEF StaysClosed
    <2>1. RowStep(r, runs[r], events[r], runs'[r], events'[r])
      BY <1>1, RowSteps DEF AllRowsStep
    <2>2. events[r] \in Seq(EventTypes) /\ Len(events[r]) \in Nat
      BY <1>1 DEF TypeOK
    <2>3. ASSUME NEW type \in {"cancelled", "error"}, events'[r] = WithMarker(events[r], type),
                 Len(events'[r]) > Len(events[r])
          PROVE  events'[r][Len(events'[r])] = type
      BY <2>2, <2>3 DEF WithMarker
    <2>4. CASE events'[r] = events[r]
      BY <2>1, <2>2, <2>4 DEF RowStep, Proceeds, Kept, Admitted, Begun, Claimed, Doubted, Concluded, Asked,
                              Dropped, Overtaken, Delivered, Forgotten, Current, Outcomes, Settled, NoRun
    <2>5. CASE events'[r] # events[r] /\ ~Forgotten(runs[r], events[r], runs'[r], events'[r])
      <3>1. /\ runs'[r].exec \in Settled
            /\ \E type \in {"cancelled", "error"} : events'[r] = WithMarker(events[r], type)
        BY <2>1, <2>5 DEF RowStep, Proceeds, Kept, Admitted, Begun, Claimed, Doubted, Concluded, Asked,
                          Dropped, Overtaken, Delivered, Current, Settled
      <3>2. QED
        BY <2>3, <3>1 DEF Settled
    <2>6. CASE Forgotten(runs[r], events[r], runs'[r], events'[r])
      BY <2>2, <2>6 DEF Forgotten, NoRun
    <2>7. QED
      BY <2>4, <2>5, <2>6
  <1>2. ASSUME TypeOK, Authority, Contexts, [Next]_vars, NEW s \in Sessions
        PROVE  Reopens(s)
    <2> SUFFICES ASSUME mutations[s] # NoMutation, mutations'[s] = NoMutation
                 PROVE  /\ mutations[s].kind = "clear_context"
                        /\ generation[s] = mutations[s].before + 1
                        /\ \A r \in Of(s) : Keyed(r) /\ HasRow(r) =>
                             runs[r].gen < generation[s] /\ runs'[r].exec \in Settled
      OBVIOUS
    <2>1. Reopened(s)
      BY <1>2, SessionSteps DEF SessionStep, SessionKept, Opened, Advanced, Recorded
    <2>2. ASSUME NEW r \in Of(s), Keyed(r), HasRow(r)
          PROVE  runs[r].gen < generation[s] /\ runs'[r].exec \in Settled
      <3>1. r \in Requests /\ SessionOf[r] = s /\ runs[r].gen \in Nat /\ mutations[s].before \in Nat
        BY <1>2 DEF Of, TypeOK, Run, Mutation
      <3>2. runs[r].gen <= mutations[s].before
        BY <1>2, <2>2, <3>1 DEF Contexts, Context
      <3>3. QED
        BY <2>1, <2>2, <3>1, <3>2 DEF Reopened, Settles
    <2>3. QED
      BY <2>1, <2>2 DEF Reopened
  <1>3. TypeOK /\ Authority /\ Contexts /\ [Next]_vars => [Gate]_vars
    BY <1>1, <1>2
  <1>4. QED
    BY <1>3, LedgerSafe, ContextsHold, PTL DEF Spec, MutationGate

(***************************************************************************)
(* The queue: rs, queue, ids, last and claims are the tables as a          *)
(* transaction has left them so far.                                       *)
(***************************************************************************)

\* The queue table holds the queued rows, which are keyed and numbered apart.
QueueOf(rs, queue, ids, last) ==
    /\ queue = {r \in Requests : rs[r].exec = "queued"}
    /\ \A r \in queue : Keyed(r) /\ ids[r] <= last
    /\ \A q, r \in queue : ids[q] = ids[r] => q = r

\* What was claimed came before what waits, in the order of the epochs.
ServiceOf(queue, ids, last, claims) ==
    /\ \A c \in claims : Keyed(c.request) /\ ids[c.request] <= last
    /\ \A c \in claims, r \in queue :
         SessionOf[c.request] = SessionOf[r] => ids[c.request] < ids[r]
    /\ \A c, d \in claims :
         (SessionOf[c.request] = SessionOf[d.request] /\ c.epoch < d.epoch)
           => ids[c.request] < ids[d.request]

\* A key has one row in its session.
KeysOf(rs) ==
    \A q, r \in Requests :
        (/\ Keyed(q) /\ rs[q].exec \notin {"absent", "reaped"}
         /\ Keyed(r) /\ rs[r].exec \notin {"absent", "reaped"}
         /\ SessionOf[q] = SessionOf[r] /\ KeyOf[q] = KeyOf[r]) => q = r

OrderOf(rs, queue, ids, last, claims) ==
    QueueOf(rs, queue, ids, last) /\ ServiceOf(queue, ids, last, claims) /\ KeysOf(rs)

Order == OrderOf(runs, waiting, queueId, lastQueueId, issued)

\* Nothing arrives: rows may leave the queue, in the table and in their state.
NoArrival(rs1, queue1, rs2, queue2) ==
    /\ queue2 = {r \in queue1 : rs2[r].exec = "queued"}
    /\ \A r \in Requests :
        /\ rs2[r].exec = "queued" => rs1[r].exec = "queued"
        /\ Keyed(r) /\ rs2[r].exec \notin {"absent", "reaped"}
             => rs1[r].exec \notin {"absent", "reaped"}

\* When nothing arrives the order of the queue stands.
LEMMA NoArrivalOrder ==
    ASSUME NEW rs1, NEW queue1, NEW rs2, NEW queue2, NEW ids, NEW last, NEW claims,
           OrderOf(rs1, queue1, ids, last, claims), NoArrival(rs1, queue1, rs2, queue2)
    PROVE  OrderOf(rs2, queue2, ids, last, claims)
  <1>1. QueueOf(rs2, queue2, ids, last)
    BY DEF OrderOf, QueueOf, NoArrival
  <1>2. ServiceOf(queue2, ids, last, claims)
    BY DEF OrderOf, ServiceOf, NoArrival
  <1>3. KeysOf(rs2)
    BY DEF OrderOf, KeysOf, NoArrival
  <1>4. QED
    BY <1>1, <1>2, <1>3 DEF OrderOf

\* The sweep touches no queued row.
LEMMA SweepArrival ==
    ASSUME TypeOK, NEW scope, NEW lag, Order
    PROVE  /\ NoArrival(runs, waiting, RunsAfterExpiry(scope, lag), waiting)
           /\ OrderOf(RunsAfterExpiry(scope, lag), waiting, queueId, lastQueueId, issued)
  <1>1. \A r \in Requests : \/ RunsAfterExpiry(scope, lag)[r] = runs[r]
                            \/ /\ runs[r].exec = "running"
                               /\ RunsAfterExpiry(scope, lag)[r].exec = "in_doubt"
    BY DEF RunsAfterExpiry, TypeOK, Run
  <1>2. NoArrival(runs, waiting, RunsAfterExpiry(scope, lag), waiting)
    BY <1>1 DEF NoArrival, Order, OrderOf, QueueOf
  <1>3. QED
    BY <1>2, NoArrivalOrder DEF Order

\* The head of the queue is claimed under the newest epoch of its session:
\* whatever waits in the session was claimable too and has a later number.
LEMMA ClaimOrder ==
    ASSUME TypeOK, NEW rs \in RunTable, NEW fs, NEW queue, NEW ids \in [Requests -> Nat],
           NEW last, NEW scope, NEW lag,
           OrderOf(rs, queue, ids, last, issued), HistoryOf(rs, lastEpoch, issued),
           ClaimNextQueued(rs, fs, queue, ids, scope, lag)
    PROVE  OrderOf(runs', waiting', ids, last, issued')
  <1>1. CASE runs' = rs /\ waiting' = queue /\ issued' = issued
    BY <1>1
  <1>2. ASSUME NEW q \in Claimable(rs, fs, queue, scope),
               IsHead(q, Claimable(rs, fs, queue, scope), ids), ClaimEntry(q, rs, fs, queue, lag)
        PROVE  OrderOf(runs', waiting', ids, last, issued')
    <2> DEFINE s == SessionOf[q]
               new == [request |-> q, epoch |-> lastEpoch[s] + 1]
    <2>1. /\ q \in Requests /\ q \in queue /\ rs[q].exec = "queued" /\ s \in Sessions
          /\ lastEpoch[s] \in Nat /\ Keyed(q) /\ ids[q] <= last
      BY SessionsAssumption DEF Claimable, OrderOf, QueueOf, TypeOK
    <2>2. /\ \A r \in Requests : r # q => runs'[r] = rs[r]
          /\ runs'[q].exec = "running"
          /\ waiting' = queue \ {q}
          /\ issued' = issued \cup {new}
      BY <1>2, <2>1 DEF ClaimEntry, NextEpoch, RunTable, Run
    <2>3. NoArrival(rs, queue, runs', waiting')
      BY <2>1, <2>2 DEF NoArrival, OrderOf, QueueOf
    <2>4. OrderOf(runs', waiting', ids, last, issued)
      BY <2>3, NoArrivalOrder
    <2>5. \A r \in waiting' : SessionOf[r] = s => ids[q] < ids[r]
      <3> SUFFICES ASSUME NEW r \in waiting', SessionOf[r] = s
                   PROVE  ids[q] < ids[r]
        OBVIOUS
      <3>1. r \in queue /\ r # q /\ r \in Requests /\ rs[r].exec = "queued"
        BY <2>2 DEF OrderOf, QueueOf
      <3>2. r \in Claimable(rs, fs, queue, scope)
        BY <3>1 DEF Claimable
      <3>3. ids[q] <= ids[r]
        BY <1>2, <3>2 DEF IsHead
      <3>4. ids[q] # ids[r]
        BY <2>1, <3>1 DEF OrderOf, QueueOf
      <3>5. QED
        BY <2>1, <3>1, <3>3, <3>4
    <2>6. \A c \in issued : /\ c \in Claim
                            /\ SessionOf[c.request] = s => /\ ids[c.request] < ids[q]
                                                           /\ c.epoch <= lastEpoch[s]
      BY <2>1 DEF OrderOf, ServiceOf, HistoryOf, TypeOK
    <2>7. new.request = q /\ new.epoch = lastEpoch[s] + 1 /\ \A c \in issued : c.epoch \in Nat
      BY <2>6 DEF Claim
    <2> HIDE DEF new
    <2>8. ServiceOf(waiting', ids, last, issued')
      <3>1. \A c \in issued' : Keyed(c.request) /\ ids[c.request] <= last
        BY <2>1, <2>2, <2>4, <2>7 DEF OrderOf, ServiceOf
      <3>2. \A c \in issued', r \in waiting' :
               SessionOf[c.request] = SessionOf[r] => ids[c.request] < ids[r]
        BY <2>2, <2>4, <2>5, <2>7 DEF OrderOf, ServiceOf
      <3>3. ASSUME NEW c \in issued', NEW d \in issued',
                   SessionOf[c.request] = SessionOf[d.request], c.epoch < d.epoch
            PROVE  ids[c.request] < ids[d.request]
        <4>1. CASE c \in issued /\ d \in issued
          BY <2>4, <3>3, <4>1 DEF OrderOf, ServiceOf
        <4>2. CASE c \in issued /\ d = new
          BY <2>6, <2>7, <3>3, <4>2
        <4>3. CASE c = new
          BY <2>1, <2>2, <2>6, <2>7, <3>3, <4>3
        <4>4. QED
          BY <2>2, <4>1, <4>2, <4>3
      <3>4. QED
        BY <3>1, <3>2, <3>3 DEF ServiceOf
    <2>9. QED
      BY <2>4, <2>8 DEF OrderOf
  <1>3. QED
    BY <1>1, <1>2 DEF ClaimNextQueued, claimVars

\* An admission puts a new key behind everything, and may claim the head.
LEMMA AdmissionOrder ==
    ASSUME TypeOK, Authority, Order, NEW lag \in Lags
    PROVE  /\ \A r \in Requests : ClaimExecution(r, lag) => Order'
           /\ \A scope \in SUBSET Sessions : ClaimNextQueuedExecution(scope, lag) => Order'
           /\ \A r \in Requests : BeginLegacy(r) => Order'
  <1>1. ASSUME NEW scope \in SUBSET Sessions, UNCHANGED <<queueId, lastQueueId>>,
               ClaimNextQueued(RunsAfterExpiry(scope, lag), FencesAfterExpiry(scope, lag),
                               waiting, queueId, scope, lag)
        PROVE  Order'
    <2> DEFINE rs == RunsAfterExpiry(scope, lag)
               fs == FencesAfterExpiry(scope, lag)
    <2>1. rs \in RunTable /\ queueId \in [Requests -> Nat]
      BY SweepType DEF TypeOK
    <2>2. OrderOf(rs, waiting, queueId, lastQueueId, issued)
      BY SweepArrival
    <2>3. HistoryOf(rs, lastEpoch, issued)
      BY SweepSafe DEF SafeTables
    <2>4. ClaimNextQueued(rs, fs, waiting, queueId, scope, lag)
      BY <1>1
    <2> HIDE DEF rs, fs
    <2>5. OrderOf(runs', waiting', queueId, lastQueueId, issued')
      BY <2>1, <2>2, <2>3, <2>4, ClaimOrder
    <2>6. QED
      BY <1>1, <2>5 DEF Order
  <1>2. ASSUME NEW r \in Requests, ClaimExecution(r, lag)
        PROVE  Order'
    <2> DEFINE s == SessionOf[r]
               rs == RunsAfterExpiry({s}, lag)
               fs == FencesAfterExpiry({s}, lag)
               row == [NoRun("queued") EXCEPT !.gen = generation[s]]
               rows == [q \in Requests |-> IF q = r THEN row ELSE rs[q]]
               ids == [queueId EXCEPT ![r] = lastQueueId + 1]
    <2>1. {s} \in SUBSET Sessions /\ Keyed(r)
      BY <1>2, Scopes DEF ClaimExecution
    <2>2. CASE /\ ClaimNextQueued(rs, fs, waiting, queueId, {s}, lag)
               /\ UNCHANGED <<queueId, lastQueueId>>
      BY <1>1, <2>1, <2>2
    <2>3. CASE /\ Twins(r) = {} /\ lastQueueId' = lastQueueId + 1 /\ queueId' = ids
               /\ ClaimNextQueued(rows, fs, waiting \cup {r}, ids, {s}, lag)
      <3>1. /\ rs \in RunTable /\ lastQueueId \in Nat /\ queueId \in [Requests -> Nat]
            /\ ids \in [Requests -> Nat]
        BY <2>1, SweepType DEF TypeOK
      <3>2. row \in Run /\ row.exec = "queued"
        BY <2>1 DEF NoRun, Run, ExecutionStates, Pending, TypeOK
      <3>3. /\ rows \in RunTable /\ rows[r].exec = "queued"
            /\ \A q \in Requests : q # r => rows[q] = rs[q]
        <4> HIDE DEF row, rs
        <4>1. QED
          BY <3>1, <3>2 DEF RunTable
      <3>4. runs[r].exec = "absent"
        BY <1>2, <2>1, <2>3 DEF ClaimExecution, Twins, Of, HasRow
      <3>5. rs[r].exec = "absent"
        BY <3>4 DEF RunsAfterExpiry
      <3>6. /\ OrderOf(rs, waiting, queueId, lastQueueId, issued)
            /\ HistoryOf(rs, lastEpoch, issued)
        BY SweepArrival, SweepSafe DEF SafeTables
      <3>7. r \notin waiting /\ \A c \in issued : c.request # r /\ c.request \in Requests
        BY <3>5, <3>6 DEF OrderOf, QueueOf, HistoryOf, TypeOK, Claim
      <3>8. /\ ids[r] = lastQueueId + 1
            /\ \A q \in Requests : q # r => ids[q] = queueId[q]
        BY <3>1
      <3>9. \A q \in Requests : Keyed(q) /\ SessionOf[q] = s /\ KeyOf[q] = KeyOf[r]
                                  => rs[q].exec \in {"absent", "reaped"}
        <4>1. \A q \in Requests : Keyed(q) /\ SessionOf[q] = s /\ KeyOf[q] = KeyOf[r]
                                    => runs[q].exec \in {"absent", "reaped"}
          BY <2>3 DEF Twins, Of, HasRow
        <4>2. \A q \in Requests : runs[q].exec \in {"absent", "reaped"} => rs[q] = runs[q]
          BY DEF RunsAfterExpiry
        <4> HIDE DEF rs
        <4>3. QED
          BY <4>1, <4>2
      <3> HIDE DEF rs, fs, rows, ids
      <3>10. QueueOf(rows, waiting \cup {r}, ids, lastQueueId + 1)
        <4>1. /\ waiting = {q \in Requests : rs[q].exec = "queued"}
              /\ \A q \in waiting : Keyed(q) /\ queueId[q] <= lastQueueId /\ queueId[q] \in Nat
              /\ \A p, q \in waiting : queueId[p] = queueId[q] => p = q
          BY <3>1, <3>6 DEF OrderOf, QueueOf
        <4>2. waiting \cup {r} = {q \in Requests : rows[q].exec = "queued"}
          BY <3>3, <4>1
        <4>3. \A q \in waiting \cup {r} : Keyed(q) /\ ids[q] <= lastQueueId + 1
          BY <2>1, <3>1, <3>7, <3>8, <4>1
        <4>4. \A p, q \in waiting \cup {r} : ids[p] = ids[q] => p = q
          BY <3>1, <3>7, <3>8, <4>1
        <4>5. QED
          BY <4>2, <4>3, <4>4 DEF QueueOf
      <3>11. ServiceOf(waiting \cup {r}, ids, lastQueueId + 1, issued)
        <4>1. \A c \in issued : /\ ids[c.request] = queueId[c.request]
                                /\ queueId[c.request] \in Nat /\ queueId[c.request] <= lastQueueId
                                /\ Keyed(c.request)
          BY <3>1, <3>6, <3>7, <3>8 DEF OrderOf, ServiceOf
        <4>2. \A q \in waiting : q \in Requests /\ q # r
          BY <3>7 DEF TypeOK
        <4>3. QED
          BY <3>1, <3>6, <3>8, <4>1, <4>2 DEF OrderOf, ServiceOf
      <3>12. KeysOf(rows)
        BY <2>1, <3>3, <3>6, <3>9 DEF OrderOf, KeysOf
      <3>13. HistoryOf(rows, lastEpoch, issued)
        BY <3>3, <3>6, <3>7 DEF HistoryOf
      <3>14. OrderOf(rows, waiting \cup {r}, ids, lastQueueId + 1, issued)
        BY <3>10, <3>11, <3>12 DEF OrderOf
      <3>15. OrderOf(runs', waiting', ids, lastQueueId + 1, issued')
        BY <2>3, <3>1, <3>3, <3>13, <3>14, ClaimOrder
      <3>16. QED
        BY <2>3, <3>15 DEF Order
    <2>4. QED
      BY <1>2, <2>2, <2>3 DEF ClaimExecution
  <1>3. ASSUME NEW scope \in SUBSET Sessions, ClaimNextQueuedExecution(scope, lag)
        PROVE  Order'
    BY <1>1, <1>3 DEF ClaimNextQueuedExecution
  <1>4. ASSUME NEW r \in Requests, BeginLegacy(r)
        PROVE  Order'
    <2>1. NoArrival(runs, waiting, runs', waiting')
      BY <1>4 DEF BeginLegacy, NoArrival, NoRun, Keyed, TypeOK, Run, queueVars, Order, OrderOf, QueueOf
    <2>2. QED
      BY <1>4, <2>1, NoArrivalOrder DEF BeginLegacy, Order, queueVars, claimVars
  <1>5. QED
    BY <1>2, <1>3, <1>4

\* A step after the sweep that lets nothing arrive.
LEMMA CalmOrder ==
    ASSUME TypeOK, Order, NEW scope, NEW lag, UNCHANGED <<queueId, lastQueueId, issued>>,
           NoArrival(RunsAfterExpiry(scope, lag), waiting, runs', waiting')
    PROVE  Order'
  BY SweepArrival, NoArrivalOrder DEF Order

\* Workers change no queue: they settle what is running.
LEMMA WorkerOrder ==
    ASSUME TypeOK, Order, NEW lag \in Lags, WorkerStep(lag)
    PROVE  Order'
  <1>1. ASSUME NEW scope, UNCHANGED queueVars, UNCHANGED claimVars,
               \A r \in Requests :
                  \/ runs'[r].exec = RunsAfterExpiry(scope, lag)[r].exec
                  \/ /\ RunsAfterExpiry(scope, lag)[r].exec = "running"
                     /\ runs'[r].exec \in Outcomes
        PROVE  Order'
    <2> DEFINE rs == RunsAfterExpiry(scope, lag)
    <2>1. OrderOf(rs, waiting, queueId, lastQueueId, issued)
      BY SweepArrival
    <2> HIDE DEF rs
    <2>2. NoArrival(rs, waiting, runs', waiting')
      BY <1>1, <2>1 DEF NoArrival, OrderOf, QueueOf, Outcomes, queueVars, rs
    <2>3. QED
      BY <1>1, <2>2, CalmOrder DEF queueVars, claimVars, rs
  <1>2. ASSUME NEW c \in issued, VerifySessionFence(c, lag)
        PROVE  Order'
    <2>1. /\ UNCHANGED queueVars /\ UNCHANGED claimVars
          /\ runs' = RunsAfterExpiry({SessionOf[c.request]}, lag)
      BY <1>2 DEF VerifySessionFence
    <2>2. QED
      BY <1>1, <2>1
  <1>3. ASSUME NEW c \in issued, UNCHANGED queueVars, UNCHANGED claimVars,
               LET rs == RunsAfterExpiry({SessionOf[c.request]}, lag)
                   fs == FencesAfterExpiry({SessionOf[c.request]}, lag)
               IN \/ runs' = rs
                  \/ /\ rs[c.request].exec = "running"
                     /\ \E outcome \in Outcomes : Settle(rs, fs, c, outcome)
        PROVE  Order'
    <2> DEFINE q == c.request
               rs == RunsAfterExpiry({SessionOf[q]}, lag)
               fs == FencesAfterExpiry({SessionOf[q]}, lag)
    <2>1. q \in Requests /\ rs \in RunTable
      BY SweepType, Scopes DEF TypeOK, Claim
    <2>2. CASE runs' = rs
      BY <1>1, <1>3, <2>2
    <2>3. ASSUME NEW outcome \in Outcomes, rs[q].exec = "running", Settle(rs, fs, c, outcome)
          PROVE  Order'
      <3>1. \A r \in Requests : \/ runs'[r].exec = rs[r].exec
                                \/ rs[r].exec = "running" /\ runs'[r].exec \in Outcomes
        <4>1. runs' = [rs EXCEPT ![q].exec = outcome, ![q].old = FALSE,
                                 ![q].closed = @ \/ outcome = "cancelled"]
          BY <2>3 DEF Settle
        <4>2. rs[q].exec = "running"
          BY <2>3
        <4> HIDE DEF rs
        <4>3. runs'[q].exec = outcome /\ \A r \in Requests : r # q => runs'[r] = rs[r]
          BY <2>1, <4>1 DEF RunTable, Run
        <4>4. QED
          BY <4>2, <4>3
      <3>2. QED
        BY <1>1, <1>3, <3>1
    <2>4. QED
      BY <1>3, <2>2, <2>3
  <1>4. ASSUME NEW c \in issued, NEW outcome \in Outcomes, FinishExecution(c, outcome, lag)
        PROVE  Order'
    <2>1. \A run : Effective(run, outcome) \in Outcomes
      BY DEF Effective, Outcomes
    <2>2. QED
      BY <1>3, <1>4, <2>1 DEF FinishExecution
  <1>5. ASSUME NEW c \in issued, RejectExecutionBeforeAgent(c, lag)
        PROVE  Order'
    <2>1. "failed_safe" \in Outcomes
      BY DEF Outcomes
    <2>2. QED
      BY <1>3, <1>5, <2>1 DEF RejectExecutionBeforeAgent
  <1>6. ASSUME NEW c \in issued \cup LegacyClaims, NEW type \in EventTypes,
               NEW id \in 1..Len(events[c.request]) + 1, AppendEvent(c, type, id, lag)
        PROVE  Order'
    <2> DEFINE q == c.request
               executing == Keyed(q) /\ runs[q].exec = "running"
               scope == IF executing THEN {SessionOf[q]} ELSE {}
               rs == RunsAfterExpiry(scope, lag)
    <2>1. q \in Requests /\ scope \in SUBSET Sessions
      BY SessionsAssumption DEF TypeOK, Claim, LegacyClaims
    <2>2. rs \in RunTable
      BY <2>1, SweepType
    <2>3. /\ \/ runs' = rs
             \/ runs' = [rs EXCEPT ![q].closed = @ \/ type \in Terminal, ![q].old = FALSE]
          /\ UNCHANGED queueVars /\ UNCHANGED claimVars
      BY <1>6 DEF AppendEvent
    <2>4. \A r \in Requests : runs'[r].exec = rs[r].exec
      <3> HIDE DEF rs
      <3>1. QED
        BY <2>1, <2>2, <2>3 DEF RunTable, Run
    <2>5. QED
      BY <1>1, <2>3, <2>4
  <1>7. QED
    BY <1>2, <1>4, <1>5, <1>6 DEF WorkerStep

\* What a cancellation takes off the queue is what it cancels.
LEMMA CancelledArrival ==
    ASSUME TypeOK, Order, NEW scope \in SUBSET Sessions, NEW lag \in Lags, NEW targets
    PROVE  LET rs == RunsAfterExpiry(scope, lag)
           IN /\ NoArrival(rs, waiting, CancelledRuns(rs, targets), StillQueued(rs, targets))
              /\ \A r \in Requests : CancelledRuns(rs, targets)[r] \in Run
  <1> DEFINE rs == RunsAfterExpiry(scope, lag)
             cancelled == CancelledRuns(rs, targets)
  <1>1. rs \in RunTable /\ waiting = {r \in Requests : rs[r].exec = "queued"}
    BY SweepType, SweepArrival DEF OrderOf, QueueOf
  <1> HIDE DEF rs
  <1>2. \A r \in Requests :
          /\ cancelled[r].exec = IF r \in targets /\ rs[r].exec = "queued"
                                 THEN "cancelled" ELSE rs[r].exec
          /\ cancelled[r] \in Run
    BY <1>1 DEF CancelledRuns, CancelRow, RunTable, Run, ExecutionStates, Settled
  <1> HIDE DEF cancelled
  <1>3. NoArrival(rs, waiting, cancelled, StillQueued(rs, targets))
    <2>1. StillQueued(rs, targets) = {r \in waiting : cancelled[r].exec = "queued"}
      BY <1>1, <1>2 DEF StillQueued
    <2>2. \A r \in Requests :
            /\ cancelled[r].exec = "queued" => rs[r].exec = "queued"
            /\ Keyed(r) /\ cancelled[r].exec \notin {"absent", "reaped"}
                 => rs[r].exec \notin {"absent", "reaped"}
      BY <1>2
    <2>3. QED
      BY <2>1, <2>2 DEF NoArrival
  <1>4. QED
    BY <1>2, <1>3 DEF rs, cancelled

\* Cancellations take rows and entries off together.
LEMMA CancellationOrder ==
    ASSUME TypeOK, Order, NEW lag \in Lags, NEW s \in Sessions
    PROVE  /\ \A r \in Requests : MarkInterruptedExecution(r, lag) => Order'
           /\ \A targets : RequestCancellation(s, targets, lag) => Order'
  <1>1. ASSUME NEW r \in Requests, MarkInterruptedExecution(r, lag)
        PROVE  Order'
    BY <1>1, SweepArrival DEF MarkInterruptedExecution, ExpireOnly, queueVars, claimVars, Order
  <1>2. ASSUME NEW targets, RequestCancellation(s, targets, lag)
        PROVE  Order'
    <2>1. {s} \in SUBSET Sessions
      OBVIOUS
    <2>2. NoArrival(RunsAfterExpiry({s}, lag), waiting, runs', waiting')
      BY <1>2, <2>1, CancelledArrival DEF RequestCancellation
    <2>3. QED
      BY <1>2, <2>2, CalmOrder DEF RequestCancellation, claimVars
  <1>3. QED
    BY <1>1, <1>2

\* So does the opening of a mutation; its other transactions only sweep.
LEMMA MutationOrder ==
    ASSUME TypeOK, Order, NEW lag \in Lags, NEW s \in Sessions, MutationStep(s, lag)
    PROVE  Order'
  <1>1. ASSUME NEW kind, BeginSessionMutation(s, kind, lag)
        PROVE  Order'
    <2> DEFINE swept == RunsAfterExpiry({s}, lag)
               rs == CancelledRuns(swept, Of(s))
    <2>1. /\ runs' = SupersededRuns(rs, s) /\ waiting' = StillQueued(swept, Of(s))
          /\ UNCHANGED <<queueId, lastQueueId, issued>>
      BY <1>1 DEF BeginSessionMutation, claimVars
    <2>2. {s} \in SUBSET Sessions
      OBVIOUS
    <2>3. NoArrival(swept, waiting, rs, waiting') /\ \A r \in Requests : rs[r] \in Run
      BY <2>1, <2>2, CancelledArrival
    <2> HIDE DEF rs
    <2>4. \A r \in Requests : runs'[r].exec = rs[r].exec
      BY <2>1, <2>3 DEF SupersededRuns, Run
    <2>5. waiting \subseteq Requests
      BY DEF TypeOK
    <2> HIDE DEF swept
    <2>6. NoArrival(swept, waiting, runs', waiting')
      BY <2>3, <2>4, <2>5 DEF NoArrival
    <2>7. QED
      BY <2>1, <2>6, CalmOrder DEF swept
  <1>2. ASSUME NEW token,
               \/ AdvanceContextGeneration(s, token, lag) \/ SessionMutationQuiescence(s, token, lag)
               \/ ReleaseSessionMutation(s, token, lag) \/ RecordDeleteCompletion(s, token, lag)
        PROVE  Order'
    <2>1. /\ runs' = RunsAfterExpiry({s}, lag)
          /\ UNCHANGED <<waiting, queueId, lastQueueId, issued>>
      BY <1>2 DEF AdvanceContextGeneration, SessionMutationQuiescence, ReleaseSessionMutation,
                  RecordDeleteCompletion, ExpireOnly, queueVars, claimVars
    <2>2. QED
      BY <2>1, SweepArrival DEF Order
  <1>3. QED
    BY <1>1, <1>2 DEF MutationStep

\* Retention takes settled rows, which are not in the queue.
LEMMA RetentionOrder ==
    ASSUME TypeOK, Order
    PROVE  Reap \/ Tick \/ (\E q \in Requests : GrowOld(q)) \/ UNCHANGED vars => Order'
  <1>1. waiting = {r \in Requests : runs[r].exec = "queued"}
    BY DEF Order, OrderOf, QueueOf
  <1>2. ASSUME Reap
        PROVE  NoArrival(runs, waiting, runs', waiting') /\ UNCHANGED <<queueId, lastQueueId, issued>>
    <2> DEFINE dead == {r \in Requests : runs[r].exec \in Settled /\ runs[r].old}
    <2>1. \A r \in Requests : runs'[r] = IF r \in dead THEN NoRun("reaped") ELSE runs[r]
      BY <1>2 DEF Reap
    <2>2. waiting' = waiting \ dead /\ UNCHANGED <<queueId, lastQueueId, issued>>
      BY <1>2 DEF Reap, claimVars
    <2>3. waiting' = {r \in waiting : runs'[r].exec = "queued"}
      BY <1>1, <2>1, <2>2 DEF Settled, NoRun
    <2>4. QED
      BY <2>1, <2>2, <2>3 DEF NoArrival, NoRun
  <1>3. ASSUME NEW q \in Requests, GrowOld(q)
        PROVE  NoArrival(runs, waiting, runs', waiting') /\ UNCHANGED <<queueId, lastQueueId, issued>>
    <2>1. \A r \in Requests : runs'[r].exec = runs[r].exec
      BY <1>3 DEF GrowOld, TypeOK, Run
    <2>2. QED
      BY <1>1, <1>3, <2>1 DEF GrowOld, NoArrival, queueVars, claimVars
  <1>4. ASSUME Tick \/ UNCHANGED vars
        PROVE  Order'
    BY <1>4 DEF Tick, vars, queueVars, claimVars, Order
  <1>5. QED
    BY <1>2, <1>3, <1>4, NoArrivalOrder DEF Order

\* Every step preserves the order of the queue.
LEMMA OrderStep == TypeOK /\ Authority /\ Order /\ [Next]_vars => Order'
  <1> SUFFICES ASSUME TypeOK, Authority, Order, [Next]_vars
               PROVE  Order'
    OBVIOUS
  <1>1. ASSUME NEW lag \in Lags, NEW r \in Requests,
               \/ RequestExecutionCancellation(r, lag) \/ MarkInterruptedExecution(r, lag)
        PROVE  Order'
    <2>1. SessionOf[r] \in Sessions
      BY SessionsAssumption
    <2>2. QED
      BY <1>1, <2>1, CancellationOrder DEF RequestExecutionCancellation
  <1>2. ASSUME NEW lag \in Lags, NEW s \in Sessions, RequestSessionCancellation(s, lag)
        PROVE  Order'
    BY <1>2, CancellationOrder DEF RequestSessionCancellation
  <1>3. ASSUME NEW lag \in Lags,
               \/ \E r \in Requests : ClaimExecution(r, lag)
               \/ \E s \in Sessions : ClaimNextQueuedExecution({s}, lag)
               \/ ClaimNextQueuedExecution(Sessions, lag)
        PROVE  Order'
    <2>1. Sessions \in SUBSET Sessions /\ \A s \in Sessions : {s} \in SUBSET Sessions
      OBVIOUS
    <2>2. QED
      BY <1>3, <2>1, AdmissionOrder
  <1>4. ASSUME NEW r \in Requests, BeginLegacy(r)
        PROVE  Order'
    <2>1. 0 \in Lags
      BY LeaseAssumption DEF Lags
    <2>2. QED
      BY <1>4, <2>1, AdmissionOrder
  <1>5. QED
    BY <1>1, <1>2, <1>3, <1>4, WorkerOrder, MutationOrder, RetentionOrder DEF Next

\* The inductive invariant of the queue.
LEMMA OrderHolds == Spec => []Order
  <1>1. Init => Order
    BY DEF Init, Order, OrderOf, QueueOf, ServiceOf, KeysOf, NoRun
  <1>2. QED
    BY <1>1, OrderStep, LedgerSafe, PTL DEF Spec

\* No queue entry is lost and none survives the end of its run, whatever
\* admissions, claims, cancellations, mutations and retention interleave.
THEOREM QueueIsExact == Spec => []QueueMatchesRuns
  <1>1. Order => QueueMatchesRuns
    BY DEF Order, OrderOf, QueueOf, QueueMatchesRuns
  <1>2. QED
    BY <1>1, OrderHolds, PTL

\* The requests of a session are claimed in the order they were accepted,
\* whichever process claims them and whatever happens between two claims.
THEOREM ServiceInOrder == Spec => []ServedInOrder
  <1>1. Order => ServedInOrder
    BY DEF Order, OrderOf, ServiceOf, ServedInOrder
  <1>2. QED
    BY <1>1, OrderHolds, PTL

\* Two executions of one idempotency key are possible only after retention has
\* removed the settled record of one of them.
THEOREM KeysExecuteOnce == Spec => []KeyExecutesOnce
  <1>1. TypeOK /\ Authority /\ Order => KeyExecutesOnce
    <2> SUFFICES ASSUME TypeOK, Authority, Order, NEW c \in issued, NEW d \in issued, c # d,
                        SessionOf[c.request] = SessionOf[d.request],
                        KeyOf[c.request] = KeyOf[d.request],
                        \A e \in {c, d} : runs[e.request].exec # "reaped"
                 PROVE  FALSE
      BY DEF KeyExecutesOnce
    <2>1. /\ c.request \in Requests /\ d.request \in Requests
          /\ runs[c.request].exec \notin {"absent", "reaped"}
          /\ runs[d.request].exec \notin {"absent", "reaped"}
          /\ c.request # d.request
      BY DEF Authority, SafeTables, HistoryOf, TypeOK, Claim
    <2>2. Keyed(c.request) /\ Keyed(d.request)
      BY DEF Order, OrderOf, ServiceOf
    <2>3. QED
      BY <2>1, <2>2 DEF Order, OrderOf, KeysOf
  <1>2. QED
    BY <1>1, OrderHolds, LedgerSafe, PTL

(***************************************************************************)
(* Live leases.                                                            *)
(***************************************************************************)

\* The session keeps the fence of the same claim.
KeepsFence(s) == fences'[s] # NoFence /\ fences'[s].epoch = fences[s].epoch

\* The fence is given up by a settlement of the claim that owns it.
GivenUp(s) ==
    \E c \in issued, lag \in Lags :
        /\ Owns(fences, c) /\ SessionOf[c.request] = s
        /\ \/ RejectExecutionBeforeAgent(c, lag)
           \/ \E outcome \in Outcomes : FinishExecution(c, outcome, lag)

\* No clock that is at most MaxLag behind sees a live lease expired.
LEMMA LiveUnswept ==
    ASSUME TypeOK, NEW s \in Sessions, fences[s] # NoFence, fences[s].rem > 0,
           NEW scope, NEW lag \in Lags
    PROVE  FencesAfterExpiry(scope, lag)[s] = fences[s]
  <1>1. lag \in Nat /\ fences[s].rem \in Int
    BY LeaseAssumption DEF Lags, TypeOK, Fence
  <1>2. QED
    BY <1>1 DEF FencesAfterExpiry, Expired

\* A claim goes to a session without a fence.
LEMMA ClaimKeepsFence ==
    ASSUME TypeOK, NEW s \in Sessions, fences[s] # NoFence,
           NEW rs, NEW fs \in FenceTable, fs[s] = fences[s], NEW queue, NEW ids, NEW scope, NEW lag,
           ClaimNextQueued(rs, fs, queue, ids, scope, lag)
    PROVE  KeepsFence(s)
  <1>1. CASE fences' = fs
    BY <1>1 DEF KeepsFence
  <1>2. ASSUME NEW q \in Claimable(rs, fs, queue, scope), ClaimEntry(q, rs, fs, queue, lag)
        PROVE  KeepsFence(s)
    <2>1. SessionOf[q] # s
      BY DEF Claimable
    <2>2. fences'[s] = fs[s]
      BY <1>2, <2>1 DEF ClaimEntry, FenceTable
    <2>3. QED
      BY <2>2 DEF KeepsFence
  <1>3. QED
    BY <1>1, <1>2 DEF ClaimNextQueued

\* A worker renews its own fence, gives it up, or leaves all fences alone.
LEMMA LiveWorkers ==
    ASSUME TypeOK, NEW lag \in Lags, WorkerStep(lag), NEW s \in Sessions,
           fences[s] # NoFence, fences[s].rem > 0
    PROVE  KeepsFence(s) \/ GivenUp(s)
  <1>1. ASSUME NEW scope, fences' = FencesAfterExpiry(scope, lag)
        PROVE  KeepsFence(s)
    BY <1>1, LiveUnswept DEF KeepsFence
  <1>2. ASSUME NEW c \in issued, VerifySessionFence(c, lag)
        PROVE  KeepsFence(s)
    <2> DEFINE q == SessionOf[c.request]
               fs == FencesAfterExpiry({q}, lag)
    <2>1. fs \in FenceTable /\ fs[s] = fences[s]
      BY LiveUnswept, SweepType, Scopes DEF TypeOK, Claim
    <2>2. fences' = fs \/ fences' = [fs EXCEPT ![q].rem = Lease - lag]
      BY <1>2 DEF VerifySessionFence
    <2>3. CASE fences' = fs
      BY <2>1, <2>3 DEF KeepsFence
    <2>4. CASE fences' = [fs EXCEPT ![q].rem = Lease - lag]
      <3> DEFINE new == [fences[s] EXCEPT !.rem = Lease - lag]
      <3>1. fences'[s] = fences[s] \/ fences'[s] = new
        <4> HIDE DEF fs
        <4>1. QED
          BY <2>1, <2>4 DEF FenceTable
      <3>2. new \in Fence /\ new.epoch = fences[s].epoch
        <4>1. fences[s] \in Fence /\ Lease - lag \in Int
          BY LeaseAssumption DEF TypeOK, Lags
        <4>2. QED
          BY <4>1 DEF Fence
      <3>3. QED
        BY <3>1, <3>2, NullAssumption DEF KeepsFence
    <2>5. QED
      BY <2>2, <2>3, <2>4
  <1>3. ASSUME NEW c \in issued,
               LET q == SessionOf[c.request]
                   rs == RunsAfterExpiry({q}, lag)
                   fs == FencesAfterExpiry({q}, lag)
               IN \/ fences' = fs
                  \/ Owns(fs, c) /\ \E outcome : Settle(rs, fs, c, outcome)
        PROVE  KeepsFence(s) \/ (Owns(fences, c) /\ SessionOf[c.request] = s)
    <2> DEFINE q == SessionOf[c.request]
               rs == RunsAfterExpiry({q}, lag)
               fs == FencesAfterExpiry({q}, lag)
    <2>1. fs \in FenceTable /\ fs[s] = fences[s]
      BY LiveUnswept, SweepType, Scopes DEF TypeOK, Claim
    <2>2. CASE fences' = fs
      BY <1>1, <2>2
    <2>3. CASE Owns(fs, c) /\ fences' = [fs EXCEPT ![q] = NoFence]
      <3> HIDE DEF fs
      <3>1. CASE q = s
        BY <2>1, <2>3, <3>1 DEF Owns
      <3>2. CASE q # s
        BY <2>1, <2>3, <3>2 DEF FenceTable, KeepsFence
      <3>3. QED
        BY <3>1, <3>2
    <2>4. QED
      BY <1>3, <2>2, <2>3 DEF Settle
  <1>4. ASSUME NEW c \in issued, NEW outcome \in Outcomes, FinishExecution(c, outcome, lag)
        PROVE  KeepsFence(s) \/ GivenUp(s)
    <2>1. KeepsFence(s) \/ (Owns(fences, c) /\ SessionOf[c.request] = s)
      BY <1>3, <1>4 DEF FinishExecution
    <2>2. QED
      BY <1>4, <2>1 DEF GivenUp
  <1>5. ASSUME NEW c \in issued, RejectExecutionBeforeAgent(c, lag)
        PROVE  KeepsFence(s) \/ GivenUp(s)
    <2>1. KeepsFence(s) \/ (Owns(fences, c) /\ SessionOf[c.request] = s)
      BY <1>3, <1>5 DEF RejectExecutionBeforeAgent
    <2>2. QED
      BY <1>5, <2>1 DEF GivenUp
  <1>6. ASSUME NEW c, NEW type, NEW id, AppendEvent(c, type, id, lag)
        PROVE  KeepsFence(s)
    BY <1>1, <1>6 DEF AppendEvent
  <1>7. QED
    BY <1>2, <1>4, <1>5, <1>6 DEF WorkerStep

\* A live lease ends only by a settlement of the claim that holds it: no sweep,
\* takeover, cancellation, mutation or retention frees the session earlier,
\* whichever clock it uses: what is live on the foremost clock is so on all.
THEOREM LiveLeasesAreKept == Spec => LiveLeaseNotStolen
  <1> DEFINE Unstolen == \A s \in Sessions :
               (/\ fences[s] # NoFence /\ fences[s].rem > 0
                /\ fences'[s] = NoFence \/ fences'[s].epoch # fences[s].epoch) => GivenUp(s)
  <1>1. ASSUME TypeOK, Authority, [Next]_vars
        PROVE  Unstolen
    <2> SUFFICES ASSUME NEW s \in Sessions, fences[s] # NoFence, fences[s].rem > 0
                 PROVE  KeepsFence(s) \/ GivenUp(s)
      BY DEF KeepsFence
    <2>1. ASSUME NEW scope, NEW lag \in Lags, fences' = FencesAfterExpiry(scope, lag)
          PROVE  KeepsFence(s)
      BY <1>1, <2>1, LiveUnswept DEF KeepsFence
    <2>2. ASSUME NEW lag \in Lags, NEW scope \in SUBSET Sessions, NEW rs, NEW queue, NEW ids,
                 ClaimNextQueued(rs, FencesAfterExpiry(scope, lag), queue, ids, scope, lag)
          PROVE  KeepsFence(s)
      <3> DEFINE fs == FencesAfterExpiry(scope, lag)
      <3>1. fs \in FenceTable /\ fs[s] = fences[s]
        BY <1>1, LiveUnswept, SweepType
      <3>2. ClaimNextQueued(rs, fs, queue, ids, scope, lag)
        BY <2>2
      <3> HIDE DEF fs
      <3>3. QED
        BY <1>1, <3>1, <3>2, ClaimKeepsFence
    <2>3. ASSUME NEW lag \in Lags, NEW r \in Requests, ClaimExecution(r, lag)
          PROVE  KeepsFence(s)
      BY <2>2, <2>3, Scopes DEF ClaimExecution
    <2>4. ASSUME NEW lag \in Lags, NEW scope \in SUBSET Sessions,
                 ClaimNextQueuedExecution(scope, lag)
          PROVE  KeepsFence(s)
      BY <2>2, <2>4 DEF ClaimNextQueuedExecution
    <2>5. ASSUME NEW lag \in Lags, NEW r \in Requests,
                 RequestExecutionCancellation(r, lag) \/ MarkInterruptedExecution(r, lag)
          PROVE  KeepsFence(s)
      BY <2>1, <2>5 DEF RequestExecutionCancellation, RequestCancellation,
                        MarkInterruptedExecution, ExpireOnly
    <2>6. ASSUME NEW lag \in Lags, NEW q \in Sessions,
                 RequestSessionCancellation(q, lag) \/ MutationStep(q, lag)
          PROVE  KeepsFence(s)
      <3>1. fences' = FencesAfterExpiry({q}, lag)
        BY <2>6 DEF RequestSessionCancellation, RequestCancellation, MutationStep,
                    BeginSessionMutation, AdvanceContextGeneration, SessionMutationQuiescence,
                    ReleaseSessionMutation, RecordDeleteCompletion, ExpireOnly
      <3>2. QED
        BY <2>1, <3>1
    <2>7. CASE UNCHANGED fences
      BY <2>7 DEF KeepsFence
    <2>8. CASE Reap
      <3>1. fences[s].request \in Requests /\ runs[fences[s].request].exec = "running"
        BY <1>1 DEF TypeOK, Fence, Authority, SafeTables, OwnershipOf
      <3>2. fences'[s] = fences[s]
        BY <2>8, <3>1 DEF Reap, Settled
      <3>3. QED
        BY <3>2 DEF KeepsFence
    <2>9. CASE Tick
      <3> DEFINE new == [fences[s] EXCEPT !.rem = @ - 1]
      <3>1. fences'[s] = fences[s] \/ fences'[s] = new
        BY <2>9 DEF Tick
      <3>2. new \in Fence /\ new.epoch = fences[s].epoch
        <4>1. fences[s] \in Fence
          BY <1>1 DEF TypeOK
        <4>2. QED
          BY <4>1 DEF Fence
      <3>3. QED
        BY <3>1, <3>2, NullAssumption DEF KeepsFence
    <2>10. UNCHANGED vars \/ (\E r \in Requests : BeginLegacy(r) \/ GrowOld(r)) => UNCHANGED fences
      BY DEF vars, BeginLegacy, GrowOld
    <2>11. Sessions \in SUBSET Sessions /\ \A q \in Sessions : {q} \in SUBSET Sessions
      OBVIOUS
    <2>12. QED
      BY <1>1, <2>3, <2>4, <2>5, <2>6, <2>7, <2>8, <2>9, <2>10, <2>11, LiveWorkers DEF Next
  <1>2. TypeOK /\ Authority /\ [Next]_vars => [Unstolen]_vars
    BY <1>1
  <1>3. QED
    BY <1>2, LedgerSafe, PTL DEF Spec, LiveLeaseNotStolen, GivenUp

=============================================================================
