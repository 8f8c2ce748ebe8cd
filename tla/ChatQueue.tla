------------------------------ MODULE ChatQueue ------------------------------
(***************************************************************************)
(* The message queues of one IM channel: ChatChannel (channel/             *)
(* chat_channel.py) with the cancel tokens and the session locks of the    *)
(* handlers it dispatches to (agent/protocol/cancel.py, bridge/            *)
(* agent_bridge.py).                                                       *)
(*                                                                         *)
(* The platform's callbacks put messages into one queue per session; one   *)
(* consumer thread polls the sessions, takes a permit and a message, and   *)
(* submits it to a pool; the callback of the future gives the permit back. *)
(* A recall takes a queue apart and puts the rest back; the reset command  *)
(* of an administrator, itself a message, cancels futures and replaces     *)
(* queues.  The channel lock guards the map of sessions, but the consumer  *)
(* looks into a queue, takes from it and counts permits without it.        *)
(*                                                                         *)
(* Abstractions.                                                           *)
(*  - A queue is an object: the last one of queues[s] is that of session   *)
(*    s, and the consumer may still hold one that was replaced.            *)
(*  - A handler that is no reset runs the agent, under the lock of its     *)
(*    session and with a cancel token of its own, and ends.                *)
(*  - Replies, plugins and /steer are left out (AgentTurn has the inbox).  *)
(***************************************************************************)
EXTENDS Integers, Sequences, FiniteSets, SequencesExt

CONSTANTS
    Messages, Sessions,
    SessionOf,    \* [Messages -> Sessions]
    Urgent,       \* "#" messages, put at the head of their queue
    Resets,       \* #reset and #resetall messages
    ResetsOf,     \* [Resets -> SUBSET Sessions], what they cancel
    Recalls,      \* messages their senders may recall
    Concurrency,  \* concurrency_in_session, 1 by default
    PoolSize,     \* workers of handler_pool, 8
    NoOne, NoFutures

ASSUME MessagesAssumption ==
    /\ SessionOf \in [Messages -> Sessions]
    /\ Urgent \subseteq Messages /\ Resets \subseteq Messages
    /\ ResetsOf \in [Resets -> SUBSET Sessions] /\ Recalls \subseteq Messages
    /\ NoOne \notin Messages \cup Sessions

ASSUME SizesAssumption == Concurrency \in Nat \ {0} /\ PoolSize \in Nat \ {0}

Stages == {"new", "queued", "kept", "removed",          \* not dispatched
           "pending", "started", "waiting", "running",  \* a future not done
           "done", "dropped", "released", "stuck"}

VARIABLES
    queues,    \* [Sessions -> Seq(Seq(Messages))], its Dequeue objects
    live,      \* [Sessions -> BOOLEAN], the keys of self.sessions
    permits,   \* [Sessions -> Nat], the semaphore of a session
    futures,   \* [Sessions -> FutureLists], NoFutures before the first
    lock,      \* what holds the channel lock over several steps
    stage,     \* [Messages -> Stages]
    arrivals,  \* history: the messages in the order they were produced
    taken,     \* history: [Messages -> Nat], times a message was dispatched
    consumer,  \* [pc, todo, session, queue, message] of the consumer thread
    recall,    \* [phase, message, left, kept] of the recall under way
    recalled,  \* the recalls that have started
    tokens,    \* keys of the cancel registry
    signalled, \* keys whose event is set
    runLock    \* [Sessions -> Messages or NoOne], who runs in a session

channel == <<queues, live, permits, futures, lock>>
history == <<arrivals, taken>>
registry == <<tokens, signalled, runLock>>
recalls == <<recall, recalled>>
vars == <<channel, stage, history, consumer, recalls, registry>>

NoRecall == [phase |-> "none", message |-> NoOne, left |-> 0, kept |-> <<>>]
Idle == [pc |-> "scan", todo |-> {}, session |-> NoOne, queue |-> 0, message |-> NoOne]

Consumers == [pc : {"scan", "look", "check", "get", "submit", "retire", "dead"},
              todo : SUBSET Sessions, session : Sessions \cup {NoOne},
              queue : Nat, message : Messages \cup {NoOne}]
Recallings == [phase : {"none", "take", "signal"}, message : Recalls \cup {NoOne},
               left : Nat, kept : Seq(Messages)]
FutureLists == (SUBSET Messages) \cup {NoFutures}

TypeOK ==
    /\ queues \in [Sessions -> Seq(Seq(Messages))] /\ live \in [Sessions -> BOOLEAN]
    /\ permits \in [Sessions -> Nat]
    /\ futures \in [Sessions -> FutureLists]
    /\ lock \in {"free", "recall", "stuck"}
    /\ stage \in [Messages -> Stages]
    /\ arrivals \in Seq(Messages) /\ taken \in [Messages -> Nat]
    /\ consumer \in Consumers /\ recall \in Recallings
    /\ recalled \subseteq Recalls
    /\ signalled \subseteq tokens
    /\ runLock \in [Sessions -> Messages \cup {NoOne}]

Init ==
    /\ queues = [s \in Sessions |-> <<>>] /\ live = [s \in Sessions |-> FALSE]
    /\ permits = [s \in Sessions |-> 0]
    /\ futures = [s \in Sessions |-> NoFutures]
    /\ lock = "free"
    /\ stage = [m \in Messages |-> "new"]
    /\ arrivals = <<>> /\ taken = [m \in Messages |-> 0]
    /\ consumer = Idle
    /\ recall = NoRecall /\ recalled = {}
    /\ tokens = {} /\ signalled = {}
    /\ runLock = [s \in Sessions |-> NoOne]

\* The queue a live session has, and the one the consumer holds
Queue(s) == Last(queues[s])
Held == queues[consumer.session][consumer.queue]

\* A queue of its own is put in the place of the last one of a session.
Replaced(s, queue) == [queues[s] EXCEPT ![Len(queues[s])] = queue]

Move(m, to) == stage' = [stage EXCEPT ![m] = to]

----------------------------------------------------------------------------
(* produce()                                                               *)

Put(queue, m) == IF m \in Urgent THEN <<m>> \o queue ELSE Append(queue, m)

Produce(m) ==
    LET s == SessionOf[m] IN
    /\ stage[m] = "new" /\ lock = "free"
    /\ \/ /\ ~live[s]
          /\ queues' = [queues EXCEPT ![s] = Append(@, <<m>>)]
          /\ live' = [live EXCEPT ![s] = TRUE]
          /\ permits' = [permits EXCEPT ![s] = Concurrency]
       \/ /\ live[s]
          /\ queues' = [queues EXCEPT ![s] = Replaced(s, Put(Queue(s), m))]
          /\ UNCHANGED <<live, permits>>
    /\ Move(m, "queued")
    /\ arrivals' = Append(arrivals, m)
    /\ UNCHANGED <<futures, lock, taken, consumer, recalls, registry>>

\* /cancel bypasses the queue: cancel_session() of the registry
CancelCommand(s) ==
    /\ signalled' = signalled \cup {k \in tokens : SessionOf[k] = s}
    /\ UNCHANGED <<channel, stage, history, consumer, recalls, tokens, runLock>>

----------------------------------------------------------------------------
(* consume()                                                               *)

\* The round over the sessions goes on.
NextSession(s) == [Idle EXCEPT !.pc = IF consumer.todo = {s} THEN "scan" ELSE "look",
                               !.todo = consumer.todo \ {s}]

Scan ==
    /\ consumer.pc = "scan" /\ lock = "free"
    /\ \E s \in Sessions : live[s]
    /\ consumer' = [Idle EXCEPT !.pc = "look",
                                !.todo = {s \in Sessions : live[s]}]
    /\ UNCHANGED <<channel, stage, history, recalls, registry>>

\* The queue and the semaphore of a session; a permit, if there is one
Look(s) ==
    /\ consumer.pc = "look" /\ s \in consumer.todo /\ lock = "free"
    /\ \/ /\ permits[s] = 0
          /\ consumer' = NextSession(s) /\ UNCHANGED permits
       \/ /\ permits[s] > 0
          /\ permits' = [permits EXCEPT ![s] = @ - 1]
          /\ consumer' = [consumer EXCEPT !.pc = "check", !.session = s,
                                          !.queue = Len(queues[s])]
    /\ UNCHANGED <<queues, live, futures, lock, stage, history, recalls, registry>>

\* Mutant: the permit is not given back when other messages are handled.
Check_KeepsPermit ==
    LET s == consumer.session
        empty == Held = <<>> IN
    /\ consumer.pc = "check"
    /\ \/ ~empty /\ consumer' = [consumer EXCEPT !.pc = "get"]
       \/ empty /\ permits[s] + 1 = Concurrency /\ consumer' = [consumer EXCEPT !.pc = "retire"]
       \/ empty /\ permits[s] + 1 # Concurrency /\ consumer' = NextSession(s)
    /\ UNCHANGED <<channel, stage, history, recalls, registry>>

\* empty(), and without a message the count of the permits: no lock
Check ==
    LET s == consumer.session
        empty == Held = <<>> IN
    /\ consumer.pc = "check"
    /\ \/ /\ ~empty
          /\ consumer' = [consumer EXCEPT !.pc = "get"] /\ UNCHANGED permits
       \/ /\ empty /\ permits[s] + 1 = Concurrency
          /\ consumer' = [consumer EXCEPT !.pc = "retire"] /\ UNCHANGED permits
       \/ /\ empty /\ permits[s] + 1 # Concurrency
          /\ consumer' = NextSession(s)
          /\ permits' = [permits EXCEPT ![s] = @ + 1]
    /\ UNCHANGED <<queues, live, futures, lock, stage, history, recalls, registry>>

\* get() waits as long as the queue is empty, then the handler is submitted.
Get ==
    /\ consumer.pc = "get" /\ Held # <<>>
    /\ queues' = [queues EXCEPT ![consumer.session][consumer.queue] = Tail(@)]
    /\ Move(Head(Held), "pending")
    /\ taken' = [taken EXCEPT ![Head(Held)] = @ + 1]
    /\ consumer' = [consumer EXCEPT !.pc = "submit", !.message = Head(Held)]
    /\ UNCHANGED <<live, permits, futures, lock, arrivals, recalls, registry>>

FuturesOf(s) == IF futures[s] = NoFutures THEN {} ELSE futures[s]

\* The future joins the list of its session.
Submit ==
    LET s == consumer.session IN
    /\ consumer.pc = "submit" /\ lock = "free"
    /\ futures' = [futures EXCEPT ![s] = FuturesOf(s) \cup {consumer.message}]
    /\ consumer' = NextSession(s)
    /\ UNCHANGED <<queues, live, permits, lock, stage, history, recalls, registry>>

FutureDone(m) == stage[m] \in {"done", "dropped", "released"}

\* There is a list of futures, and all of them are done.
Retirable(s) == futures[s] # NoFutures /\ \A m \in FuturesOf(s) : FutureDone(m)

\* del self.sessions[session_id], with whatever has come into the queue since
\* it was looked at.  A session that never had a future raises KeyError, which
\* nothing catches, and so does the assertion.
Retire ==
    LET s == consumer.session IN
    /\ consumer.pc = "retire" /\ lock = "free"
    /\ \/ /\ Retirable(s)
          /\ futures' = [futures EXCEPT ![s] = {}]
          /\ live' = [live EXCEPT ![s] = FALSE]
          /\ permits' = [permits EXCEPT ![s] = 0]
          /\ consumer' = NextSession(s)
       \/ /\ ~Retirable(s)
          /\ consumer' = [consumer EXCEPT !.pc = "dead"]
          /\ UNCHANGED <<futures, live, permits>>
    /\ UNCHANGED <<queues, lock, stage, history, recalls, registry>>

----------------------------------------------------------------------------
(* cancel_message(), the recall of one message                             *)

\* Mutant: the recall does not hold the channel lock.
Recall_Unlocked(m) ==
    LET s == SessionOf[m] IN
    /\ m \in Recalls \ recalled /\ recall = NoRecall /\ lock = "free"
    /\ live[s]
    /\ recall' = [phase |-> "take", message |-> m,
                  left |-> Len(Queue(s)), kept |-> <<>>]
    /\ recalled' = recalled \cup {m}
    /\ UNCHANGED <<channel, stage, history, consumer, registry>>

Recall(m) ==
    LET s == SessionOf[m] IN
    /\ m \in Recalls \ recalled /\ recall = NoRecall /\ lock = "free"
    /\ \/ /\ live[s]
          /\ lock' = "recall"
          /\ recall' = [phase |-> "take", message |-> m,
                        left |-> Len(Queue(s)), kept |-> <<>>]
       \/ /\ ~live[s] /\ UNCHANGED lock
          /\ recall' = [NoRecall EXCEPT !.phase = "signal", !.message = m]
    /\ recalled' = recalled \cup {m}
    /\ UNCHANGED <<queues, live, permits, futures, stage, history, consumer, registry>>

RecallStill == UNCHANGED <<live, permits, futures, history, consumer, recalled, registry>>

\* Mutant: the messages are copied, not taken.
RecallTake_Copies ==
    LET m == recall.message
        s == SessionOf[m] IN
    /\ recall.phase = "take" /\ recall.left > 0 /\ Len(Queue(s)) >= recall.left
    /\ LET next == Queue(s)[Len(Queue(s)) - recall.left + 1] IN
         recall' = [recall EXCEPT !.left = @ - 1, !.kept = Append(@, next)]
    /\ UNCHANGED <<lock, queues, stage>>
    /\ RecallStill

\* One get_nowait(): a message the consumer has taken meanwhile is missed at
\* the end, the exception leaves the lock, and the kept ones are nowhere.
RecallTake ==
    LET m == recall.message
        s == SessionOf[m] IN
    /\ recall.phase = "take" /\ recall.left > 0
    /\ \/ /\ Queue(s) = <<>>
          /\ recall' = NoRecall /\ lock' = "free"
          /\ UNCHANGED <<queues, stage>>
       \/ /\ Queue(s) # <<>>
          /\ LET next == Head(Queue(s)) IN
               /\ recall' = [recall EXCEPT !.left = @ - 1,
                               !.kept = IF next = m THEN @ ELSE Append(@, next)]
               /\ Move(next, IF next = m THEN "removed" ELSE "kept")
          /\ queues' = [queues EXCEPT ![s] = Replaced(s, Tail(Queue(s)))]
          /\ UNCHANGED lock
    /\ RecallStill

RecallPut ==
    LET s == SessionOf[recall.message] IN
    /\ recall.phase = "take" /\ recall.left = 0
    /\ \/ /\ recall.kept # <<>>
          /\ queues' = [queues EXCEPT ![s] = Replaced(s, Append(Queue(s), Head(recall.kept)))]
          /\ Move(Head(recall.kept), "queued")
          /\ recall' = [recall EXCEPT !.kept = Tail(@)]
          /\ UNCHANGED lock
       \/ /\ recall.kept = <<>>
          /\ recall' = [recall EXCEPT !.phase = "signal"] /\ lock' = "free"
          /\ UNCHANGED <<queues, stage>>
    /\ RecallStill

\* Mutant: the token of a run is that of its session.
TokenOf_Session(m) == CHOOSE k \in Messages : SessionOf[k] = SessionOf[m]

\* request_id, or a key of its own for the run
TokenOf(m) == m

\* cancel_request(): nothing is registered before the handler has begun.
RecallSignal ==
    /\ recall.phase = "signal"
    /\ signalled' = signalled \cup ({TokenOf(recall.message)} \cap tokens)
    /\ recall' = NoRecall
    /\ UNCHANGED <<channel, stage, history, consumer, recalled, tokens, runLock>>

----------------------------------------------------------------------------
(* The handlers                                                            *)

Working == {"started", "waiting", "running", "stuck"}

HandlerStill == UNCHANGED <<queues, live, futures, history, consumer, recalls>>

Begin(m) ==
    /\ stage[m] = "pending"
    /\ Cardinality({n \in Messages : stage[n] \in Working}) < PoolSize
    /\ Move(m, "started")
    /\ HandlerStill /\ UNCHANGED <<lock, permits, registry>>

\* agent_reply() registers its cancel token before it waits for the session.
Register(m) ==
    /\ stage[m] = "started" /\ m \notin Resets
    /\ tokens' = tokens \cup {TokenOf(m)}
    /\ Move(m, "waiting")
    /\ HandlerStill /\ UNCHANGED <<lock, permits, signalled, runLock>>

Unregister(m) ==
    /\ tokens' = tokens \ {TokenOf(m)} /\ signalled' = signalled \ {TokenOf(m)}

\* Mutant: the early return of a cancelled run forgets the session's lock.
Enter_KeepsLock(m) ==
    /\ stage[m] = "waiting" /\ runLock[SessionOf[m]] = NoOne
    /\ \/ /\ TokenOf(m) \in signalled
          /\ Move(m, "done") /\ Unregister(m)
       \/ /\ TokenOf(m) \notin signalled
          /\ Move(m, "running") /\ UNCHANGED <<tokens, signalled>>
    /\ runLock' = [runLock EXCEPT ![SessionOf[m]] = m]
    /\ HandlerStill /\ UNCHANGED <<lock, permits>>

\* With the lock of the session: run, unless cancelled while waiting for it
Enter(m) ==
    /\ stage[m] = "waiting" /\ runLock[SessionOf[m]] = NoOne
    /\ \/ /\ TokenOf(m) \in signalled
          /\ Move(m, "done") /\ Unregister(m) /\ UNCHANGED runLock
       \/ /\ TokenOf(m) \notin signalled
          /\ Move(m, "running")
          /\ runLock' = [runLock EXCEPT ![SessionOf[m]] = m]
          /\ UNCHANGED <<tokens, signalled>>
    /\ HandlerStill /\ UNCHANGED <<lock, permits>>

Finish(m) ==
    /\ stage[m] = "running"
    /\ Move(m, "done") /\ Unregister(m)
    /\ runLock' = [runLock EXCEPT ![SessionOf[m]] = NoOne]
    /\ HandlerStill /\ UNCHANGED <<lock, permits>>

\* The callback of the future
Release(m) ==
    /\ stage[m] = "done" /\ lock = "free"
    /\ permits' = [permits EXCEPT ![SessionOf[m]] = @ + 1]
    /\ Move(m, "released")
    /\ HandlerStill /\ UNCHANGED <<lock, registry>>

\* cancel_session() and cancel_all_session(), in the handler of a command.
\* Cancelling a pending future runs its callback in this thread, which waits
\* for the lock this thread holds: what it did to other queues is never seen.
ResetSessions(m) ==
    LET hit == {s \in ResetsOf[m] : live[s]}
        pending == {n \in Messages : /\ stage[n] = "pending"
                                     /\ \E s \in hit : n \in FuturesOf(s)}
    IN /\ stage[m] = "started" /\ m \in Resets /\ lock = "free"
       /\ \/ /\ pending = {}
             /\ queues' = [s \in Sessions |-> IF s \in hit THEN Append(queues[s], <<>>)
                                             ELSE queues[s]]
             /\ Move(m, "done") /\ UNCHANGED lock
          \/ /\ \E n \in pending :
                  stage' = [stage EXCEPT ![m] = "stuck", ![n] = "dropped"]
             /\ lock' = "stuck" /\ UNCHANGED queues
       /\ UNCHANGED <<live, futures, permits, history, consumer, recalls, registry>>

----------------------------------------------------------------------------
Consume == Scan \/ (\E s \in Sessions : Look(s)) \/ Check \/ Get \/ Submit \/ Retire
Recalling == RecallTake \/ RecallPut \/ RecallSignal
Handle(m) ==
    Begin(m) \/ Register(m) \/ Enter(m) \/ Finish(m) \/ Release(m) \/ ResetSessions(m)

Next ==
    \/ \E m \in Messages : Produce(m) \/ Recall(m) \/ Handle(m)
    \/ \E s \in Sessions : CancelCommand(s)
    \/ Consume \/ Recalling

Spec == Init /\ [][Next]_vars

\* The consumer, a recall and the handlers keep going; a lock and a worker are
\* taken again and again by others, and come to everybody who waits for one.
FairSpec ==
    /\ Spec /\ WF_vars(Consume) /\ WF_vars(Recalling)
    /\ \A m \in Messages : SF_vars(Handle(m))

----------------------------------------------------------------------------
\* The messages that have a permit, and whether the consumer has one in hand
Out(s) == {m \in Messages : /\ SessionOf[m] = s
                            /\ stage[m] \in Working \cup {"pending", "done", "dropped"}}
InHand(s) == consumer.session = s /\ consumer.pc \in {"check", "get", "retire", "dead"}

\* The permits of a session: free, in the consumer's hand, or with a message
\* between its dispatch and the callback of its future.  So the assertion in
\* consume(), "thread pool error", never fails: a session is retired when all
\* its futures are done.  (With it, the types of the variables.)
PermitsBalance ==
    /\ TypeOK
    /\ \A s \in Sessions : live[s] =>
          permits[s] + Cardinality(Out(s)) + (IF InHand(s) THEN 1 ELSE 0) = Concurrency
    /\ consumer.pc = "retire" => \A m \in FuturesOf(consumer.session) : FutureDone(m)

\* No recall, reset or retirement makes a message be handled twice.
DispatchedOnce == \A m \in Messages : taken[m] <= 1

\* When a message was produced, and which of two belongs nearer to the head
At(m) == CHOOSE i \in DOMAIN arrivals : arrivals[i] = m
Before(m, n) == IF n \in Urgent THEN m \in Urgent /\ At(n) < At(m)
                ELSE m \in Urgent \/ At(m) < At(n)

\* The order of a queue is the order of arrival, urgent messages first and the
\* latest of them at the head, also after a recall has put it together again.
QueuesKeepOrder ==
    lock # "recall" =>
        \A s \in Sessions : live[s] =>
            \A i, j \in DOMAIN Queue(s) : i < j => Before(Queue(s)[i], Queue(s)[j])

\* A run that waits for its session or has it can be cancelled, whatever other
\* runs of the session have come and gone.
EveryRunIsCancellable ==
    \A m \in Messages : stage[m] \in {"waiting", "running"} => TokenOf(m) \in tokens

InReach(m) ==
    \/ live[SessionOf[m]] /\ m \in ToSet(Queue(SessionOf[m]))
    \/ m \in ToSet(recall.kept)

\* The whole channel stands still: the consumer died of a KeyError, waits for
\* a message in a queue that was emptied behind its back, or the lock is lost.
Stopped ==
    \/ consumer.pc = "dead" \/ lock = "stuck"
    \/ consumer.pc = "get" /\ Held = <<>>

AtEnd(m) ==
    \/ stage[m] \in {"released", "removed"}
    \/ stage[m] \in {"queued", "kept"} /\ ~InReach(m)

\* What becomes of every message that is ever produced: it is handled to the
\* end, recalled, or out of reach (its queue was reset, retired with it inside,
\* or taken apart by a recall that failed) - or the channel stops for good.
\* (There are finitely many messages, each produced once.)
EveryMessageHasItsEnd ==
    \/ <>[](\A m \in Messages : stage[m] = "new" \/ AtEnd(m))
    \/ <>[]Stopped

=============================================================================
