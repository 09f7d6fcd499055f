--------------------------- MODULE KafkaConsumer ---------------------------
(***************************************************************************)
(* The manual-commit consumer loop of each service: kafkax.Consumer.Run of *)
(* the Order service ("go"), KafkaConsumer.run of Payment ("python") and   *)
(* Consumer::run of Inventory ("cpp").  The Go loop takes a fetch of many  *)
(* records and rewinds when a handler fails; the other two take one record *)
(* at a time and never seek.  Order's loop ends when its context is        *)
(* cancelled, the others when stop has cleared their running flag.         *)
(*                                                                         *)
(* A record is a pair of a topic (of one partition) and an offset.  What   *)
(* the handlers have committed to the database is the set processed.       *)
(***************************************************************************)
EXTENDS Naturals

CONSTANTS Topic,      \* the consumed topics
          NRecords,   \* records per topic, at offsets 0 .. NRecords - 1
          Needs,      \* Needs[r]: the records without which r is premature at Order
          Kinds,      \* the services considered: of "go", "python" and "cpp"
          FaultKinds, \* FaultKinds[k]: what may happen to service k
          MaxFaults   \* bound on how often

Record == Topic \X (0 .. NRecords - 1)

ASSUME ConsumerAssumption ==
  /\ NRecords \in Nat
  /\ Kinds \subseteq {"go", "python", "cpp"}
  /\ Needs \in [Record -> SUBSET Record]
  /\ FaultKinds \in [Kinds -> SUBSET {"handler", "commit", "crash", "stop"}]
  /\ MaxFaults \in Nat

VARIABLES kind,       \* the service this loop belongs to
          produced,   \* produced[t]: records in the topic
          position,   \* position[t]: next offset the client will fetch
          committed,  \* committed[t]: the group's offset at the broker
          first,      \* first[t]: where the current fetch began in topic t
          next,       \* next[t]: the first record of the fetch not yet handled
          turn,       \* the topic of the fetch that is being handled
          stage,      \* where the loop is
          running,    \* the running flag; at Order, that ctx is not cancelled
          asked,      \* the process has been asked to stop
          processed,  \* records whose handler committed its transaction
          faults      \* faults and stops so far

consumerVars ==
  <<kind, produced, position, committed, first, next, turn, stage, running, asked,
    processed, faults>>

Stage == {"start", "test", "poll", "handle", "stopped", "ended"}

ConsumerTypeOK ==
  /\ kind \in Kinds
  /\ produced \in [Topic -> 0 .. NRecords]
  /\ committed \in [Topic -> 0 .. NRecords]
  /\ first \in [Topic -> 0 .. NRecords]
  /\ next \in [Topic -> 0 .. NRecords]
  /\ position \in [Topic -> 0 .. NRecords]
  /\ \A t \in Topic : /\ committed[t] <= position[t] /\ position[t] <= produced[t]
                      /\ first[t] <= next[t] /\ next[t] <= position[t]
  /\ turn \in Topic
  /\ stage \in Stage
  /\ running \in BOOLEAN
  /\ asked \in BOOLEAN
  /\ processed \subseteq Record
  /\ faults \in 0 .. MaxFaults

\* The flag of a consumer that has been constructed and not yet run.
Runnable == kind = "go"

ConsumerInit ==
  /\ kind \in Kinds
  /\ produced = [t \in Topic |-> 0]
  /\ position = [t \in Topic |-> 0]
  /\ committed = [t \in Topic |-> 0]
  /\ first = [t \in Topic |-> 0]
  /\ next = [t \in Topic |-> 0]
  /\ turn \in Topic
  /\ stage = "start"
  /\ running = Runnable
  /\ asked = FALSE
  /\ processed = {}
  /\ faults = 0

Fault(what) ==
  /\ what \in FaultKinds[kind]
  /\ faults < MaxFaults
  /\ faults' = faults + 1

\* A relay publishes the next record of topic t.
Produce(t) ==
  /\ produced[t] < NRecords
  /\ produced' = [produced EXCEPT ![t] = @ + 1]
  /\ UNCHANGED <<kind, position, committed, first, next, turn, stage, running, asked,
                 processed, faults>>

-----------------------------------------------------------------------------
(* The loop begins, goes on or ends.                                       *)

\* run sets the running flag, whatever it was; Order's context stays what it is.
Begin ==
  /\ stage = "start"
  /\ stage' = "test"
  /\ running' = IF kind = "go" THEN running ELSE TRUE
  /\ UNCHANGED <<kind, produced, position, committed, first, next, turn, asked,
                 processed, faults>>

\* Mutation: the loop does not look at the flag.
LoopTestNever ==
  /\ stage = "test"
  /\ stage' = "poll"
  /\ UNCHANGED <<kind, produced, position, committed, first, next, turn, running, asked,
                 processed, faults>>

\* The condition of the loop.
LoopTest ==
  /\ stage = "test"
  /\ stage' = IF running THEN "poll" ELSE "ended"
  /\ UNCHANGED <<kind, produced, position, committed, first, next, turn, running, asked,
                 processed, faults>>

\* The poll gives nothing: it timed out or met an error or, at Order, which
\* waits without a timeout, the context was cancelled.
PollNothing ==
  /\ stage = "poll"
  /\ kind = "go" => ~ running
  /\ stage' = "test"
  /\ UNCHANGED <<kind, produced, position, committed, first, next, turn, running, asked,
                 processed, faults>>

\* A signal: stop clears the flag, or the context is cancelled.
Stop ==
  /\ Fault("stop")
  /\ asked' = TRUE
  /\ running' = FALSE
  /\ UNCHANGED <<kind, produced, position, committed, first, next, turn, stage, processed>>

-----------------------------------------------------------------------------
(***************************************************************************)
(* Poll.  The client hands over, topic after topic in some order, a run of *)
(* records from its position on; the Python and C++ loops take one record. *)
(***************************************************************************)
Sizes ==
  {n \in [Topic -> 0 .. NRecords] :
     /\ \A t \in Topic : position[t] + n[t] <= produced[t]
     /\ kind # "go" => \A t, u \in Topic : n[t] <= 1 /\ (n[t] > 0 /\ n[u] > 0 => t = u)}

Poll(t, n) ==
  /\ stage = "poll"
  /\ n[t] > 0
  /\ position' = [u \in Topic |-> position[u] + n[u]]
  /\ first' = position
  /\ next' = position
  /\ turn' = t
  /\ stage' = "handle"
  /\ UNCHANGED <<kind, produced, committed, running, asked, processed, faults>>

\* A fetch that begins with topic t, and one with all that it can have of t.
PollFrom(t) == \E n \in Sizes : Poll(t, n)

PollWhole(t) == \E n \in Sizes : Poll(t, n) /\ \A m \in Sizes : m[t] <= n[t]

-----------------------------------------------------------------------------
(* The records of the fetch are handled one by one.                        *)

Current == <<turn, next[turn]>>

AllHandled == \A t \in Topic : next[t] = position[t]

\* The topics that may come next when u has been handled up to n.
Turns(u, n) ==
  IF n < position[u] \/ \A v \in Topic \ {u} : next[v] = position[v]
    THEN {u}
    ELSE {v \in Topic \ {u} : next[v] < position[v]}

\* Only the handlers of the Order service park an event.
Premature(r) == kind = "go" /\ ~ (Needs[r] \subseteq processed)

\* The handler commits, or finds that it had done so before.
HandlerSucceeds ==
  /\ stage = "handle"
  /\ next[turn] < position[turn]
  /\ Current \in processed \/ ~ Premature(Current)
  /\ processed' = processed \cup {Current}
  /\ next' = [next EXCEPT ![turn] = @ + 1]
  /\ turn' \in Turns(turn, next[turn] + 1)
  /\ UNCHANGED <<kind, produced, position, committed, first, stage, running, asked, faults>>

\* Mutations: the failed fetch is not rewound, or is rewound to the start.
AfterFailureSkips == position
AfterFailureRestarts == [t \in Topic |-> 0]

\* Where the loop goes on after a failed handler.
AfterFailure == IF kind = "go" THEN first ELSE position

\* The handler returns an error: the event is premature, its transaction
\* failed, or the cancelled context made it fail.  Nothing is committed and the
\* rest of the fetch is not handled.
HandlerFails ==
  /\ stage = "handle"
  /\ next[turn] < position[turn]
  /\ \/ Current \notin processed /\ Premature(Current) /\ UNCHANGED faults
     \/ kind = "go" /\ ~ running /\ UNCHANGED faults
     \/ Fault("handler")
  /\ position' = AfterFailure
  /\ first' = AfterFailure
  /\ next' = AfterFailure
  /\ stage' = "test"
  /\ UNCHANGED <<kind, produced, committed, turn, running, asked, processed>>

Offsets == [t \in Topic |-> IF position[t] > first[t] THEN position[t] ELSE committed[t]]

\* Mutation: the offsets are committed before the records are handled.
CommitOffsetsEarly ==
  /\ stage = "handle"
  /\ committed' = Offsets
  /\ stage' = IF AllHandled THEN "test" ELSE "handle"
  /\ UNCHANGED <<kind, produced, position, first, next, turn, running, asked, processed, faults>>

\* The offsets of the fetch, or of the one record, are committed.
CommitOffsets ==
  /\ stage = "handle"
  /\ AllHandled
  /\ committed' = Offsets
  /\ stage' = "test"
  /\ UNCHANGED <<kind, produced, position, first, next, turn, running, asked, processed, faults>>

\* The process starts again from the committed offsets.
Restart ==
  /\ position' = committed
  /\ first' = committed
  /\ next' = committed
  /\ stage' = "start"
  /\ running' = Runnable
  /\ asked' = FALSE
  /\ UNCHANGED <<kind, produced, committed, turn, processed>>

(***************************************************************************)
(* The commit fails.  The Go loop returns; in Python the exception ends    *)
(* run and with it the process, which is started again; the C++ loop does  *)
(* not look at the error code.                                             *)
(***************************************************************************)
CommitFails ==
  /\ stage = "handle"
  /\ AllHandled
  /\ \/ kind = "go" /\ ~ running /\ UNCHANGED faults
     \/ Fault("commit")
  /\ IF kind = "python"
       THEN Restart
       ELSE /\ stage' = IF kind # "go" THEN "test" ELSE IF asked THEN "ended" ELSE "stopped"
            /\ UNCHANGED <<kind, produced, position, committed, first, next, turn, running,
                           asked, processed>>

Crash == Fault("crash") /\ Restart

\* The process has ended in order and is deployed again.
StartAgain == stage = "ended" /\ Restart /\ UNCHANGED faults

LoopStep ==
  Begin \/ LoopTest \/ PollNothing \/ HandlerSucceeds \/ HandlerFails \/ CommitOffsets

ConsumerNext ==
  \/ \E t \in Topic : Produce(t) \/ PollFrom(t)
  \/ LoopStep \/ CommitFails \/ Stop \/ Crash \/ StartAgain

ConsumerSpec == ConsumerInit /\ [][ConsumerNext]_consumerVars

(***************************************************************************)
(* The loop goes on to its next statement.  The client rotates the topics  *)
(* it fetches from and a fetch has room for what waits in a topic, so that *)
(* each topic is again and again the first of a fetch, with all it has.    *)
(* The prerequisite of a premature event is published in the end, by its   *)
(* own outbox relay.  A process that ended is started again: the services  *)
(* are Kubernetes Deployments.  Nobody has to ask for a stop.              *)
(***************************************************************************)
ConsumerFairSpec ==
  /\ ConsumerSpec
  /\ WF_consumerVars(LoopStep)
  /\ WF_consumerVars(StartAgain)
  /\ \A t \in Topic : WF_consumerVars(Produce(t)) /\ SF_consumerVars(PollWhole(t))

-----------------------------------------------------------------------------
(* Properties.                                                             *)

(***************************************************************************)
(* Offsets are committed only after the handlers succeeded (FR-11): no     *)
(* record below the committed offset is unprocessed, so that a restart     *)
(* skips nothing.                                                          *)
(***************************************************************************)
CommittedIsProcessed ==
  \A t \in Topic : \A i \in 0 .. committed[t] - 1 : <<t, i>> \in processed

\* The first n records of topic t are processed.
ProcessedUpTo(t, n) == \A i \in 0 .. n - 1 : <<t, i>> \in processed

\* Where the unprocessed records of topic t begin.
Frontier(t) == IF stage = "handle" THEN next[t] ELSE position[t]

\* A fetch begins at or above the committed offset, so that a rewind stays there.
OffsetsInv ==
  /\ ConsumerTypeOK
  /\ stage = "handle" => \A t \in Topic : committed[t] <= first[t]

(***************************************************************************)
(* Why it holds: all that lies below the position is processed while no    *)
(* fetch is being handled, and all below next while one is.                *)
(***************************************************************************)
ConsumerInv == OffsetsInv /\ \A t \in Topic : ProcessedUpTo(t, Frontier(t))

Delivery == INSTANCE AtLeastOnce WITH
  Items <- Record,
  offered <- {r \in Record : r[2] < produced[r[1]]},
  delivered <- processed

(***************************************************************************)
(* The loop implements at-least-once delivery: every record is processed   *)
(* in the end, also a premature one that is parked and retried             *)
(* (ARCHITECTURE 5.1: "the prerequisite always arrives and retries         *)
(* terminate (no infinite loop)"), and also when the process is stopped    *)
(* and started again in between.                                           *)
(***************************************************************************)
ConsumesAtLeastOnce == Delivery!DeliverySpec

(***************************************************************************)
(* A stop that comes once the loop has begun is heard, wherever the loop   *)
(* is: it takes no further fetch after the current one and ends, so that   *)
(* main's join returns.                                                    *)
(***************************************************************************)
StopIsHeard == stage # "start" /\ ~ running ~> stage \in {"ended", "stopped", "start"}

(***************************************************************************)
(* Run "polls and dispatches records until ctx is cancelled": while the    *)
(* service is up its consumer has not stopped.                             *)
(***************************************************************************)
RunsUntilCancelled == stage # "stopped"

(***************************************************************************)
(* main says of the consumer that it "blocks until stop()" (Inventory) and *)
(* "blocks until stop() is called" (Payment): once stop was called, run    *)
(* ends.                                                                   *)
(***************************************************************************)
BlocksUntilStop == asked ~> stage = "ended" \/ ~ asked
=============================================================================
