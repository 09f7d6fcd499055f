------------------------ MODULE KafkaConsumerProofs ------------------------
(***************************************************************************)
(* The safety of the consumer loops, for any number of topics and records  *)
(* and any faults.                                                         *)
(***************************************************************************)
EXTENDS KafkaConsumer, TLAPS

\* No handler of Payment or Inventory throws; see consumer_noseek for what
\* happens when one does.
HandlersSucceed == \A k \in Kinds \ {"go"} : "handler" \notin FaultKinds[k]

USE ConsumerAssumption

-----------------------------------------------------------------------------
(* Types, and the order of the offsets.                                    *)

\* All offsets are 0 at first.
LEMMA OffsetsInit == ConsumerInit => OffsetsInv
<1> SUFFICES ASSUME ConsumerInit PROVE OffsetsInv
  OBVIOUS
<1>1. running \in BOOLEAN /\ asked \in BOOLEAN
  BY Zenon DEF ConsumerInit, Runnable
<1>2. /\ kind \in Kinds /\ turn \in Topic /\ stage = "start" /\ faults = 0
      /\ produced = [t \in Topic |-> 0] /\ position = [t \in Topic |-> 0]
      /\ committed = [t \in Topic |-> 0] /\ first = [t \in Topic |-> 0]
      /\ next = [t \in Topic |-> 0] /\ processed = {}
  BY Zenon DEF ConsumerInit
<1>3. [t \in Topic |-> 0] \in [Topic -> 0 .. NRecords] /\ 0 \in 0 .. MaxFaults
  OBVIOUS
<1>4. \A t \in Topic : /\ committed[t] <= position[t] /\ position[t] <= produced[t]
                       /\ first[t] <= next[t] /\ next[t] <= position[t]
  <2>1. \A t \in Topic : /\ committed[t] = 0 /\ position[t] = 0 /\ produced[t] = 0
                         /\ first[t] = 0 /\ next[t] = 0
    BY <1>2, Zenon
  <2>2. 0 <= 0
    OBVIOUS
  <2>3. QED
    BY <2>1, <2>2, Zenon
<1>5. QED
  BY <1>1, <1>2, <1>3, <1>4 DEF OffsetsInv, ConsumerTypeOK, Stage

\* The steps that leave records and offsets alone: begin, test, an empty poll
\* and a stop.
LEMMA LoopControl ==
  ASSUME OffsetsInv, Begin \/ LoopTest \/ PollNothing \/ Stop
  PROVE  /\ OffsetsInv'
         /\ UNCHANGED <<kind, produced, position, committed, first, next, turn, processed>>
         /\ stage' = stage \/ (stage # "handle" /\ stage' \in {"test", "poll", "ended"})
<1>1. running' \in BOOLEAN /\ asked' \in BOOLEAN
  BY Zenon DEF Begin, LoopTest, PollNothing, Stop, OffsetsInv, ConsumerTypeOK
<1>2. /\ UNCHANGED <<kind, produced, position, committed, first, next, turn, processed>>
      /\ stage' = stage \/ (stage # "handle" /\ stage' \in {"test", "poll", "ended"})
      /\ faults' = faults \/ (faults < MaxFaults /\ faults' = faults + 1)
  <2>1. CASE Begin
    BY <2>1, Zenon DEF Begin
  <2>2. CASE LoopTest
    BY <2>2 DEF LoopTest
  <2>3. CASE PollNothing
    BY <2>3, Zenon DEF PollNothing
  <2>4. CASE Stop
    BY <2>4, Zenon DEF Stop, Fault
  <2>5. QED
    BY <2>1, <2>2, <2>3, <2>4
<1>3. OffsetsInv'
  BY <1>1, <1>2 DEF OffsetsInv, ConsumerTypeOK, Stage
<1>4. QED
  BY <1>2, <1>3

\* A poll starts at the position and moves it behind what it fetched.
LEMMA PollOffsets ==
  ASSUME OffsetsInv, NEW t \in Topic, PollFrom(t)
  PROVE  OffsetsInv'
<1>1. PICK n \in Sizes : Poll(t, n)
  BY DEF PollFrom
<1>2. position' \in [Topic -> 0 .. NRecords]
  BY <1>1 DEF Poll, Sizes, OffsetsInv, ConsumerTypeOK
<1>3. \A u \in Topic : position[u] <= position'[u] /\ position'[u] <= produced[u]
  BY <1>1 DEF Poll, Sizes, OffsetsInv, ConsumerTypeOK
<1>4. QED
  BY <1>1, <1>2, <1>3 DEF Poll, OffsetsInv, ConsumerTypeOK, Stage

\* What a handler that succeeds changes.
LEMMA HandlerMoves ==
  ASSUME OffsetsInv, HandlerSucceeds
  PROVE  /\ turn \in Topic /\ turn' \in Topic
         /\ next[turn] \in Nat
         /\ next' = [next EXCEPT ![turn] = next[turn] + 1]
         /\ next[turn] + 1 <= position[turn]
         /\ Current \in Record
         /\ processed' = processed \cup {Current}
BY DEF HandlerSucceeds, Turns, Current, Record, OffsetsInv, ConsumerTypeOK

\* It stays within the fetch.
LEMMA HandlerSucceedsOffsets ==
  ASSUME OffsetsInv, HandlerSucceeds
  PROVE  OffsetsInv'
<1>1. next' \in [Topic -> 0 .. NRecords]
  BY HandlerMoves DEF OffsetsInv, ConsumerTypeOK
<1>2. QED
  BY <1>1, HandlerMoves DEF HandlerSucceeds, OffsetsInv, ConsumerTypeOK

\* After a failed handler the position is where the fetch began, or stays.
LEMMA HandlerFailsOffsets ==
  ASSUME OffsetsInv, HandlerFails
  PROVE  OffsetsInv'
<1>1. faults' \in 0 .. MaxFaults
  BY DEF HandlerFails, Fault, OffsetsInv, ConsumerTypeOK
<1>2. CASE kind = "go"
  BY <1>1, <1>2 DEF HandlerFails, AfterFailure, OffsetsInv, ConsumerTypeOK, Stage
<1>3. CASE kind # "go"
  BY <1>1, <1>3 DEF HandlerFails, AfterFailure, OffsetsInv, ConsumerTypeOK, Stage
<1>4. QED
  BY <1>2, <1>3

\* A process that starts again is at the committed offsets.
LEMMA RestartOffsets ==
  ASSUME OffsetsInv, Restart, faults' \in 0 .. MaxFaults
  PROVE  OffsetsInv'
<1>1. running' \in BOOLEAN /\ asked' \in BOOLEAN
  BY Zenon DEF Restart, Runnable
<1>2. /\ position' = committed /\ first' = committed /\ next' = committed
      /\ stage' = "start"
      /\ UNCHANGED <<kind, produced, committed, turn, processed>>
  BY Zenon DEF Restart
<1>3. QED
  BY <1>1, <1>2 DEF OffsetsInv, ConsumerTypeOK, Stage

\* Every step keeps types and offsets in order, whatever fails.
LEMMA OffsetsStep == OffsetsInv /\ [ConsumerNext]_consumerVars => OffsetsInv'
<1> SUFFICES ASSUME OffsetsInv, [ConsumerNext]_consumerVars PROVE OffsetsInv'
  OBVIOUS
<1>1. ASSUME NEW t \in Topic, Produce(t) PROVE OffsetsInv'
  BY <1>1 DEF Produce, OffsetsInv, ConsumerTypeOK
<1>2. CASE \E t \in Topic : Produce(t) \/ PollFrom(t)
  BY <1>1, <1>2, PollOffsets
<1>3. CASE CommitOffsets
  BY <1>3 DEF CommitOffsets, Offsets, OffsetsInv, ConsumerTypeOK, Stage
<1>4. CASE LoopStep
  BY <1>3, <1>4, LoopControl, HandlerSucceedsOffsets, HandlerFailsOffsets DEF LoopStep
<1>5. CASE CommitFails
  <2>1. faults' \in 0 .. MaxFaults
    BY <1>5 DEF CommitFails, Fault, OffsetsInv, ConsumerTypeOK
  <2>2. CASE kind = "python"
    BY <1>5, <2>1, <2>2, RestartOffsets DEF CommitFails
  <2>3. CASE kind # "python"
    BY <1>5, <2>1, <2>3 DEF CommitFails, OffsetsInv, ConsumerTypeOK, Stage
  <2>4. QED
    BY <2>2, <2>3
<1>6. CASE Stop
  BY <1>6, LoopControl
<1>7. CASE Crash \/ StartAgain
  BY <1>7, RestartOffsets DEF Crash, StartAgain, Fault, OffsetsInv, ConsumerTypeOK
<1>8. CASE UNCHANGED consumerVars
  BY <1>8 DEF consumerVars, OffsetsInv, ConsumerTypeOK
<1>9. QED
  BY <1>2, <1>4, <1>5, <1>6, <1>7, <1>8 DEF ConsumerNext

\* OffsetsInv is an invariant of every loop.
THEOREM OffsetsInvariance == ConsumerSpec => []OffsetsInv
BY OffsetsInit, OffsetsStep, PTL DEF ConsumerSpec

(***************************************************************************)
(* Whatever fails, a loop's offsets are those of records that exist and in *)
(* order: the committed one is not above the position, and a fetch lies    *)
(* below it.                                                               *)
(***************************************************************************)
THEOREM ConsumerTypeCorrect == ConsumerSpec => []ConsumerTypeOK
<1>1. OffsetsInv => ConsumerTypeOK
  BY DEF OffsetsInv
<1>2. QED
  BY <1>1, OffsetsInvariance, PTL

-----------------------------------------------------------------------------
(* What is committed is processed.                                         *)

\* Nothing is processed at first, and nothing has to be.
LEMMA FrontierInit == ConsumerInit => \A t \in Topic : ProcessedUpTo(t, Frontier(t))
<1> SUFFICES ASSUME ConsumerInit, NEW t \in Topic PROVE ProcessedUpTo(t, Frontier(t))
  OBVIOUS
<1>1. Frontier(t) = 0
  BY DEF ConsumerInit, Frontier
<1>2. \A i \in 0 .. 0 - 1 : FALSE
  OBVIOUS
<1>3. QED
  BY <1>1, <1>2 DEF ProcessedUpTo

\* A frontier that does not move forward keeps what lies below it.
LEMMA FrontierKept ==
  ASSUME ConsumerInv, OffsetsInv', processed \subseteq processed',
         \A t \in Topic : Frontier(t)' <= Frontier(t)
  PROVE  ConsumerInv'
<1> SUFFICES ASSUME NEW t \in Topic, NEW i \in 0 .. Frontier(t)' - 1
             PROVE  <<t, i>> \in processed'
  BY DEF ConsumerInv, ProcessedUpTo
<1>1. Frontier(t) \in Nat /\ Frontier(t)' \in Nat
  BY DEF ConsumerInv, OffsetsInv, ConsumerTypeOK, Frontier
<1>2. i \in 0 .. Frontier(t) - 1
  BY <1>1
<1>3. QED
  BY <1>2 DEF ConsumerInv, ProcessedUpTo

\* The one step that moves a frontier forward, past the record it processes.
LEMMA HandlerSucceedsInv ==
  ASSUME ConsumerInv, HandlerSucceeds
  PROVE  ConsumerInv'
<1>1. OffsetsInv /\ OffsetsInv'
  BY HandlerSucceedsOffsets DEF ConsumerInv
<1>2. ASSUME NEW t \in Topic, NEW i \in 0 .. Frontier(t)' - 1
      PROVE  <<t, i>> \in processed'
  <2>1. Frontier(t) = next[t] /\ Frontier(t)' = next'[t] /\ next[t] \in Nat
    BY <1>1 DEF HandlerSucceeds, Frontier, OffsetsInv, ConsumerTypeOK
  <2>2. CASE i \in 0 .. next[t] - 1
    BY <1>1, <2>1, <2>2, HandlerMoves DEF ConsumerInv, ProcessedUpTo
  <2>3. CASE i \notin 0 .. next[t] - 1
    BY <1>1, <2>1, <2>3, HandlerMoves DEF Current, OffsetsInv, ConsumerTypeOK
  <2>4. QED
    BY <2>2, <2>3
<1>3. QED
  BY <1>1, <1>2 DEF ConsumerInv, ProcessedUpTo

\* A failed handler rewinds, since only Order's handlers fail.
LEMMA HandlerFailsInv ==
  ASSUME HandlersSucceed, ConsumerInv, HandlerFails
  PROVE  ConsumerInv'
<1>1. OffsetsInv /\ OffsetsInv'
  BY HandlerFailsOffsets DEF ConsumerInv
<1>2. kind = "go"
  BY <1>1 DEF HandlersSucceed, HandlerFails, Premature, Fault, OffsetsInv, ConsumerTypeOK
<1>3. \A t \in Topic : Frontier(t)' <= Frontier(t)
  BY <1>1, <1>2 DEF HandlerFails, AfterFailure, Frontier, OffsetsInv, ConsumerTypeOK
<1>4. QED
  BY <1>1, <1>3, FrontierKept DEF HandlerFails

\* No other step moves the frontier forward: a fetch begins at the position, a
\* finished one ends there, and a restart goes back to what is committed.
LEMMA FrontierStays ==
  ASSUME ConsumerInv, OffsetsInv', [ConsumerNext]_consumerVars,
         ~ HandlerSucceeds, ~ HandlerFails
  PROVE  ConsumerInv'
<1>1. OffsetsInv
  BY DEF ConsumerInv
<1>2. CASE Begin \/ LoopTest \/ PollNothing \/ Stop
  <2>1. \A t \in Topic : Frontier(t)' <= Frontier(t)
    BY <1>1, <1>2, LoopControl DEF Frontier, OffsetsInv, ConsumerTypeOK
  <2>2. QED
    BY <1>1, <1>2, <2>1, LoopControl, FrontierKept
<1>3. ASSUME NEW t \in Topic, Produce(t) PROVE ConsumerInv'
  <2>1. \A u \in Topic : Frontier(u)' <= Frontier(u)
    BY <1>1, <1>3 DEF Produce, Frontier, OffsetsInv, ConsumerTypeOK
  <2>2. QED
    BY <1>3, <2>1, FrontierKept DEF Produce
<1>4. ASSUME NEW t \in Topic, PollFrom(t) PROVE ConsumerInv'
  <2>1. PICK n \in Sizes : Poll(t, n)
    BY <1>4 DEF PollFrom
  <2>2. \A u \in Topic : Frontier(u)' <= Frontier(u)
    BY <1>1, <2>1 DEF Poll, Frontier, OffsetsInv, ConsumerTypeOK
  <2>3. QED
    BY <2>1, <2>2, FrontierKept DEF Poll
<1>5. CASE CommitOffsets
  <2>1. \A t \in Topic : Frontier(t)' <= Frontier(t)
    BY <1>1, <1>5 DEF CommitOffsets, AllHandled, Frontier, OffsetsInv, ConsumerTypeOK
  <2>2. QED
    BY <1>5, <2>1, FrontierKept DEF CommitOffsets
<1>6. CASE Restart
  <2>1. position' = committed /\ stage' = "start" /\ processed' = processed
    BY <1>6, Zenon DEF Restart
  <2>2. \A t \in Topic : Frontier(t)' <= Frontier(t)
    BY <1>1, <2>1 DEF Frontier, OffsetsInv, ConsumerTypeOK
  <2>3. QED
    BY <2>1, <2>2, FrontierKept
<1>7. CASE CommitFails /\ kind # "python"
  <2>1. \A t \in Topic : Frontier(t)' <= Frontier(t)
    BY <1>1, <1>7 DEF CommitFails, AllHandled, Frontier, OffsetsInv, ConsumerTypeOK
  <2>2. QED
    BY <1>7, <2>1, FrontierKept DEF CommitFails
<1>8. CASE UNCHANGED consumerVars
  <2>1. \A t \in Topic : Frontier(t)' <= Frontier(t)
    BY <1>1, <1>8 DEF consumerVars, Frontier, OffsetsInv, ConsumerTypeOK
  <2>2. QED
    BY <1>8, <2>1, FrontierKept DEF consumerVars
<1>9. CommitFails /\ kind = "python" => Restart
  BY Zenon DEF CommitFails
<1>10. QED
  BY <1>2, <1>3, <1>4, <1>5, <1>6, <1>7, <1>8, <1>9, Zenon
     DEF ConsumerNext, LoopStep, Crash, StartAgain

(***************************************************************************)
(* ConsumerInv is an invariant of every loop whose handlers do not throw,  *)
(* whatever else fails: premature events and failed transactions at Order, *)
(* refused commits, crashes, and stops that are heard or lost.             *)
(***************************************************************************)
THEOREM ConsumerInvariance ==
  ASSUME HandlersSucceed
  PROVE  ConsumerSpec => []ConsumerInv
<1>1. ConsumerInit => ConsumerInv
  BY OffsetsInit, FrontierInit DEF ConsumerInv
<1>2. ConsumerInv /\ [ConsumerNext]_consumerVars => ConsumerInv'
  BY OffsetsStep, HandlerSucceedsInv, HandlerFailsInv, FrontierStays DEF ConsumerInv
<1>3. QED
  BY <1>1, <1>2, PTL DEF ConsumerSpec

(***************************************************************************)
(* No loop commits an offset past a record that is not processed, so that  *)
(* a restart, which begins at the committed offsets, skips nothing.        *)
(***************************************************************************)
THEOREM CommitsOnlyProcessed ==
  ASSUME HandlersSucceed
  PROVE  ConsumerSpec => []CommittedIsProcessed
<1>1. ConsumerInv => CommittedIsProcessed
  <2> SUFFICES ASSUME ConsumerInv, NEW t \in Topic, NEW i \in 0 .. committed[t] - 1
               PROVE  <<t, i>> \in processed
    BY DEF CommittedIsProcessed
  <2>1. i \in 0 .. Frontier(t) - 1
    BY DEF ConsumerInv, OffsetsInv, ConsumerTypeOK, Frontier
  <2>2. QED
    BY <2>1 DEF ConsumerInv, ProcessedUpTo
<1>2. QED
  BY <1>1, ConsumerInvariance, PTL

-----------------------------------------------------------------------------
(* The loop and the abstract channel of AtLeastOnce.                       *)

Available == {r \in Record : r[2] < produced[r[1]]}

\* A record that a relay publishes is one more that is offered.
LEMMA ProduceOffers ==
  ASSUME OffsetsInv, NEW t \in Topic, Produce(t)
  PROVE  Delivery!DeliveryNext
<1>0. PICK r \in Record : r = <<t, produced[t]>>
  <2>1. <<t, produced[t]>> \in Record
    BY DEF Produce, Record, OffsetsInv, ConsumerTypeOK
  <2>2. QED
    BY <2>1
<1>1. r \notin Available
  BY <1>0 DEF Produce, Record, Available, OffsetsInv, ConsumerTypeOK
<1>2. Available' = Available \cup {r}
  <2>1. ASSUME NEW u \in Topic, NEW i \in 0 .. NRecords - 1
        PROVE  <<u, i>> \in Available' <=> <<u, i>> \in Available \cup {r}
    <3>1. <<u, i>> \in Available <=> i < produced[u]
      BY DEF Record, Available
    <3>2. <<u, i>> \in Available' <=> i < produced'[u]
      BY DEF Record, Available
    <3>3. <<u, i>> = r <=> u = t /\ i = produced[t]
      BY <1>0
    <3>4. i < produced'[u] <=> i < produced[u] \/ (u = t /\ i = produced[t])
      BY DEF Produce, OffsetsInv, ConsumerTypeOK
    <3>5. QED
      BY <3>1, <3>2, <3>3, <3>4
  <2>2. Available \subseteq Record /\ Available' \subseteq Record
    BY DEF Available
  <2>3. QED
    BY <2>1, <2>2 DEF Record
<1>3. Delivery!Offer(r)
  BY <1>1, <1>2 DEF Delivery!Offer, Available, Produce
<1>4. QED
  BY <1>3 DEF Delivery!DeliveryNext

\* A handler that succeeds delivers its record, or has delivered it before.
LEMMA HandlerDelivers ==
  ASSUME OffsetsInv, HandlerSucceeds
  PROVE  Delivery!DeliveryNext \/ UNCHANGED <<Available, processed>>
<1>1. Current \in Available
  BY DEF HandlerSucceeds, Current, Record, Available, OffsetsInv, ConsumerTypeOK
<1>2. UNCHANGED Available /\ processed' = processed \cup {Current}
  BY DEF HandlerSucceeds, Available
<1>3. CASE Current \in processed
  BY <1>2, <1>3
<1>4. CASE Current \notin processed
  <2>1. Delivery!Deliver(Current)
    BY <1>1, <1>2, <1>4 DEF Delivery!Deliver, Available
  <2>2. QED
    BY <1>1, <2>1 DEF Delivery!DeliveryNext, Available
<1>5. QED
  BY <1>3, <1>4

\* Every other step is invisible.
LEMMA OtherStepsDeliverNothing ==
  ASSUME NEW t \in Topic,
         \/ PollFrom(t) \/ Begin \/ LoopTest \/ PollNothing \/ HandlerFails \/ CommitOffsets
         \/ CommitFails \/ Stop \/ Crash \/ StartAgain \/ UNCHANGED consumerVars
  PROVE  UNCHANGED <<Available, processed>>
<1>1. UNCHANGED <<produced, processed>>
  BY Zenon DEF PollFrom, Poll, Begin, LoopTest, PollNothing, HandlerFails, CommitOffsets,
               CommitFails, Restart, Stop, Crash, StartAgain, consumerVars
<1>2. QED
  BY <1>1 DEF Available

(***************************************************************************)
(* Each loop implements the safety part of at-least-once delivery: it      *)
(* processes only records that were published, and what is processed stays *)
(* so, across rewinds, crashes and restarts.                               *)
(***************************************************************************)
THEOREM ConsumerRefinement == ConsumerSpec => Delivery!DeliverySafety
<1>1. ConsumerInit => Delivery!DeliveryInit
  <2> SUFFICES ASSUME ConsumerInit PROVE Delivery!DeliveryInit
    OBVIOUS
  <2>1. produced = [t \in Topic |-> 0] /\ processed = {}
    BY Zenon DEF ConsumerInit
  <2>2. ASSUME NEW r \in Record PROVE ~ (r[2] < produced[r[1]])
    BY <2>1 DEF Record
  <2>3. QED
    BY <2>1, <2>2 DEF Delivery!DeliveryInit
<1>2. OffsetsInv /\ [ConsumerNext]_consumerVars =>
        [Delivery!DeliveryNext]_<<Available, processed>>
  <2> SUFFICES ASSUME OffsetsInv, [ConsumerNext]_consumerVars
               PROVE  Delivery!DeliveryNext \/ UNCHANGED <<Available, processed>>
    OBVIOUS
  <2>1. turn \in Topic
    BY DEF OffsetsInv, ConsumerTypeOK
  <2>2. CASE \E t \in Topic : Produce(t)
    BY <2>2, ProduceOffers
  <2>3. CASE HandlerSucceeds
    BY <2>3, HandlerDelivers
  <2>4. QED
    BY <2>1, <2>2, <2>3, OtherStepsDeliverNothing DEF ConsumerNext, LoopStep
<1>3. QED
  BY <1>1, <1>2, OffsetsInvariance, PTL DEF ConsumerSpec, Delivery!DeliverySafety, Available
=============================================================================
