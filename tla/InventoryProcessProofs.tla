----------------------- MODULE InventoryProcessProofs -----------------------
(***************************************************************************)
(* Proofs about the Inventory process, for any number of requests, records *)
(* and workers, and however many signals and faults.  ProcessInv is        *)
(* inductive; one lemma per conjunct and group of actions says so.         *)
(***************************************************************************)
EXTENDS InventoryProcess, TLAPS

\* Most leaves are first-order without arithmetic, and Zenon proves them; the
\* others name SMT.
USE ProcessAssumption, Zenon
USE DEF allVars, processVars, workVars, relayVars, durableVars, telemetryVars

\* The initial states satisfy the invariant.
LEMMA ProcessInitInv == ProcessInit => ProcessInv
<1> SUFFICES ASSUME ProcessInit PROVE ProcessInv
  OBVIOUS
<1>1. SortInv
  <2>1. \A i \in Items : row[i] = Columns(row[i])
    BY DEF ProcessInit, NoRow, Columns
  <2> QED
    BY <2>1, SMT DEF ProcessInit, SortInv
<1>2. ShutdownInv
  BY DEF ProcessInit, ShutdownInv
<1>3. TraceInv
  BY DEF ProcessInit, TelemetryInit, TraceInv, Active, TraceContinues, NoRow
<1>4. OffsetInv
  BY SMT DEF ProcessInit, OffsetInv, LosesOnlyThrown
<1> QED
  BY <1>1, <1>2, <1>3, <1>4 DEF ProcessInv

-----------------------------------------------------------------------------
(* The types.                                                              *)

\* What the steps of main and the faults do to the variables of SortInv.
LEMMA MainSort == SortInv /\ ShutdownInv /\ (MainStep \/ Crash) => SortInv'
<1> SUFFICES ASSUME SortInv, ShutdownInv, MainStep \/ Crash PROVE SortInv'
  OBVIOUS
<1>1. CASE RegisterConsumer
  BY <1>1 DEF SortInv, ShutdownInv, RegisterConsumer, StartingOffset, MainGoes
<1>2. CASE SpawnConsumer
  BY <1>2 DEF SortInv, SpawnConsumer
<1>3. CASE Exit \/ Crash
  BY <1>3, SMT DEF SortInv, Exit, Crash, Gone
<1>4. CASE Launch \/ InstallHandlers \/ SpawnRelay \/ JoinConsumer \/ StopServer
             \/ JoinRelay \/ ObsShutdown
  BY <1>4 DEF SortInv, Launch, InstallHandlers, SpawnRelay, JoinConsumer, StopServer,
     JoinRelay, ObsShutdown
<1> QED
  BY <1>1, <1>2, <1>3, <1>4 DEF MainStep

\* The events of the service are rows.
LEMMA EventShape ==
  ASSUME NEW i, NEW saga, NEW context
  PROVE  \A new \in {ReservedEvent(i, saga, context), FailedEvent(i, saga, context),
                     ReleasedEvent(i, saga, context)} :
           new = Columns(new)
BY SMT DEF ReservedEvent, FailedEvent, ReleasedEvent, Insert, Columns

\* A row replaced by a row leaves the table well formed.
LEMMA InsertSort ==
  ASSUME NEW i \in Items, NEW new, new = Columns(new), row = [j \in Items |-> Columns(row[j])],
         row' = [row EXCEPT ![i] = new]
  PROVE  /\ row' = [j \in Items |-> Columns(row'[j])]
         /\ \A j \in Items : row'[j] = IF j = i THEN new ELSE row[j]
<1>1. \A j \in Items : row'[j] = IF j = i THEN new ELSE row[j]
  OBVIOUS
<1>2. \A j \in Items : row[j] = Columns(row[j])
  OBVIOUS
<1> QED
  BY <1>1, <1>2

\* What a request served does to the table of rows.
LEMMA ServedRow ==
  ASSUME SortInv, NEW w \in Workers, CallServed(w)
  PROVE  /\ worker[w] \in Calls /\ worker[w] \in Items
         /\ \/ row' = row
            \/ \E new \in {ReservedEvent(worker[w], worker[w], Inject(w)),
                           FailedEvent(worker[w], worker[w], Inject(w)),
                           ReleasedEvent(worker[w], worker[w], Inject(w))} :
                 row' = [row EXCEPT ![worker[w]] = new]
<1>1. worker[w] \in Calls /\ worker[w] \in Items
  BY SMT DEF SortInv, CallServed, Items
<1> QED
  BY <1>1 DEF CallServed, CommitsRelease, CommitsReservation

\* What a record handled does to it.
LEMMA RecordRow ==
  ASSUME SortInv, HandleRecord
  PROVE  /\ position \in Offsets /\ RecordName[position] \in Items
         /\ \/ row' = row
            \/ row' = [row EXCEPT ![RecordName[position]] =
                        ReleasedEvent(RecordName[position], Parse(Body[position]).saga_id,
                                      CancelledContext(position))]
<1>1. position \in Offsets
  BY SMT DEF SortInv, HandleRecord, Offsets
<1>2. RecordName[position] \in Items
  BY <1>1 DEF Items
<1> QED
  BY <1>1, <1>2 DEF HandleRecord, HandlerReturns, HandlerThrows, HandleOrderCancelled,
     CommitsRelease

\* Marking a row changes its status alone.
LEMMA MarkRow ==
  ASSUME SortInv, RelayMarks
  PROVE  /\ row' = [j \in Items |-> Columns(row'[j])]
         /\ \A j \in Items : /\ row'[j].payload = row[j].payload
                             /\ row'[j].traceparent = row[j].traceparent
                             /\ row'[j].status \in {row[j].status, "PUBLISHED"}
                             /\ row'[j] = row[j] \/ j = sending
<1>1. \A j \in Items : row[j] = Columns(row[j])
  BY DEF SortInv
<1>2. CASE row' = row
  BY <1>2 DEF SortInv
<1>3. CASE row' = [row EXCEPT ![sending].status = "PUBLISHED"]
  <2>1. row' = [j \in Items |-> row'[j]]
    BY <1>3 DEF SortInv
  <2>2. \A j \in Items : j # sending => row'[j] = row[j]
    BY <1>3 DEF SortInv
  <2>3. ASSUME NEW j \in Items, j = sending
        PROVE  row'[j] =
                 [status |-> "PUBLISHED", event_type |-> row[j].event_type,
                  topic |-> row[j].topic, payload |-> row[j].payload,
                  traceparent |-> row[j].traceparent]
    <3>1. row'[j] = [row[j] EXCEPT !.status = "PUBLISHED"]
      BY <1>3, <2>3 DEF SortInv
    <3>2. row[j] = Columns(row[j])
      BY <1>1
    <3> QED
      BY <3>1, <3>2 DEF Columns
  <2>4. ASSUME NEW j \in Items
        PROVE  /\ row'[j] = Columns(row'[j])
               /\ row'[j].payload = row[j].payload
               /\ row'[j].traceparent = row[j].traceparent
               /\ row'[j].status \in {row[j].status, "PUBLISHED"}
               /\ row'[j] = row[j] \/ j = sending
    <3>1. CASE j = sending
      <4>1. row'[j] =
              [status |-> "PUBLISHED", event_type |-> row[j].event_type,
               topic |-> row[j].topic, payload |-> row[j].payload,
               traceparent |-> row[j].traceparent]
        BY <2>3, <3>1
      <4> QED
        BY <3>1, <4>1, SMT DEF Columns
    <3>2. CASE j # sending
      <4>1. row'[j] = row[j]
        BY <2>2, <3>2
      <4>2. row[j] = Columns(row[j])
        BY <1>1
      <4> QED
        BY <4>1, <4>2 DEF Columns
    <3> QED
      BY <3>1, <3>2
  <2>5. row' = [j \in Items |-> Columns(row'[j])]
    BY <2>1, <2>4, SMT
  <2> QED
    BY <2>4, <2>5
<1> QED
  BY <1>2, <1>3 DEF RelayMarks, MarkPublished

\* What the steps of the other threads do to the variables of SortInv.
LEMMA ThreadSort ==
  SortInv /\ (ConsumerStep \/ ConsumeRecord \/ RelayStep \/ SignalArrives \/ SignalStopsConsumer
              \/ ConnectionLost) => SortInv'
<1> SUFFICES ASSUME SortInv, \/ ConsumerStep \/ ConsumeRecord \/ RelayStep
                             \/ SignalArrives \/ SignalStopsConsumer \/ ConnectionLost
             PROVE  SortInv'
  OBVIOUS
<1>1. CASE HandleRecord
  <2>1. row' = [j \in Items |-> Columns(row'[j])]
    BY <1>1, RecordRow, EventShape, InsertSort, SMT DEF SortInv
  <2> QED
    BY <1>1, <2>1 DEF SortInv, HandleRecord, HandlerReturns, HandlerThrows, AfterThrow
<1>2. CASE RelayMarks
  BY <1>2, MarkRow DEF SortInv, RelayMarks
<1>3. CASE ConsumeRecord
  BY <1>3, SMT DEF SortInv, ConsumeRecord
<1>4. CASE ConsumerBegins \/ ConsumerTests \/ ConsumeTimesOut \/ LogFailure \/ CommitRecord
  BY <1>4 DEF SortInv, ConsumerBegins, ConsumerTests, ConsumeTimesOut, LogFailure, CommitRecord,
     ConsumerGoes
<1>5. CASE RelayTests \/ (\E i \in Items : RelayPublishes(i)) \/ RelayDrained
  BY <1>5 DEF SortInv, RelayTests, RelayPublishes, RelayDrained
<1>6. CASE SignalArrives \/ SignalStopsConsumer \/ ConnectionLost
  BY <1>6 DEF SortInv, SignalArrives, SignalStopsConsumer, ConnectionLost
<1> QED
  BY <1>1, <1>2, <1>3, <1>4, <1>5, <1>6 DEF ConsumerStep, RelayStep

\* What the requests do to the variables of SortInv.
LEMMA CallSort ==
  ASSUME SortInv, NEW w \in Workers, CallServed(w) \/ \E c \in Calls : CallArrives(w, c)
  PROVE  SortInv'
<1>1. CASE CallServed(w)
  <2>1. row' = [j \in Items |-> Columns(row'[j])]
    BY <1>1, ServedRow, EventShape, InsertSort, SMT DEF SortInv
  <2> QED
    BY <1>1, <2>1 DEF SortInv, CallServed
<1>2. CASE \E c \in Calls : CallArrives(w, c)
  BY <1>2, SMT DEF SortInv, CallArrives
<1> QED
  BY <1>1, <1>2

-----------------------------------------------------------------------------
(* The order of start and shutdown.                                        *)

\* The steps of main keep the threads in the order of its stages.
LEMMA MainShutdown == ShutdownInv /\ (MainStep \/ Crash) => ShutdownInv'
<1> SUFFICES ASSUME ShutdownInv, MainStep \/ Crash PROVE ShutdownInv'
  OBVIOUS
<1>1. CASE Exit \/ Crash
  BY <1>1 DEF ShutdownInv, Exit, Crash, Gone
<1>2. CASE Launch \/ InstallHandlers \/ SpawnRelay
  BY <1>2 DEF ShutdownInv, Launch, InstallHandlers, SpawnRelay, MainGoes
<1>3. CASE RegisterConsumer \/ SpawnConsumer
  BY <1>3 DEF ShutdownInv, RegisterConsumer, SpawnConsumer, MainGoes
<1>4. CASE JoinConsumer
  BY <1>4 DEF ShutdownInv, JoinConsumer, MainGoes
<1>5. CASE StopServer
  BY <1>5 DEF ShutdownInv, StopServer, Served, MainGoes
<1>6. CASE JoinRelay
  BY <1>6 DEF ShutdownInv, JoinRelay, RelayDone, MainGoes
<1>7. CASE ObsShutdown
  BY <1>7 DEF ShutdownInv, ObsShutdown, Flush, MainGoes
<1> QED
  BY <1>1, <1>2, <1>3, <1>4, <1>5, <1>6, <1>7 DEF MainStep

\* A thread that has not begun or is done takes no step.
LEMMA ThreadShutdown ==
  ShutdownInv /\ (ConsumerStep \/ ConsumeRecord \/ RelayStep \/ SignalArrives
                  \/ SignalStopsConsumer \/ ConnectionLost) => ShutdownInv'
<1> SUFFICES ASSUME ShutdownInv, \/ ConsumerStep \/ ConsumeRecord \/ RelayStep
                                 \/ SignalArrives \/ SignalStopsConsumer \/ ConnectionLost
             PROVE  ShutdownInv'
  OBVIOUS
<1>1. CASE HandleRecord
  BY <1>1 DEF ShutdownInv, HandleRecord, HandlerReturns, HandlerThrows
<1>2. CASE ConsumeRecord
  BY <1>2 DEF ShutdownInv, ConsumeRecord, ConsumerGoes
<1>3. CASE ConsumerBegins \/ ConsumerTests \/ ConsumeTimesOut \/ LogFailure \/ CommitRecord
  BY <1>3 DEF ShutdownInv, ConsumerBegins, ConsumerTests, ConsumeTimesOut, LogFailure,
     CommitRecord, ConsumerGoes
<1>4. CASE RelayTests \/ (\E i \in Items : RelayPublishes(i)) \/ RelayMarks \/ RelayDrained
  BY <1>4 DEF ShutdownInv, RelayTests, RelayPublishes, RelayMarks, RelayDrained
<1>5. CASE SignalArrives \/ SignalStopsConsumer \/ ConnectionLost
  BY <1>5, SMT DEF ShutdownInv, SignalArrives, SignalStopsConsumer, ConnectionLost
<1> QED
  BY <1>1, <1>2, <1>3, <1>4, <1>5 DEF ConsumerStep, RelayStep

\* Requests come only while the server is up and end before it is gone.
LEMMA CallShutdown ==
  ASSUME SortInv, ShutdownInv, NEW w \in Workers,
         CallServed(w) \/ \E c \in Calls : CallArrives(w, c)
  PROVE  ShutdownInv'
<1>1. CASE CallServed(w)
  BY <1>1 DEF SortInv, ShutdownInv, CallServed
<1>2. CASE \E c \in Calls : CallArrives(w, c)
  BY <1>2 DEF SortInv, ShutdownInv, CallArrives, ServerUp
<1> QED
  BY <1>1, <1>2

-----------------------------------------------------------------------------
(* The traces.                                                             *)

\* parse reads back the context that to_json wrote.
LEMMA EnvelopeContext ==
  ASSUME NEW type, NEW saga, NEW data, NEW context, NEW uuid
  PROVE  Parse(ToJson(MakeEnvelope(type, saga, data, context, uuid))).traceparent = context
<1> DEFINE raw == ToJson(MakeEnvelope(type, saga, data, context, uuid))
<1>1. raw.object = TRUE /\ "traceparent" \in DOMAIN raw.fields
         /\ raw.fields["traceparent"] = context
  BY DEF ToJson, MakeEnvelope, Json
<1> HIDE DEF raw
<1>2. Parse(raw).traceparent = Value(raw, "traceparent", Blank.traceparent)
  BY <1>1 DEF Parse
<1>3. Parse(raw).traceparent = context
  BY <1>1, <1>2 DEF Value
<1> QED
  BY <1>3 DEF raw

\* The rows of an item carry the context they are given.
LEMMA EventCarries ==
  ASSUME NEW i, NEW saga, NEW context,
         context.trace = TraceOf(i) \/ (context = NoContext /\ i \notin Calls),
         NEW new \in {ReservedEvent(i, saga, context), FailedEvent(i, saga, context),
                      ReleasedEvent(i, saga, context)}
  PROVE  Carries(new.payload, new.traceparent, i) /\ new.status # "NONE"
<1>1. \E type, topic, data : new = Insert(i, saga, type, topic, data, context)
  BY DEF ReservedEvent, FailedEvent, ReleasedEvent
<1>2. PICK type, topic, data : new = Insert(i, saga, type, topic, data, context)
  BY <1>1
<1>3. /\ new.payload = ToJson(MakeEnvelope(type, saga, data, context, i))
      /\ new.traceparent = context /\ new.status = "PENDING"
  BY <1>2 DEF Insert
<1> QED
  BY <1>3, EnvelopeContext, SMT DEF Carries

\* A row that carries the context of its item keeps the rows in order.
LEMMA InsertCarries ==
  ASSUME SortInv, NEW i \in Items, NEW new, new = Columns(new),
         Carries(new.payload, new.traceparent, i), new.status # "NONE",
         row' = [row EXCEPT ![i] = new],
         \A j \in batch \cup {sending} : j \in Items => row[j].status # "NONE",
         \A j \in Items :
           row[j].status # "NONE" => Carries(row[j].payload, row[j].traceparent, j)
  PROVE  /\ \A j \in batch \cup {sending} : j \in Items => row'[j].status # "NONE"
         /\ \A j \in Items :
              row'[j].status # "NONE" => Carries(row'[j].payload, row'[j].traceparent, j)
<1>1. \A j \in Items : row'[j] = IF j = i THEN new ELSE row[j]
  BY InsertSort DEF SortInv
<1>2. ASSUME NEW j \in Items
      PROVE  row'[j].status # "NONE" => Carries(row'[j].payload, row'[j].traceparent, j)
  <2>1. CASE j = i
    BY <1>1, <2>1, SMT
  <2>2. CASE j # i
    BY <1>1, <2>2
  <2> QED
    BY <2>1, <2>2
<1>3. ASSUME NEW j \in batch \cup {sending}, j \in Items PROVE row'[j].status # "NONE"
  BY <1>1, <1>3
<1> QED
  BY <1>2, <1>3

\* The context that a request's rows get is that of its trace.
LEMMA ServingContext ==
  ASSUME SortInv, ShutdownInv, TraceInv, NEW w \in Workers, worker[w] # NoTrace
  PROVE  /\ main # "down" /\ w # "consumer" /\ w \in Threads
         /\ Inject(w) = [trace |-> TraceOf(worker[w]), span |-> worker[w]]
<1>1. main # "down" /\ w # "consumer" /\ w \in Threads
  BY DEF ShutdownInv
<1> QED
  BY <1>1 DEF TraceInv, Active, Inject

\* A request served leaves a row with its context, and its thread without one.
LEMMA ServedTrace ==
  ASSUME ProcessInv, NEW w \in Workers, CallServed(w)
  PROVE  TraceInv'
<1> USE DEF ProcessInv
<1>1. /\ main # "down" /\ w # "consumer" /\ w \in Threads
      /\ Inject(w).trace = TraceOf(worker[w])
  BY ServingContext, SMT DEF CallServed
<1>2. tracing' <=> main' # "down"
  BY DEF CallServed, EndSpan, TraceInv
<1>3. current' = [t \in Threads |-> Active(t)']
  <2>1. \A t \in Threads : t # w => Active(t)' = Active(t)
    BY DEF Active, CallServed, SortInv
  <2>2. Active(w)' = NoContext
    BY <1>1 DEF Active, CallServed, SortInv
  <2> HIDE DEF ProcessInv
  <2>3. current = [t \in Threads |-> Active(t)] /\ current' = [current EXCEPT ![w] = NoContext]
    BY DEF ProcessInv, TraceInv, CallServed, EndSpan
  <2>4. \A t \in Threads : current'[t] = Active(t)'
    BY <1>1, <2>1, <2>2, <2>3
  <2> QED
    BY <2>3, <2>4
<1>4. /\ \A j \in batch' \cup {sending'} : j \in Items => row'[j].status # "NONE"
      /\ \A j \in Items :
           row'[j].status # "NONE" => Carries(row'[j].payload, row'[j].traceparent, j)
  <2>1. batch' = batch /\ sending' = sending
    BY DEF CallServed
  <2>2. CASE row' = row
    BY <2>1, <2>2 DEF TraceInv
  <2>3. ASSUME NEW new \in {ReservedEvent(worker[w], worker[w], Inject(w)),
                            FailedEvent(worker[w], worker[w], Inject(w)),
                            ReleasedEvent(worker[w], worker[w], Inject(w))},
               row' = [row EXCEPT ![worker[w]] = new]
        PROVE  <1>4!1 /\ <1>4!2
    <3>1. worker[w] \in Items
      BY ServedRow
    <3>2. new = Columns(new)
      BY EventShape, SMT
    <3>3. Carries(new.payload, new.traceparent, worker[w]) /\ new.status # "NONE"
      BY <1>1, EventCarries, SMT
    <3> QED
      BY <2>1, <2>3, <3>1, <3>2, <3>3, InsertCarries DEF TraceInv
  <2> QED
    BY <2>2, <2>3, ServedRow
<1>5. TraceContinues'
  BY DEF CallServed, TraceInv, TraceContinues
<1> QED
  BY <1>2, <1>3, <1>4, <1>5 DEF TraceInv

\* Where neither rows nor messages change, only the spans matter.
LEMMA RowsKept ==
  ASSUME TraceInv, UNCHANGED <<row, batch, sending, topics>>,
         tracing' <=> main' # "down", current' = [t \in Threads |-> Active(t)']
  PROVE  TraceInv'
BY DEF TraceInv, TraceContinues

\* A request that arrives opens a span of its own trace.
LEMMA ArrivesTrace ==
  ASSUME ProcessInv, NEW w \in Workers, NEW c \in Calls, CallArrives(w, c)
  PROVE  TraceInv'
<1> USE DEF ProcessInv
<1>1. tracing /\ tracing' = tracing /\ main' = main /\ main # "down"
  BY DEF CallArrives, ServerUp, StartSpan, TraceInv
<1>2. w # "consumer" /\ w \in Threads /\ c # NoTrace
  BY DEF Items
<1>3. current[w] = NoContext
  BY <1>2 DEF CallArrives, TraceInv, Active
<1>4. current' = [current EXCEPT ![w] = [trace |-> TraceOf(c), span |-> c]]
  <2>1. Parent(w, CallContext(w, c)) = Incoming[c]
    BY <1>1, <1>3 DEF CallContext, Inject, Parent
  <2> QED
    BY <1>1, <2>1 DEF CallArrives, StartSpan, TraceOf
<1>5. current' = [t \in Threads |-> Active(t)']
  <2>1. \A t \in Threads : t # w => Active(t)' = Active(t)
    BY DEF Active, CallArrives, SortInv
  <2>2. Active(w)' = [trace |-> TraceOf(c), span |-> c]
    BY <1>2 DEF Active, CallArrives, SortInv
  <2> HIDE DEF ProcessInv
  <2>3. current = [t \in Threads |-> Active(t)]
    BY DEF ProcessInv, TraceInv
  <2>4. \A t \in Threads : current'[t] = Active(t)'
    BY <1>2, <1>4, <2>1, <2>2, <2>3
  <2> QED
    BY <1>4, <2>3, <2>4
<1> QED
  BY <1>1, <1>5, RowsKept DEF CallArrives

\* So does a record that is handed over.
LEMMA ConsumedTrace ==
  ASSUME ProcessInv, ConsumeRecord
  PROVE  TraceInv'
<1> USE DEF ProcessInv
<1> DEFINE name == RecordName[position']
<1>1. tracing /\ tracing' = tracing /\ main' = main /\ main # "down"
  BY DEF ConsumeRecord, ConsumerGoes, StartSpan, TraceInv, ShutdownInv
<1>2. current["consumer"] = NoContext
  BY DEF ConsumeRecord, ConsumerGoes, TraceInv, Active
<1>3. current' = [current EXCEPT !["consumer"] = [trace |-> TraceOf(name), span |-> name]]
  <2>1. Parent("consumer", Incoming[name]) = Incoming[name]
    BY <1>2 DEF Parent
  <2> QED
    BY <1>1, <2>1 DEF ConsumeRecord, StartSpan, TraceOf
<1>4. current' = [t \in Threads |-> Active(t)']
  <2>1. \A t \in Threads : t # "consumer" => Active(t)' = Active(t)
    BY DEF Active, ConsumeRecord, SortInv
  <2>2. Active("consumer")' = [trace |-> TraceOf(name), span |-> name]
    BY DEF Active, ConsumeRecord, ConsumerGoes
  <2> HIDE DEF ProcessInv, name
  <2>3. current = [t \in Threads |-> Active(t)]
    BY DEF ProcessInv, TraceInv
  <2>4. \A t \in Threads : current'[t] = Active(t)'
    BY <1>3, <2>1, <2>2, <2>3
  <2> QED
    BY <1>3, <2>3, <2>4
<1> QED
  BY <1>1, <1>4, RowsKept DEF ConsumeRecord

\* A record handled leaves a row with its context, and its thread without one.
LEMMA HandledTrace ==
  ASSUME ProcessInv, HandleRecord
  PROVE  TraceInv'
<1> USE DEF ProcessInv
<1> DEFINE name == RecordName[position]
           context == CancelledContext(position)
<1>1. position \in Offsets /\ name \in Items /\ name \notin Calls
  BY RecordRow
<1>2. context.trace = TraceOf(name) \/ (context = NoContext /\ name \notin Calls)
  BY <1>1 DEF CancelledContext, TraceOf
<1>3. tracing' <=> main' # "down"
  BY DEF HandleRecord, EndSpan, TraceInv
<1>4. current' = [t \in Threads |-> Active(t)']
  <2>1. \A t \in Threads : t # "consumer" => Active(t)' = Active(t)
    BY DEF Active, HandleRecord
  <2>2. Active("consumer")' = NoContext
    BY DEF Active, HandleRecord, HandlerReturns, HandlerThrows, AfterThrow
  <2> HIDE DEF ProcessInv
  <2>3. /\ current = [t \in Threads |-> Active(t)]
        /\ current' = [current EXCEPT !["consumer"] = NoContext]
    BY DEF ProcessInv, TraceInv, HandleRecord, EndSpan
  <2>4. \A t \in Threads : current'[t] = Active(t)'
    BY <2>1, <2>2, <2>3
  <2> QED
    BY <2>3, <2>4
<1>5. /\ \A j \in batch' \cup {sending'} : j \in Items => row'[j].status # "NONE"
      /\ \A j \in Items :
           row'[j].status # "NONE" => Carries(row'[j].payload, row'[j].traceparent, j)
  <2>1. batch' = batch /\ sending' = sending
    BY DEF HandleRecord
  <2>2. CASE row' = row
    BY <2>1, <2>2 DEF TraceInv
  <2>3. CASE row' = [row EXCEPT ![name] =
                       ReleasedEvent(name, Parse(Body[position]).saga_id, context)]
    <3> DEFINE new == ReleasedEvent(name, Parse(Body[position]).saga_id, context)
    <3>1. new = Columns(new)
      BY EventShape
    <3>2. Carries(new.payload, new.traceparent, name) /\ new.status # "NONE"
      BY <1>2, EventCarries
    <3> HIDE DEF new, name
    <3> QED
      BY <1>1, <2>1, <2>3, <3>1, <3>2, InsertCarries DEF TraceInv, new
  <2> QED
    BY <2>2, <2>3, RecordRow
<1>6. TraceContinues'
  BY DEF HandleRecord, TraceInv, TraceContinues
<1> QED
  BY <1>3, <1>4, <1>5, <1>6 DEF TraceInv

\* The relay publishes rows as they are, and only such as exist.
LEMMA RelayTrace ==
  ASSUME ProcessInv, RelayStep
  PROVE  TraceInv'
<1> USE DEF ProcessInv
<1>1. (tracing' <=> main' # "down") /\ current' = [t \in Threads |-> Active(t)']
  <2>1. UNCHANGED <<main, consumer, position, worker, tracing, current>>
    BY DEF RelayStep, RelayTests, RelayPublishes, RelayMarks, RelayDrained
  <2>2. \A t \in Threads : Active(t)' = Active(t)
    BY <2>1 DEF Active
  <2> QED
    BY <2>1, <2>2 DEF TraceInv
<1>2. CASE RelayTests
  <2>1. row' = row /\ sending' = sending /\ topics' = topics
    BY <1>2 DEF RelayTests
  <2>2. \A j \in batch' : j \in Items => row[j].status # "NONE"
    BY <1>2 DEF RelayTests, Pending
  <2> QED
    BY <1>1, <2>1, <2>2 DEF TraceInv, TraceContinues
<1>3. ASSUME NEW i \in Items, RelayPublishes(i) PROVE TraceInv'
  <2>1. row' = row /\ batch' \subseteq batch /\ sending' = i /\ i \in batch
    BY <1>3 DEF RelayPublishes
  <2>2. TraceContinues'
    <3>1. Carries(row[i].payload, row[i].traceparent, i)
      BY <2>1 DEF TraceInv
    <3>2. \A m \in topics' : m \in topics \/ m = Message(i)
      BY <1>3 DEF RelayPublishes
    <3>3. /\ Message(i).value = row[i].payload /\ Message(i).header = row[i].traceparent
          /\ Message(i).item = i
      BY DEF Message
    <3> QED
      BY <3>1, <3>2, <3>3 DEF TraceInv, TraceContinues
  <2> QED
    BY <1>1, <2>1, <2>2 DEF TraceInv
<1>4. CASE RelayMarks
  <2>1. batch' \subseteq batch /\ sending' = NoTrace /\ topics' = topics
    BY <1>4 DEF RelayMarks
  <2>2. \A j \in batch' \cup {sending'} : j \in Items => row'[j].status # "NONE"
    BY <1>4, <2>1, MarkRow DEF TraceInv
  <2>3. ASSUME NEW j \in Items, row'[j].status # "NONE"
        PROVE  Carries(row'[j].payload, row'[j].traceparent, j)
    <3>1. row[j].status # "NONE"
      BY <1>4, <2>3, MarkRow DEF TraceInv
    <3>2. row'[j].payload = row[j].payload /\ row'[j].traceparent = row[j].traceparent
      BY <1>4, MarkRow
    <3> QED
      BY <3>1, <3>2 DEF TraceInv
  <2> QED
    BY <1>1, <2>1, <2>2, <2>3 DEF TraceInv, TraceContinues
<1>5. CASE RelayDrained
  BY <1>1, <1>5, RowsKept DEF RelayDrained
<1> QED
  BY <1>2, <1>3, <1>4, <1>5 DEF RelayStep

\* The steps of main, and the end of the process.
LEMMA MainTrace ==
  ASSUME ProcessInv, MainStep \/ Crash
  PROVE  TraceInv'
<1> USE DEF ProcessInv
<1>1. CASE Exit \/ Crash
  <2>1. /\ main' = "down" /\ tracing' = FALSE /\ batch' = {} /\ sending' = NoTrace
        /\ consumer' = "none" /\ worker' = [w \in Workers |-> NoTrace]
        /\ current' = [t \in Threads |-> NoContext]
        /\ row' = row /\ topics' = topics
    BY <1>1 DEF Exit, Crash, Gone, TelemetryLost
  <2>2. \A t \in Threads : Active(t)' = NoContext
    BY <2>1 DEF Active
  <2> QED
    BY <2>1, <2>2 DEF TraceInv, TraceContinues
<1>2. CASE MainStep /\ ~ Exit
  <2>1. UNCHANGED <<row, batch, sending, topics, worker, current>>
    BY <1>2 DEF MainStep, Launch, Setup, InstallHandlers, SpawnRelay, RegisterConsumer,
       SpawnConsumer, JoinConsumer, StopServer, JoinRelay, ObsShutdown, Flush
  <2>2. tracing' <=> main' # "down"
    <3>1. CASE Launch
      BY <3>1 DEF Launch, Setup, MainGoes
    <3>2. CASE InstallHandlers \/ SpawnRelay \/ RegisterConsumer \/ SpawnConsumer
      BY <3>2 DEF InstallHandlers, SpawnRelay, RegisterConsumer, SpawnConsumer, MainGoes,
         TraceInv
    <3>3. CASE JoinConsumer \/ StopServer \/ JoinRelay \/ ObsShutdown
      BY <3>3 DEF JoinConsumer, StopServer, JoinRelay, ObsShutdown, MainGoes, Flush, TraceInv
    <3> QED
      BY <1>2, <3>1, <3>2, <3>3 DEF MainStep
  <2>3. \/ consumer' = consumer /\ position' = position
        \/ consumer # "handle" /\ consumer' # "handle"
    BY <1>2 DEF MainStep, MainGoes, Launch, InstallHandlers, SpawnRelay, RegisterConsumer,
       SpawnConsumer, JoinConsumer, StopServer, JoinRelay, ObsShutdown, ShutdownInv
  <2>4. \A t \in Threads : Active(t)' = Active(t)
    BY <2>1, <2>3 DEF Active
  <2> QED
    BY <2>1, <2>2, <2>4, RowsKept DEF TraceInv
<1> QED
  BY <1>1, <1>2

\* The steps that touch neither spans nor rows.
LEMMA OtherTrace ==
  ASSUME ProcessInv,
         \/ ConsumerBegins \/ ConsumerTests \/ ConsumeTimesOut \/ LogFailure \/ CommitRecord
         \/ SignalArrives \/ SignalStopsConsumer \/ ConnectionLost
  PROVE  TraceInv'
<1> USE DEF ProcessInv
<1>1. UNCHANGED <<row, batch, sending, topics, worker, position, current, tracing, main>>
  BY DEF ConsumerBegins, ConsumerTests, ConsumeTimesOut, LogFailure, CommitRecord,
     SignalArrives, SignalStopsConsumer, ConnectionLost
<1>2. consumer' = consumer \/ (consumer # "handle" /\ consumer' # "handle")
  BY DEF ConsumerBegins, ConsumerTests, ConsumeTimesOut, LogFailure, CommitRecord,
     SignalArrives, SignalStopsConsumer, ConnectionLost, ConsumerGoes
<1>3. \A t \in Threads : Active(t)' = Active(t)
  BY <1>1, <1>2 DEF Active
<1> QED
  BY <1>1, <1>3, RowsKept DEF TraceInv

-----------------------------------------------------------------------------
(* The offset.                                                             *)

\* Keys stay in processed_messages, and what was thrown is not forgotten.
LEMMA HandledStays ==
  ASSUME seen \subseteq seen', thrown \subseteq thrown'
  PROVE  \A n : HandledOrThrown(n) => HandledOrThrown(n)'
BY DEF HandledOrThrown, Handled

\* A step that leaves processed_messages alone leaves the same records handled.
LEMMA HandledSame ==
  ASSUME seen' = seen, thrown' = thrown
  PROVE  \A n : HandledOrThrown(n)' <=> HandledOrThrown(n)
BY DEF HandledOrThrown, Handled

\* A consumer that has not started has handled what is committed, and no more
\* is asked of it.
LEMMA OffsetIdle ==
  ASSUME OffsetInv, seen' = seen, thrown' = thrown, offset' = offset, consumer' = "none",
         position' = 0 \/ position' = offset
  PROVE  OffsetInv'
<1>1. \A n \in 1 .. offset : HandledOrThrown(n)'
  BY HandledSame DEF OffsetInv, LosesOnlyThrown
<1>2. \A n \in 1 .. position' : HandledOrThrown(n)'
  <2>1. CASE position' = 0
    BY <2>1, SMT
  <2>2. CASE position' = offset
    BY <1>1, <2>2
  <2> QED
    BY <2>1, <2>2
<1> QED
  BY <1>1, <1>2 DEF OffsetInv, LosesOnlyThrown

\* What does not touch the consumer keeps the invariant; a connection may go.
LEMMA OffsetKept ==
  ASSUME OffsetInv, UNCHANGED <<seen, thrown, offset, consumer, position>>, connected' => connected
  PROVE  OffsetInv'
BY HandledSame DEF OffsetInv, LosesOnlyThrown

\* The steps of main and the end of the process.
LEMMA MainOffset ==
  ASSUME ProcessInv, MainStep \/ Crash
  PROVE  OffsetInv'
<1> OffsetInv /\ ShutdownInv
  BY DEF ProcessInv
<1>1. seen' = seen /\ thrown' = thrown /\ offset' = offset
  BY DEF MainStep, Launch, InstallHandlers, SpawnRelay, RegisterConsumer, SpawnConsumer,
     JoinConsumer, StopServer, JoinRelay, ObsShutdown, Exit, Crash, Gone
<1>2. CASE Launch
  <2>1. consumer' = "none" /\ position' = 0
    BY <1>2 DEF Launch, MainGoes, ShutdownInv
  <2> QED
    BY <1>1, <2>1, OffsetIdle
<1>3. CASE RegisterConsumer
  <2>1. consumer' = "none" /\ position' = offset
    BY <1>3 DEF RegisterConsumer, StartingOffset, MainGoes, ShutdownInv
  <2> QED
    BY <1>1, <2>1, OffsetIdle
<1>4. CASE SpawnConsumer
  <2>1. consumer = "none" /\ consumer' = "start" /\ position' = position /\ connected' = connected
    BY <1>4 DEF SpawnConsumer, MainGoes, ShutdownInv
  <2> QED
    BY <1>1, <2>1, HandledSame DEF OffsetInv, LosesOnlyThrown
<1>5. CASE Exit \/ Crash
  <2>1. consumer' = "none" /\ position' = 0
    BY <1>5 DEF Exit, Crash, Gone
  <2> QED
    BY <1>1, <2>1, OffsetIdle
<1>6. CASE InstallHandlers \/ SpawnRelay \/ JoinConsumer \/ StopServer \/ JoinRelay
             \/ ObsShutdown
  <2>1. UNCHANGED <<consumer, position, connected>>
    BY <1>6 DEF InstallHandlers, SpawnRelay, JoinConsumer, StopServer, JoinRelay,
       ObsShutdown
  <2> QED
    BY <1>1, <2>1, OffsetKept
<1> QED
  BY <1>2, <1>3, <1>4, <1>5, <1>6 DEF MainStep

\* The consumer commits a record when it is handled.  What a commit passes over
\* has been handled too or was thrown, since the connection holds.
LEMMA ConsumerOffset ==
  ASSUME ProcessInv, ConsumerStep \/ ConsumeRecord
  PROVE  OffsetInv'
<1> USE DEF ProcessInv
<1>1. CASE HandleRecord
  <2>1. /\ offset' = offset /\ position' = position /\ connected' = connected
        /\ consumer = "handle" /\ seen \subseteq seen' /\ thrown \subseteq thrown'
    BY <1>1 DEF HandleRecord, HandlerReturns, HandlerThrows, HandleOrderCancelled
  <2>2. \A n : HandledOrThrown(n) => HandledOrThrown(n)'
    BY <2>1, HandledStays
  <2>3. \A n : connected /\ n = position => HandledOrThrown(n)'
    <3>1. CASE HandlerReturns
      BY <3>1 DEF HandlerReturns, HandleOrderCancelled, HandledOrThrown, Handled
    <3>2. CASE HandlerThrows
      BY <3>2 DEF HandlerThrows, HandledOrThrown, Handled
    <3> QED
      BY <1>1, <3>1, <3>2 DEF HandleRecord
  <2>4. consumer' # "handle" /\ (consumer' = "commit" => connected)
    BY <1>1 DEF HandleRecord, HandlerReturns, HandlerThrows, AfterThrow, Commits
  <2>5. ASSUME connected, NEW n \in 1 .. position PROVE HandledOrThrown(n)'
    <3>1. CASE n = position
      BY <2>3, <2>5, <3>1
    <3>2. CASE n # position
      BY <2>1, <2>2, <2>5, <3>2, SMT DEF OffsetInv, SortInv
    <3> QED
      BY <3>1, <3>2
  <2> QED
    BY <2>1, <2>2, <2>4, <2>5 DEF OffsetInv, LosesOnlyThrown
<1>2. CASE ConsumeRecord
  <2>1. /\ seen' = seen /\ thrown' = thrown /\ offset' = offset /\ connected' = connected
        /\ consumer = "poll" /\ consumer' = "handle" /\ position' = position + 1
    BY <1>2 DEF ConsumeRecord, ConsumerGoes
  <2>2. \A n : HandledOrThrown(n)' <=> HandledOrThrown(n)
    BY <2>1, HandledSame
  <2>3. 1 .. position' - 1 = 1 .. position
    BY <2>1, SMT DEF SortInv
  <2> QED
    BY <2>1, <2>2, <2>3 DEF OffsetInv, LosesOnlyThrown
<1>3. CASE CommitRecord
  <2>1. \A n : HandledOrThrown(n)' <=> HandledOrThrown(n)
    BY <1>3, HandledSame DEF CommitRecord
  <2> QED
    BY <1>3, <2>1 DEF OffsetInv, LosesOnlyThrown, CommitRecord, ConsumerGoes
<1>4. CASE ConsumerBegins \/ ConsumerTests \/ ConsumeTimesOut \/ LogFailure
  <2>1. \A n : HandledOrThrown(n)' <=> HandledOrThrown(n)
    BY <1>4, HandledSame DEF ConsumerBegins, ConsumerTests, ConsumeTimesOut, LogFailure
  <2> QED
    BY <1>4, <2>1, SMT DEF OffsetInv, LosesOnlyThrown, ConsumerBegins, ConsumerTests,
       ConsumeTimesOut, LogFailure, ConsumerGoes
<1> QED
  BY <1>1, <1>2, <1>3, <1>4 DEF ConsumerStep

\* The other steps leave the consumer and the offset alone.
LEMMA OtherOffset ==
  ASSUME ProcessInv, \/ RelayStep \/ SignalArrives \/ SignalStopsConsumer \/ ConnectionLost
                     \/ \E w \in Workers : CallServed(w) \/ \E c \in Calls : CallArrives(w, c)
  PROVE  OffsetInv'
<1> USE DEF ProcessInv
<1>1. /\ UNCHANGED <<seen, thrown, offset, consumer, position>>
      /\ connected' => connected
  <2>1. CASE RelayStep
    BY <2>1, SMT DEF RelayStep, RelayTests, RelayPublishes, RelayMarks, RelayDrained
  <2>2. CASE SignalArrives \/ SignalStopsConsumer
    BY <2>2, SMT DEF SignalArrives, SignalStopsConsumer
  <2>3. CASE ConnectionLost
    BY <2>3 DEF ConnectionLost
  <2>4. ASSUME NEW w \in Workers, CallServed(w)
        PROVE  UNCHANGED <<seen, thrown, offset, consumer, position, connected>>
    BY <2>4 DEF CallServed
  <2>5. ASSUME NEW w \in Workers, NEW c \in Calls, CallArrives(w, c)
        PROVE  UNCHANGED <<seen, thrown, offset, consumer, position, connected>>
    BY <2>5 DEF CallArrives
  <2> QED
    BY <2>1, <2>2, <2>3, <2>4, <2>5
<1> QED
  BY <1>1, OffsetKept

-----------------------------------------------------------------------------
(* The theorems.                                                           *)

\* Every step of the process, in whatever order the threads, the signal
\* handler and the faults come, keeps the invariant.
THEOREM ProcessInvariance == ProcessSpec => []ProcessInv
<1>1. ASSUME ProcessInv, ProcessNext PROVE ProcessInv'
  <2>1. CASE MainStep \/ Crash
    BY <1>1, <2>1, MainSort, MainShutdown, MainTrace, MainOffset DEF ProcessInv
  <2>2. CASE HandleRecord \/ ConsumeRecord
    BY <1>1, <2>2, ThreadSort, ThreadShutdown, HandledTrace, ConsumedTrace, ConsumerOffset
       DEF ProcessInv, ConsumerStep
  <2>3. CASE ConsumerBegins \/ ConsumerTests \/ ConsumeTimesOut \/ LogFailure \/ CommitRecord
    BY <1>1, <2>3, ThreadSort, ThreadShutdown, OtherTrace, ConsumerOffset
       DEF ProcessInv, ConsumerStep
  <2>4. CASE RelayStep
    BY <1>1, <2>4, ThreadSort, ThreadShutdown, RelayTrace, OtherOffset DEF ProcessInv
  <2>5. CASE SignalArrives \/ SignalStopsConsumer \/ ConnectionLost
    BY <1>1, <2>5, ThreadSort, ThreadShutdown, OtherTrace, OtherOffset DEF ProcessInv
  <2>6. ASSUME NEW w \in Workers, CallServed(w) \/ \E c \in Calls : CallArrives(w, c)
        PROVE  ProcessInv'
    BY <1>1, <2>6, CallSort, CallShutdown, ServedTrace, ArrivesTrace, OtherOffset
       DEF ProcessInv
  <2> QED
    BY <1>1, <2>1, <2>2, <2>3, <2>4, <2>5, <2>6 DEF ProcessNext, ConsumerStep
<1>2. ASSUME ProcessInv, UNCHANGED allVars PROVE ProcessInv'
  <2>1. SortInv' /\ ShutdownInv'
    BY <1>2 DEF ProcessInv, SortInv, ShutdownInv
  <2>2. TraceInv'
    <3>1. \A t \in Threads : Active(t)' = Active(t)
      BY <1>2 DEF Active
    <3> QED
      BY <1>2, <3>1, RowsKept DEF ProcessInv, TraceInv
  <2>3. OffsetInv'
    BY <1>2, OffsetKept DEF ProcessInv
  <2> QED
    BY <2>1, <2>2, <2>3 DEF ProcessInv
<1> QED
  BY <1>1, <1>2, ProcessInitInv, PTL DEF ProcessSpec

\* main destroys the objects that its threads share only when all of them
\* are done: join, Shutdown and join in the order main.cpp has them, with
\* signals, crashes and lost connections at any moment.
THEOREM JoinsThreads == ProcessSpec => []ThreadsJoined
<1>1. ProcessInv => ThreadsJoined
  BY DEF ProcessInv, ShutdownInv, ThreadsJoined
<1> QED
  BY <1>1, ProcessInvariance, PTL

\* Nothing is queued for export once obs::shutdown has flushed.
THEOREM FlushesAtExit == ProcessSpec => []FlushedAtExit
<1>1. ProcessInv => FlushedAtExit
  BY DEF ProcessInv, ShutdownInv, FlushedAtExit
<1> QED
  BY <1>1, ProcessInvariance, PTL

\* FR-23 for the Inventory service: header and envelope of each event carry
\* the trace of the request or record behind it, whatever thread served it
\* and whatever that thread did before.
THEOREM ContinuesTraces == ProcessSpec => []TraceContinues
<1>1. ProcessInv => TraceContinues
  BY DEF ProcessInv, TraceInv
<1> QED
  BY <1>1, ProcessInvariance, PTL

(***************************************************************************)
(* A log line that a handler writes is stamped with the trace of the       *)
(* request or record it handles, and every other line with none: that      *)
(* Consumer::run writes about a record whose handler threw is one of them. *)
(* No line is stamped with the trace of other work.                        *)
(***************************************************************************)
THEOREM CorrelatesLogs == ProcessSpec => []LogsCorrelated
<1>1. ProcessInv => LogsCorrelated
  <2> SUFFICES ASSUME ProcessInv PROVE LogsCorrelated
    OBVIOUS
  <2> USE DEF ProcessInv
  <2>1. ASSUME NEW w \in Workers
        PROVE  LogContext(w).trace = IF worker[w] = NoTrace THEN NoTrace ELSE TraceOf(worker[w])
    <3>1. CASE main = "down"
      BY <3>1 DEF TraceInv, ShutdownInv, LogContext, NoContext
    <3>2. CASE main # "down"
      BY <3>2 DEF TraceInv, LogContext, Active, NoContext
    <3> QED
      BY <3>1, <3>2
  <2>2. LogContext("consumer").trace =
          IF consumer = "handle" THEN TraceOf(RecordName[position]) ELSE NoTrace
    <3>1. CASE main = "down"
      BY <3>1 DEF TraceInv, ShutdownInv, LogContext, NoContext
    <3>2. CASE main # "down"
      BY <3>2 DEF TraceInv, LogContext, Active, NoContext
    <3> QED
      BY <3>1, <3>2
  <2> QED
    BY <2>1, <2>2 DEF LogsCorrelated
<1> QED
  BY <1>1, ProcessInvariance, PTL

(***************************************************************************)
(* The offset never passes a cancellation that has neither been handled    *)
(* nor is malformed, unless its handler threw over a usable connection.    *)
(* So a connection that is lost under the consumer, a stop or a crash lose *)
(* no cancellation, although the loop goes on after an exception; only an  *)
(* exception that passes does.                                             *)
(***************************************************************************)
THEOREM OffsetLosesOnlyThrown == ProcessSpec => []LosesOnlyThrown
<1>1. ProcessInv => LosesOnlyThrown
  BY DEF ProcessInv, OffsetInv
<1> QED
  BY <1>1, ProcessInvariance, PTL

-----------------------------------------------------------------------------
(* Type correctness.                                                       *)

\* The flags of the threads and of tracing.
FlagsInv ==
  /\ stop \in BOOLEAN /\ running \in BOOLEAN /\ connected \in BOOLEAN
  /\ tracing \in BOOLEAN /\ queued \in BOOLEAN

\* Main, the signal handler and the faults set and clear flags.
LEMMA MainFlags ==
  ASSUME FlagsInv, MainStep \/ Crash \/ SignalArrives \/ SignalStopsConsumer \/ ConnectionLost
  PROVE  FlagsInv'
<1>1. CASE Launch \/ InstallHandlers \/ SpawnRelay \/ RegisterConsumer \/ SpawnConsumer
  BY <1>1 DEF FlagsInv, Launch, InstallHandlers, SpawnRelay, RegisterConsumer, SpawnConsumer,
     Setup
<1>2. CASE JoinConsumer \/ StopServer \/ JoinRelay \/ ObsShutdown
  BY <1>2 DEF FlagsInv, JoinConsumer, StopServer, JoinRelay, ObsShutdown, Flush
<1>3. CASE Exit \/ Crash
  BY <1>3 DEF FlagsInv, Exit, Crash, Gone, TelemetryLost
<1>4. CASE SignalArrives \/ SignalStopsConsumer \/ ConnectionLost
  BY <1>4 DEF FlagsInv, SignalArrives, SignalStopsConsumer, ConnectionLost
<1> QED
  BY <1>1, <1>2, <1>3, <1>4 DEF MainStep

\* So do consumer, relay and workers.
LEMMA ThreadFlags ==
  ASSUME FlagsInv, \/ ConsumerStep \/ ConsumeRecord \/ RelayStep
                   \/ \E w \in Workers : CallServed(w) \/ \E c \in Calls : CallArrives(w, c)
  PROVE  FlagsInv'
<1>1. CASE \/ ConsumerBegins \/ ConsumerTests \/ ConsumeTimesOut \/ LogFailure
           \/ CommitRecord \/ ConsumeRecord
  BY <1>1 DEF FlagsInv, ConsumerBegins, ConsumerTests, ConsumeTimesOut, LogFailure,
     CommitRecord, ConsumeRecord, StartSpan
<1>2. CASE HandleRecord
  BY <1>2 DEF FlagsInv, HandleRecord, EndSpan
<1>3. ASSUME NEW w \in Workers, CallServed(w) PROVE FlagsInv'
  BY <1>3 DEF FlagsInv, CallServed, EndSpan
<1>4. ASSUME NEW w \in Workers, NEW c \in Calls, CallArrives(w, c) PROVE FlagsInv'
  BY <1>4 DEF FlagsInv, CallArrives, StartSpan
<1>5. CASE RelayStep
  BY <1>5 DEF FlagsInv, RelayStep, RelayTests, RelayPublishes, RelayDrained, RelayMarks
<1> QED
  BY <1>1, <1>2, <1>3, <1>4, <1>5 DEF ConsumerStep

\* Main, the signal handler and the faults go from stage to stage.
LEMMA MainStages ==
  ASSUME StagesOK, MainStep \/ Crash \/ SignalArrives \/ SignalStopsConsumer \/ ConnectionLost
  PROVE  StagesOK'
<1>1. CASE Launch \/ InstallHandlers \/ SpawnRelay \/ RegisterConsumer \/ SpawnConsumer
  BY <1>1, SMT DEF StagesOK, Launch, InstallHandlers, SpawnRelay, RegisterConsumer,
     SpawnConsumer, MainGoes
<1>2. CASE JoinConsumer \/ StopServer \/ JoinRelay \/ ObsShutdown
  BY <1>2, SMT DEF StagesOK, JoinConsumer, StopServer, JoinRelay, ObsShutdown, MainGoes
<1>3. CASE Exit \/ Crash
  BY <1>3, SMT DEF StagesOK, Exit, Crash, Gone, Fault
<1>4. CASE SignalArrives \/ SignalStopsConsumer \/ ConnectionLost
  BY <1>4, SMT DEF StagesOK, SignalArrives, SignalStopsConsumer, ConnectionLost, Fault
<1> QED
  BY <1>1, <1>2, <1>3, <1>4 DEF MainStep

\* The rows that requests and records leave are PENDING.
LEMMA RowsPending ==
  ASSUME SortInv, StagesOK, NEW i \in Items, NEW saga, NEW context,
         \/ row' = row
         \/ \E new \in {ReservedEvent(i, saga, context), FailedEvent(i, saga, context),
                        ReleasedEvent(i, saga, context)} : row' = [row EXCEPT ![i] = new]
  PROVE  \A j \in Items : row'[j].status \in {"NONE", "PENDING", "PUBLISHED"}
<1>1. CASE row' = row
  BY <1>1 DEF StagesOK
<1>2. ASSUME NEW new \in {ReservedEvent(i, saga, context), FailedEvent(i, saga, context),
                          ReleasedEvent(i, saga, context)},
             row' = [row EXCEPT ![i] = new]
      PROVE  \A j \in Items : row'[j].status \in {"NONE", "PENDING", "PUBLISHED"}
  <2>1. new.status = "PENDING"
    BY SMT DEF ReservedEvent, FailedEvent, ReleasedEvent, Insert
  <2>2. \A j \in Items : row'[j] = IF j = i THEN new ELSE row[j]
    BY <1>2 DEF SortInv
  <2>3. \A j \in Items : row[j].status \in {"NONE", "PENDING", "PUBLISHED"}
    BY DEF StagesOK
  <2> QED
    BY <2>1, <2>2, <2>3
<1> QED
  BY <1>1, <1>2

\* Consumer and relay.
LEMMA ThreadStages ==
  ASSUME SortInv, StagesOK, ConsumerStep \/ ConsumeRecord \/ RelayStep
  PROVE  StagesOK'
<1>1. CASE \/ ConsumerBegins \/ ConsumerTests \/ ConsumeTimesOut \/ LogFailure
           \/ CommitRecord \/ ConsumeRecord
  BY <1>1, SMT DEF StagesOK, ConsumerBegins, ConsumerTests, ConsumeTimesOut, LogFailure,
     CommitRecord, ConsumeRecord, ConsumerGoes
<1>2. CASE HandleRecord
  <2>1. \A j \in Items : row'[j].status \in {"NONE", "PENDING", "PUBLISHED"}
    <3>1. PICK i, saga, context :
            /\ i \in Items /\ i = RecordName[position]
            /\ saga = Parse(Body[position]).saga_id
            /\ context = CancelledContext(position)
      BY <1>2, RecordRow
    <3>2. row' = row \/ row' = [row EXCEPT ![i] = ReleasedEvent(i, saga, context)]
      BY <1>2, <3>1, RecordRow
    <3>3. i \in Items
      BY <3>1
    <3> QED
      BY <3>2, <3>3, RowsPending
  <2>2. seen' \subseteq {IdempotencyKey[n] : n \in Offsets}
    <3>1. seen' = seen \/ seen' = seen \cup {IdempotencyKey[position]}
      BY <1>2 DEF HandleRecord, HandlerReturns, HandlerThrows, HandleOrderCancelled
    <3>2. position \in Offsets
      BY <1>2, RecordRow
    <3>3. seen \subseteq {IdempotencyKey[n] : n \in Offsets}
      BY DEF StagesOK
    <3> QED
      BY <3>1, <3>2, <3>3, ZenonT(30)
  <2>3. thrown' \subseteq Offsets
    <3>1. thrown' = thrown \/ thrown' = thrown \cup {position}
      BY <1>2 DEF HandleRecord, HandlerReturns, HandlerThrows
    <3> QED
      BY <1>2, <3>1, RecordRow DEF StagesOK
  <2>4. faults' \in 0 .. MaxFaults
    BY <1>2, SMT DEF StagesOK, HandleRecord, HandlerReturns, HandlerThrows, Commits, Throws,
       Fault
  <2> QED
    BY <1>2, <2>1, <2>2, <2>3, <2>4, SMT DEF StagesOK, HandleRecord, HandlerReturns,
       HandlerThrows, AfterThrow
<1>3. CASE RelayTests \/ (\E i \in Items : RelayPublishes(i)) \/ RelayDrained
  BY <1>3, SMT DEF StagesOK, RelayTests, RelayPublishes, RelayDrained, Pending, Commits,
     Throws, Fault
<1>4. CASE RelayMarks
  <2>1. \A j \in Items : row'[j].status \in {"NONE", "PENDING", "PUBLISHED"}
    BY <1>4, MarkRow, SMT DEF StagesOK
  <2> QED
    BY <1>4, <2>1, SMT DEF StagesOK, RelayMarks, Commits, Throws, Fault
<1> QED
  BY <1>1, <1>2, <1>3, <1>4 DEF ConsumerStep, RelayStep

\* The gRPC workers.
LEMMA CallStages ==
  ASSUME SortInv, StagesOK, NEW w \in Workers, CallServed(w) \/ \E c \in Calls : CallArrives(w, c)
  PROVE  StagesOK'
<1>1. CASE CallServed(w)
  <2>1. \A j \in Items : row'[j].status \in {"NONE", "PENDING", "PUBLISHED"}
    <3>1. PICK i, saga, context :
            i \in Items /\ i = worker[w] /\ saga = worker[w] /\ context = Inject(w)
      BY <1>1, ServedRow
    <3>2. \/ row' = row
          \/ \E new \in {ReservedEvent(i, saga, context), FailedEvent(i, saga, context),
                         ReleasedEvent(i, saga, context)} : row' = [row EXCEPT ![i] = new]
      BY <1>1, <3>1, ServedRow
    <3>3. i \in Items
      BY <3>1
    <3> QED
      BY <3>2, <3>3, RowsPending, SMT
  <2> QED
    BY <1>1, <2>1, SMT DEF StagesOK, CallServed, Commits, Throws, Fault
<1>2. CASE \E c \in Calls : CallArrives(w, c)
  BY <1>2, SMT DEF StagesOK, CallArrives
<1> QED
  BY <1>1, <1>2

\* The contexts on the threads are those of what they handle, hence of traces
\* and spans there are.
LEMMA ContextsTyped ==
  ASSUME ProcessInv
  PROVE  current \in [Threads -> [trace : Traces, span : Spans \cup {NoTrace}]]
<1>1. ASSUME NEW i \in Items
      PROVE  [trace |-> TraceOf(i), span |-> i] \in [trace : Traces, span : Spans \cup {NoTrace}]
  BY DEF TraceOf, Traces
<1>2. NoContext \in [trace : Traces, span : Spans \cup {NoTrace}]
  BY DEF NoContext, Traces
<1>3. ASSUME NEW t \in Threads
      PROVE  Active(t) \in [trace : Traces, span : Spans \cup {NoTrace}]
  <2>1. CASE t = "consumer"
    <3>1. consumer = "handle" => position \in Offsets
      BY SMT DEF ProcessInv, SortInv, Offsets
    <3>2. consumer = "handle" => RecordName[position] \in Items
      BY <3>1 DEF Items
    <3> QED
      BY <1>1, <1>2, <2>1, <3>2 DEF Active
  <2>2. CASE t # "consumer"
    <3>1. t \in Workers
      BY <2>2
    <3>2. worker[t] # NoTrace => worker[t] \in Items
      <4>1. worker \in [Workers -> Calls \cup {NoTrace}]
        BY DEF ProcessInv, SortInv
      <4> QED
        BY <3>1, <4>1 DEF Items
    <3> QED
      BY <1>1, <1>2, <2>2, <3>2 DEF Active
  <2> QED
    BY <2>1, <2>2
<1> QED
  BY <1>3 DEF ProcessInv, TraceInv

(***************************************************************************)
(* Through starts, stops and crashes all threads are where they can be,    *)
(* rows have a status the table knows, and every context on a thread is of *)
(* a trace that a caller began or the service did.                         *)
(***************************************************************************)
THEOREM ProcessTypeCorrect == ProcessSpec => []ProcessTypeOK
<1>1. ProcessInit => FlagsInv /\ StagesOK
  <2>1. ProcessInit => FlagsInv
    BY DEF ProcessInit, TelemetryInit, FlagsInv
  <2>2. ProcessInit => StagesOK
    <3>1. ProcessInit => \A i \in Items : row[i].status = "NONE"
      <4>1. NoRow.status = "NONE"
        BY DEF NoRow
      <4>2. ProcessInit => \A i \in Items : row[i] = NoRow
        BY DEF ProcessInit
      <4> QED
        BY <4>1, <4>2
    <3> QED
      BY <3>1, SMT DEF ProcessInit, StagesOK
  <2> QED
    BY <2>1, <2>2
<1>2. ProcessInv /\ FlagsInv /\ StagesOK /\ [ProcessNext]_allVars => FlagsInv' /\ StagesOK'
  <2> SUFFICES ASSUME ProcessInv, FlagsInv, StagesOK, [ProcessNext]_allVars
               PROVE  FlagsInv' /\ StagesOK'
    OBVIOUS
  <2>1. CASE UNCHANGED allVars
    <3>1. StagesOK'
      BY <2>1, SMT DEF StagesOK
    <3> QED
      BY <2>1, <3>1 DEF FlagsInv
  <2>2. CASE MainStep \/ Crash \/ SignalArrives \/ SignalStopsConsumer \/ ConnectionLost
    BY <2>2, MainFlags, MainStages
  <2>3. CASE ConsumerStep \/ ConsumeRecord \/ RelayStep
    BY <2>3, ThreadFlags, ThreadStages DEF ProcessInv
  <2>4. CASE \E w \in Workers : CallServed(w) \/ \E c \in Calls : CallArrives(w, c)
    BY <2>4, ThreadFlags, CallStages DEF ProcessInv
  <2> QED
    BY <2>1, <2>2, <2>3, <2>4 DEF ProcessNext
<1>3. ProcessInv /\ FlagsInv /\ StagesOK => ProcessTypeOK
  <2> SUFFICES ASSUME ProcessInv, FlagsInv, StagesOK PROVE ProcessTypeOK
    OBVIOUS
  <2>1. DOMAIN row = Items
    BY DEF ProcessInv, SortInv
  <2> QED
    BY <2>1, ContextsTyped DEF ProcessInv, SortInv, FlagsInv, ProcessTypeOK, TelemetryTypeOK
<1> QED
  BY <1>1, <1>2, <1>3, ProcessInvariance, PTL DEF ProcessSpec
=============================================================================
