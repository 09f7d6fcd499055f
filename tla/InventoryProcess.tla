-------------------------- MODULE InventoryProcess --------------------------
(***************************************************************************)
(* The Inventory process from start to exit, services/inventory/src/       *)
(* main.cpp: the main thread, the outbox relay thread, the consumer thread *)
(* and the gRPC workers, the signal handler and what it can reach, and the *)
(* traces that requests and records leave.  The process can die, lose its  *)
(* one database connection, see a transaction fail once, be stopped by     *)
(* signals, and be started again.                                          *)
(*                                                                         *)
(* What the transactions do to stock and reservations is the subject of    *)
(* InventoryService, and which failures of Kafka the relay and the         *)
(* consumer survive that of OutboxRelay and KafkaConsumer.  Here a request *)
(* or record matters by the outbox row it leaves.                          *)
(***************************************************************************)
EXTENDS InventoryTelemetry, Naturals

CONSTANTS Calls,      \* the gRPC requests
          Releases,   \* those of them that are for ReleaseStock
          NRecords,   \* the order.cancelled topic holds records 1 .. NRecords
          RecordName, \* RecordName[n]: what record n is called
          Body,       \* Body[n]: the message body of record n
          Incoming,   \* Incoming[i]: the traceparent that came with item i
          Workers,    \* the threads of the gRPC server
          MaxSignals, MaxFaults

Offsets == 1 .. NRecords
Items == Calls \cup {RecordName[n] : n \in Offsets}
IdempotencyKey == [n \in Offsets |-> Parse(Body[n]).idempotency_key]
Traces == {NoTrace} \cup Items \cup {Incoming[i].trace : i \in Items}

ASSUME ProcessAssumption ==
  /\ Releases \subseteq Calls
  /\ NRecords \in Nat
  /\ \A n \in Offsets : RecordName[n] \notin Calls
  /\ \A n, o \in Offsets : RecordName[n] = RecordName[o] => n = o
  /\ NoTrace \notin Items
  /\ \A n \in Offsets : Parse(Body[n]).traceparent \in {NoContext, Incoming[RecordName[n]]}
  /\ Spans = Items
  /\ "consumer" \notin Workers
  /\ Threads = Workers \cup {"consumer"}
  /\ MaxSignals \in Nat /\ MaxFaults \in Nat

VARIABLES
  main,       \* where the main thread is; "down" while there is no process
  stop,       \* g_stop
  running,    \* the consumer's running_
  handler,    \* the signal handler: "none", or "half" between its two statements
  relay,      \* where the relay thread is
  batch,      \* the rows of the current drain not yet published
  sending,    \* the row published and not yet marked, or NoTrace
  consumer,   \* where the consumer thread is
  position,   \* the records the consumer has been handed
  worker,     \* worker[w]: the request w serves, or NoTrace
  connected,  \* the libpqxx connection is usable
  made,       \* the requests that have reached the server
  offset,     \* the committed offset: the records up to it are not redelivered
  seen,       \* the keys in processed_messages of the order.cancelled consumer
  row,        \* row[i]: the outbox row that item i left
  topics,     \* the messages the relay has published
  thrown,     \* history: the records whose handler threw over a usable connection
  signals, faults

processVars == <<main, stop, running, handler, signals>>
relayVars == <<relay, batch, sending>>
workVars == <<relayVars, consumer, position, worker, made>>
durableVars == <<offset, seen, row, topics, thrown>>
allVars == <<processVars, workVars, durableVars, telemetryVars, connected, faults>>

NoRow == [status |-> "NONE", event_type |-> "", topic |-> "", payload |-> Json(<<>>), traceparent |-> NoContext]

\* Where the threads are, and what they have taken on and left.
StagesOK ==
  /\ main \in {"down", "built", "handlers", "relaying", "registered", "join", "drain",
               "joinRelay", "flush", "unwind"}
  /\ handler \in {"none", "half"}
  /\ relay \in {"none", "test", "publish", "mark", "ended"}
  /\ batch \subseteq Items /\ sending \in Items \cup {NoTrace}
  /\ consumer \in {"none", "start", "test", "poll", "handle", "log", "commit", "ended"}
  /\ made \subseteq Calls
  /\ seen \subseteq {IdempotencyKey[n] : n \in Offsets}
  /\ \A i \in Items : row[i].status \in {"NONE", "PENDING", "PUBLISHED"}
  /\ thrown \subseteq Offsets
  /\ signals \in 0 .. MaxSignals /\ faults \in 0 .. MaxFaults

ProcessTypeOK ==
  /\ TelemetryTypeOK(Traces)
  /\ StagesOK
  /\ stop \in BOOLEAN /\ running \in BOOLEAN /\ connected \in BOOLEAN
  /\ position \in 0 .. NRecords
  /\ worker \in [Workers -> Calls \cup {NoTrace}]
  /\ offset \in 0 .. NRecords
  /\ DOMAIN row = Items

ProcessInit ==
  /\ TelemetryInit
  /\ main = "down"
  /\ stop = FALSE /\ running = FALSE /\ handler = "none"
  /\ relay = "none" /\ batch = {} /\ sending = NoTrace
  /\ consumer = "none" /\ position = 0
  /\ worker = [w \in Workers |-> NoTrace]
  /\ connected = FALSE
  /\ made = {}
  /\ offset = 0 /\ seen = {}
  /\ row = [i \in Items |-> NoRow]
  /\ topics = {} /\ thrown = {}
  /\ signals = 0 /\ faults = 0

-----------------------------------------------------------------------------
(* The main thread.                                                        *)

\* main goes from one stage to the next.
MainGoes(from, to) == main = from /\ main' = to

\* Configuration, tracing, database, producer, application, relay object, and
\* the gRPC server, which serves from now on.
Launch ==
  /\ MainGoes("down", "built")
  /\ connected' = TRUE
  /\ Setup
  /\ UNCHANGED <<stop, running, handler, signals, workVars, durableVars, faults>>

InstallHandlers ==
  /\ MainGoes("built", "handlers")
  /\ UNCHANGED <<stop, running, handler, signals, workVars, durableVars, telemetryVars,
                 connected, faults>>

SpawnRelay ==
  /\ MainGoes("handlers", "relaying")
  /\ relay' = "test"
  /\ UNCHANGED <<stop, running, handler, signals, batch, sending, consumer, position, worker,
                 made, durableVars, telemetryVars, connected, faults>>

\* Mutation: a group without an offset begins at the end of the topic.
StartingOffsetLatest == IF offset = 0 THEN NRecords ELSE offset

StartingOffset == offset

\* The consumer is constructed and g_consumer points to it.
RegisterConsumer ==
  /\ MainGoes("relaying", "registered")
  /\ position' = StartingOffset
  /\ UNCHANGED <<stop, running, handler, signals, relayVars, consumer, worker, made,
                 durableVars, telemetryVars, connected, faults>>

SpawnConsumer ==
  /\ MainGoes("registered", "join")
  /\ consumer' = "start"
  /\ UNCHANGED <<stop, running, handler, signals, relayVars, position, worker, made,
                 durableVars, telemetryVars, connected, faults>>

\* consumer_thread.join(), after which server->Shutdown() takes no more requests.
JoinConsumer ==
  /\ MainGoes("join", "drain")
  /\ consumer = "ended"
  /\ UNCHANGED <<stop, running, handler, signals, workVars, durableVars, telemetryVars,
                 connected, faults>>

\* Mutation: the shutdown of the server does not wait for requests under way.
ServedNot == TRUE

Served == \A w \in Workers : worker[w] = NoTrace

\* Shutdown returns when the requests under way are done; then g_stop is set.
StopServer ==
  /\ MainGoes("drain", "joinRelay")
  /\ Served
  /\ stop' = TRUE
  /\ UNCHANGED <<running, handler, signals, workVars, durableVars, telemetryVars,
                 connected, faults>>

\* Mutation: the relay thread is not joined.
RelayDoneAlways == TRUE

RelayDone == relay = "ended"

JoinRelay ==
  /\ MainGoes("joinRelay", "flush")
  /\ RelayDone
  /\ UNCHANGED <<stop, running, handler, signals, workVars, durableVars, telemetryVars,
                 connected, faults>>

ObsShutdown ==
  /\ MainGoes("flush", "unwind")
  /\ Flush
  /\ UNCHANGED <<stop, running, handler, signals, workVars, durableVars, connected, faults>>

\* The process is gone: all that is not in the database or at the broker is lost.
Gone ==
  /\ main' = "down"
  /\ stop' = FALSE /\ running' = FALSE /\ handler' = "none"
  /\ relay' = "none" /\ batch' = {} /\ sending' = NoTrace
  /\ consumer' = "none" /\ position' = 0
  /\ worker' = [w \in Workers |-> NoTrace]
  /\ connected' = FALSE
  /\ TelemetryLost
  /\ UNCHANGED <<signals, made, durableVars>>

\* main returns: the consumer, the server, the producer and the database go.
Exit == main = "unwind" /\ Gone /\ UNCHANGED faults

MainStep ==
  \/ Launch \/ InstallHandlers \/ SpawnRelay \/ RegisterConsumer \/ SpawnConsumer
  \/ JoinConsumer \/ StopServer \/ JoinRelay \/ ObsShutdown \/ Exit

-----------------------------------------------------------------------------
(* The signal handler, which may run between any two steps of the threads. *)

HandlersInstalled == main \notin {"down", "built"}

ConsumerKnown == main \notin {"down", "built", "handlers", "relaying"}

SignalArrives ==
  /\ HandlersInstalled
  /\ handler = "none"
  /\ signals < MaxSignals
  /\ signals' = signals + 1
  /\ stop' = TRUE
  /\ handler' = "half"
  /\ UNCHANGED <<main, running, workVars, durableVars, telemetryVars, connected, faults>>

\* g_consumer->stop(), if g_consumer has been set.
SignalStopsConsumer ==
  /\ handler = "half"
  /\ handler' = "none"
  /\ running' = (running /\ ~ ConsumerKnown)
  /\ UNCHANGED <<main, stop, signals, workVars, durableVars, telemetryVars, connected,
                 faults>>

-----------------------------------------------------------------------------
(* Transactions and outbox rows.                                           *)

Fault == faults < MaxFaults /\ faults' = faults + 1

\* A transaction commits, which takes a usable connection; or an exception
\* leaves it, because the connection is lost or for a reason that passes (a
\* deadlock, a timeout, no memory), which is a fault.
Commits == connected /\ UNCHANGED faults

Throws == IF connected THEN Fault ELSE UNCHANGED faults

\* The columns of the row that item i leaves, with its envelope as payload.
Insert(i, saga, type, topic, data, traceparent) ==
  [status |-> "PENDING", event_type |-> type, topic |-> topic,
   payload |-> ToJson(MakeEnvelope(type, saga, data, traceparent, i)),
   traceparent |-> traceparent]

ReservedEvent(i, saga, traceparent) ==
  Insert(i, saga, "InventoryReserved", "inventory.reserved", "RESERVED", traceparent)

FailedEvent(i, saga, traceparent) ==
  Insert(i, saga, "InventoryReservationFailed", "inventory.reservation_failed",
         "INSUFFICIENT_STOCK", traceparent)

ReleasedEvent(i, saga, traceparent) ==
  Insert(i, saga, "InventoryReleased", "inventory.released", "RELEASED", traceparent)

\* The transaction of a reservation commits with the row of its outcome.
CommitsReservation(i, traceparent) ==
  \E new \in {ReservedEvent(i, i, traceparent), FailedEvent(i, i, traceparent)} :
    row' = [row EXCEPT ![i] = new]

\* That of a release commits with a row if there was something to release.
CommitsRelease(i, saga, traceparent) ==
  row' \in {row, [row EXCEPT ![i] = ReleasedEvent(i, saga, traceparent)]}

-----------------------------------------------------------------------------
(* The gRPC workers.                                                       *)

ServerUp == main \notin {"down", "drain", "joinRelay", "flush", "unwind"}

\* The span of the request continues the caller's trace, or that of the
\* active span if the caller sent none.
CallContext(w, c) == IF Incoming[c] # NoContext THEN Incoming[c] ELSE Inject(w)

CallArrives(w, c) ==
  /\ ServerUp
  /\ worker[w] = NoTrace
  /\ c \notin made
  /\ made' = made \cup {c}
  /\ worker' = [worker EXCEPT ![w] = c]
  /\ StartSpan(w, c, CallContext(w, c))
  /\ UNCHANGED <<processVars, relayVars, consumer, position, durableVars, connected, faults>>

\* The transaction commits or throws; in either case the handler returns and
\* its span ends.
CallServed(w) ==
  /\ worker[w] # NoTrace
  /\ \/ /\ Commits
        /\ IF worker[w] \in Releases THEN CommitsRelease(worker[w], worker[w], Inject(w))
           ELSE CommitsReservation(worker[w], Inject(w))
     \/ Throws /\ UNCHANGED row
  /\ worker' = [worker EXCEPT ![w] = NoTrace]
  /\ EndSpan(w)
  /\ UNCHANGED <<processVars, relayVars, consumer, position, made, offset, seen, topics,
                 thrown, connected>>

-----------------------------------------------------------------------------
(* The consumer thread.                                                    *)

ConsumerGoes(from, to) == consumer = from /\ consumer' = to

ConsumerBegins ==
  /\ ConsumerGoes("start", "test")
  /\ running' = TRUE
  /\ UNCHANGED <<main, stop, handler, signals, relayVars, position, worker, made,
                 durableVars, telemetryVars, connected, faults>>

\* Mutation: the loop does not look at the flag.
ConsumerTestsNot ==
  /\ ConsumerGoes("test", "poll")
  /\ UNCHANGED <<processVars, relayVars, position, worker, made, durableVars, telemetryVars,
                 connected, faults>>

ConsumerTests ==
  /\ ConsumerGoes("test", IF running THEN "poll" ELSE "ended")
  /\ UNCHANGED <<processVars, relayVars, position, worker, made, durableVars, telemetryVars,
                 connected, faults>>

ConsumeTimesOut ==
  /\ ConsumerGoes("poll", "test")
  /\ UNCHANGED <<processVars, relayVars, position, worker, made, durableVars, telemetryVars,
                 connected, faults>>

\* A record is handed over, and its span continues the trace of its header.
ConsumeRecord ==
  /\ ConsumerGoes("poll", "handle")
  /\ position < NRecords
  /\ position' = position + 1
  /\ StartSpan("consumer", RecordName[position'], Incoming[RecordName[position']])
  /\ UNCHANGED <<processVars, relayVars, worker, made, durableVars, connected, faults>>

\* Records of which a field has the wrong type, which parse or, for data, the
\* handler trips over; or whose saga_id is not a UUID, which its column is.
Malformed ==
  {n \in Offsets :
     ParseThrows(Body[n]) \/ "data" \in Body[n].illTyped \/ Parse(Body[n]).saga_id = ""}

\* The event gets the context of the envelope, or else that of the header.
CancelledContext(n) ==
  IF Parse(Body[n]).traceparent # NoContext THEN Parse(Body[n]).traceparent
  ELSE Incoming[RecordName[n]]

HandleOrderCancelled(n) ==
  /\ seen' = seen \cup {IdempotencyKey[n]}
  /\ IF IdempotencyKey[n] \in seen THEN UNCHANGED row
     ELSE CommitsRelease(RecordName[n], Parse(Body[n]).saga_id, CancelledContext(n))

\* Mutation: the offset of a record is committed also if its handler threw.
AfterThrowCommits == "commit"

AfterThrow == "log"

\* The handler returns, with its transaction committed.
HandlerReturns ==
  /\ position \notin Malformed
  /\ Commits
  /\ HandleOrderCancelled(position)
  /\ consumer' = "commit"
  /\ UNCHANGED thrown

\* It throws for a malformed record, always, and for another one when its
\* transaction does.  Nothing of the transaction stays.
HandlerThrows ==
  /\ IF position \in Malformed THEN UNCHANGED <<thrown, faults>>
     ELSE /\ Throws
          /\ thrown' = IF connected THEN thrown \cup {position} ELSE thrown
  /\ consumer' = AfterThrow
  /\ UNCHANGED <<row, seen>>

\* The span is a local variable of the handler, and ends with it either way.
HandleRecord ==
  /\ consumer = "handle"
  /\ HandlerReturns \/ HandlerThrows
  /\ EndSpan("consumer")
  /\ UNCHANGED <<processVars, relayVars, position, worker, made, offset, topics, connected>>

\* The catch clause logs the exception, and the loop goes on to the next record.
LogFailure ==
  /\ ConsumerGoes("log", "test")
  /\ UNCHANGED <<processVars, relayVars, position, worker, made, durableVars, telemetryVars,
                 connected, faults>>

CommitRecord ==
  /\ ConsumerGoes("commit", "test")
  /\ offset' = position
  /\ UNCHANGED <<processVars, relayVars, position, worker, made, seen, row, topics, thrown,
                 telemetryVars, connected, faults>>

ConsumerStep ==
  \/ ConsumerBegins \/ ConsumerTests \/ ConsumeTimesOut \/ HandleRecord \/ LogFailure
  \/ CommitRecord

-----------------------------------------------------------------------------
(* The relay thread.                                                       *)

Pending == {i \in Items : row[i].status = "PENDING"}

\* The condition of the loop.  In a new round fetch_pending reads the rows to
\* publish, or throws, which the loop catches.
RelayTests ==
  /\ relay = "test"
  /\ \/ stop /\ relay' = "ended" /\ batch' = {} /\ UNCHANGED faults
     \/ ~ stop /\ Commits /\ relay' = "publish" /\ batch' = Pending
     \/ ~ stop /\ Throws /\ relay' = "test" /\ batch' = {}
  /\ UNCHANGED <<processVars, sending, consumer, position, worker, made, durableVars,
                 telemetryVars, connected>>

\* The context of the row becomes a header of the message.
Message(i) ==
  [item |-> i, topic |-> row[i].topic, value |-> row[i].payload, header |-> row[i].traceparent]

RelayPublishes(i) ==
  /\ relay = "publish"
  /\ i \in batch
  /\ topics' = topics \cup {Message(i)}
  /\ batch' = batch \ {i}
  /\ sending' = i
  /\ relay' = "mark"
  /\ UNCHANGED <<processVars, consumer, position, worker, made, offset, seen, row, thrown,
                 telemetryVars, connected, faults>>

\* Mutation: the status is not one the table knows.
MarkPublishedAsSent(i) == row' = [row EXCEPT ![i].status = "SENT"]

MarkPublished(i) == row' = [row EXCEPT ![i].status = "PUBLISHED"]

\* The row is marked, or an exception ends this drain.
RelayMarks ==
  /\ relay = "mark"
  /\ \/ Commits /\ MarkPublished(sending) /\ UNCHANGED batch
     \/ Throws /\ batch' = {} /\ UNCHANGED row
  /\ relay' = "publish"
  /\ sending' = NoTrace
  /\ UNCHANGED <<processVars, consumer, position, worker, made, offset, seen, topics, thrown,
                 telemetryVars, connected>>

\* Mutation: the thread ends when there is nothing left to publish.
RelayDrainedEnds ==
  /\ relay = "publish" /\ batch = {}
  /\ relay' = "ended"
  /\ UNCHANGED <<processVars, batch, sending, consumer, position, worker, made, durableVars,
                 telemetryVars, connected, faults>>

\* The drain is over, and the loop comes round.
RelayDrained ==
  /\ relay = "publish" /\ batch = {}
  /\ relay' = "test"
  /\ UNCHANGED <<processVars, batch, sending, consumer, position, worker, made, durableVars,
                 telemetryVars, connected, faults>>

RelayStep == RelayTests \/ (\E i \in Items : RelayPublishes(i)) \/ RelayMarks \/ RelayDrained

-----------------------------------------------------------------------------
(* The end of the process and of the connection, and the whole.            *)

Crash == main # "down" /\ Fault /\ Gone

\* The database closes the connection.  Nothing opens another.
ConnectionLost ==
  /\ connected
  /\ Fault
  /\ connected' = FALSE
  /\ UNCHANGED <<processVars, workVars, durableVars, telemetryVars>>

ProcessNext ==
  \/ MainStep \/ ConsumerStep \/ ConsumeRecord \/ RelayStep
  \/ SignalArrives \/ SignalStopsConsumer
  \/ \E w \in Workers : CallServed(w) \/ \E c \in Calls : CallArrives(w, c)
  \/ Crash \/ ConnectionLost

ProcessSpec == ProcessInit /\ [][ProcessNext]_allVars

(***************************************************************************)
(* Every thread goes on to its next statement, and so does the handler.    *)
(* The broker hands over what it has, sooner or later.  A process that     *)
(* ended is started again, as deploy/k8s has it; one whose port is open is *)
(* left alone.  Nobody has to send a signal or a request.                  *)
(***************************************************************************)
ProcessFairSpec ==
  /\ ProcessSpec
  /\ WF_allVars(MainStep)
  /\ WF_allVars(RelayStep)
  /\ WF_allVars(ConsumerStep)
  /\ SF_allVars(ConsumeRecord)
  /\ WF_allVars(SignalStopsConsumer)
  /\ \A w \in Workers : WF_allVars(CallServed(w))

-----------------------------------------------------------------------------
(* Properties.                                                             *)

(***************************************************************************)
(* main returns, and destroys the consumer, the server, the producer and   *)
(* the database, only when no thread uses them any more: the order of      *)
(* joins and Shutdown at the end of main, with signals and lost stops at   *)
(* any moment.                                                             *)
(***************************************************************************)
ThreadsJoined ==
  main = "unwind" =>
    relay = "ended" /\ consumer = "ended" /\ \A w \in Workers : worker[w] = NoTrace

(***************************************************************************)
(* obs::shutdown comes when no more spans can end: a process that stops in *)
(* order exports every span it has ended, those of the last requests       *)
(* included.                                                               *)
(***************************************************************************)
FlushedAtExit == main = "unwind" => ~ queued

\* The trace that item i belongs to.
TraceOf(i) == IF Incoming[i] # NoContext THEN Incoming[i].trace ELSE i

\* A message body and its header carry the trace of item i, or none if it is
\* a record.
Carries(value, header, i) ==
  /\ Parse(value).traceparent = header
  /\ header.trace = TraceOf(i) \/ (header = NoContext /\ i \notin Calls)

(***************************************************************************)
(* One trace per saga (FR-23): whatever a request or a record makes the    *)
(* service publish carries, in the header and in the envelope alike, the   *)
(* trace that the request or record came with.  If it came with none, the  *)
(* trace is its own or none, never that of earlier work on the thread.     *)
(***************************************************************************)
TraceContinues == \A m \in topics : Carries(m.value, m.header, m.item)

(***************************************************************************)
(* A log line that the handler of a request or record writes carries the   *)
(* trace of that request or record (obs.hpp: the provider stamps the       *)
(* active span).  All other lines carry none, never that of other work.    *)
(* This includes the error line about a record whose handler threw, which  *)
(* Consumer::run writes when the span of the record has ended.             *)
(***************************************************************************)
LogsCorrelated ==
  /\ \A w \in Workers :
       LogContext(w).trace = IF worker[w] = NoTrace THEN NoTrace ELSE TraceOf(worker[w])
  /\ LogContext("consumer").trace =
       IF consumer = "handle" THEN TraceOf(RecordName[position]) ELSE NoTrace

\* Record n has been handled, now or before, or never can be.
Handled(n) == n \in Malformed \/ IdempotencyKey[n] \in seen

\* ... or its handler has thrown over a usable connection.
HandledOrThrown(n) == Handled(n) \/ n \in thrown

(***************************************************************************)
(* The offset passes a well-formed cancellation that has not been handled  *)
(* only if its handler threw over a connection that stayed usable: then    *)
(* the commit of a later record passes it.  A lost connection, a stop or a *)
(* crash in the middle of a record lose none.                              *)
(***************************************************************************)
LosesOnlyThrown == \A n \in 1 .. offset : HandledOrThrown(n)

\* The stop of a signal has reached the consumer's loop.  No step but the end
\* of the process undoes this.
Stopping ==
  consumer \in {"test", "poll", "handle", "log", "commit", "ended"} /\ ~ running

(***************************************************************************)
(* A signal that finds the consumer in its loop ends the process: the      *)
(* joins return, whatever requests and drains were under way.              *)
(***************************************************************************)
SignalEndsProcess == []<>(~ Stopping)

\* The process is up and stays so with its relay ended or its connection lost.
\* It answers the probe of its port, so nothing restarts it.
Wedged == main = "join" /\ (stop \/ ~ connected)

(***************************************************************************)
(* The outbox drains again and again, so that every committed row is       *)
(* published in the end, across stops, crashes and restarts: the relay     *)
(* that a stop ends with rows still PENDING is followed by another one.    *)
(* The exception is a process that is wedged for good.                     *)
(***************************************************************************)
OutboxDrains == <>[]Wedged \/ []<>(Pending = {})

(***************************************************************************)
(* Every well-formed cancellation is handled in the end, also behind a     *)
(* malformed one and behind one whose handler threw, unless its own        *)
(* handler threw over a usable connection or the process is wedged for     *)
(* good.                                                                   *)
(***************************************************************************)
CancellationsHandled == <>[]Wedged \/ []<>(\A n \in Offsets : HandledOrThrown(n))

-----------------------------------------------------------------------------
(* The invariant behind the safety properties.                             *)

\* How far main has come tells which threads have not begun and which are done.
ShutdownInv ==
  /\ main = "down" => position = 0 /\ \A w \in Workers : worker[w] = NoTrace
  /\ main \in {"down", "built", "handlers", "relaying", "registered"} => consumer = "none"
  /\ main \in {"drain", "joinRelay", "flush", "unwind"} => consumer = "ended"
  /\ main \in {"joinRelay", "flush", "unwind"} => \A w \in Workers : worker[w] = NoTrace
  /\ main \in {"flush", "unwind"} => relay = "ended"
  /\ main = "unwind" => ~ queued

\* The context of the span that thread t has open.
Active(t) ==
  IF t = "consumer"
    THEN IF consumer = "handle"
           THEN [trace |-> TraceOf(RecordName[position]), span |-> RecordName[position]]
           ELSE NoContext
    ELSE IF worker[t] # NoTrace
           THEN [trace |-> TraceOf(worker[t]), span |-> worker[t]]
           ELSE NoContext

\* Each thread has exactly the span of what it handles, and rows and messages
\* the context of what they come from.
TraceInv ==
  /\ tracing <=> main # "down"
  /\ current = [t \in Threads |-> Active(t)]
  /\ \A i \in batch \cup {sending} : i \in Items => row[i].status # "NONE"
  /\ \A i \in Items :
       row[i].status # "NONE" => Carries(row[i].payload, row[i].traceparent, i)
  /\ TraceContinues

\* While the connection holds, what lies below the position is handled or was
\* thrown; when it is lost nothing is committed but what was handled before.
OffsetInv ==
  /\ LosesOnlyThrown
  /\ connected /\ consumer = "handle" => \A n \in 1 .. position - 1 : HandledOrThrown(n)
  /\ (connected /\ consumer # "handle") \/ consumer = "commit" =>
       \A n \in 1 .. position : HandledOrThrown(n)

\* A row with the columns of r.
Columns(r) ==
  [status |-> r.status, event_type |-> r.event_type, topic |-> r.topic,
   payload |-> r.payload, traceparent |-> r.traceparent]

\* The types the argument needs.
SortInv ==
  /\ worker \in [Workers -> Calls \cup {NoTrace}]
  /\ position \in 0 .. NRecords /\ offset \in 0 .. NRecords
  /\ consumer = "handle" => position > 0
  /\ row = [i \in Items |-> Columns(row[i])]

ProcessInv == SortInv /\ ShutdownInv /\ TraceInv /\ OffsetInv
=============================================================================
