# A TLA+ verification of ChoreographySagaDemo

The repository implements an order saga by choreography: three services in three
languages, each with its own database, coordinate through Kafka topics and one
synchronous gRPC call. This directory models the saga, the outbox relays, the
consumer loops and the Inventory process with its threads in TLA+, checks them
with TLC, and proves their safety properties with TLAPS for every value of the
constants.

## The system

| Part | Code (under `src/services/`) | State | Operations |
| --- | --- | --- | --- |
| Order (Go) | `order/internal/{domain,app,store,grpcapi}` | `orders`, `outbox`, `processed_messages`, a terminal counter | `CreateOrder`, `HandleEvent` of five topics |
| Payment (Python) | `payment/src/payment/{app,db,domain,inventory_client}.py` | `payments`, `outbox`, `processed_messages` | `order.created` (charge, then the `ReserveStock` call), `inventory.reservation_failed` (refund) |
| Inventory (C++) | `inventory/src/{service,db,grpc_server}.cpp` | `stock`, `reservations`, `outbox`, `processed_messages` | `ReserveStock`, `ReleaseStock`, `order.cancelled` (release) |
| Outbox relays | `relay.go`, `outbox.py`, `outbox.cpp` and the producers in `kafka.go`, `kafka_io.py`, `kafka_io.cpp` | `outbox.status`, the client library's queue | fetch, publish, mark |
| Consumer loops | the consumers in the same three files | position, committed offset | poll, handle, rewind, commit |
| Processes | `main.go`, `main.py`, `main.cpp` | threads, stop flags, connections | start, signals, joins, exit |
| Envelope, tracing | `envelope.*`, `obs*` | the active span of a thread | build, parse, start and end a span |
| Configuration, stubs, scripts | see `PROJECT.json` | | |

A client creates an order; Payment charges and asks Inventory to reserve;
Inventory's answer travels as an event to Order, which confirms, and in case of a
failure to Payment, which refunds, and Order cancels. Every business write
commits together with the outbox row of its event; relays publish rows at least
once; consumers deduplicate by idempotency key. Topics have one partition, so
order holds within a topic and not across topics, and an event that comes too
early at Order is parked and retried (ARCHITECTURE 5.1).

## Modules

| Module | Models |
| --- | --- |
| `OrderDomain` | `domain.Apply`: the state machine with its four kinds of answer (advance, ignore, premature, invalid) |
| `Messaging` | events, outboxes, topics. An event is a topic, a saga and a number: each outbox row has a fresh idempotency key |
| `OrderService`, `PaymentService`, `InventoryService` | the handlers; one database transaction is one step. Payment's call and its return are steps of their own |
| `ChoreographySaga` | the composition, the properties, and the inductive invariant |
| `AtomicSaga` | the abstract saga: begin, then commit or abort in one step, for good |
| `InventoryClients` | Inventory alone, under arbitrary callers and quantities |
| `OutboxRelay` | the relay loop with the two kinds of producer |
| `KafkaConsumer` | the three consumer loops (`kind`) |
| `AtLeastOnce` | what the relay and the consumer each promise |
| `EventEnvelope` | the JSON envelope: built, written and read tolerantly (`envelope.cpp`) |
| `InventoryTelemetry` | the active span of each thread, what is injected in events and log lines, the export queue (`obs_otel.cpp`) |
| `InventoryProcess` | `main.cpp`: the main thread, the relay and consumer threads, gRPC workers and the signal handler, with the traces requests and records leave |
| `SagaLemmas`, `ChoreographySagaProofs`, `SagaStockProofs` | the proofs about the saga |
| `InventoryServiceProofs`, `InventoryClientsProofs`, `OutboxRelayProofs`, `KafkaConsumerProofs`, `InventoryProcessProofs` | the proofs about the modules they are named after |
| `MC*` | model values for TLC |

Deliveries that change nothing are stuttering steps: a duplicate (in
`processed_messages`, or for `order.created` in the unique `saga_id` of
`payments`) and a premature event (its transaction rolls back). An event Order
drops for good, because the transition is invalid or the order unknown, is put in
`skipped`. Amounts are integers in thousandths, so that the epsilon of
`decide_payment` is exact. In the saga modules payloads other than SKU, quantity
and amount, trace headers, logs and metrics (but for the terminal counter) are
abstracted away; envelopes, headers and log context are the subject of
`InventoryProcess` and the two modules below it.

`OutboxRelay` and `KafkaConsumer` each stand for three implementations of one
control flow. `map` in `PROJECT.json` names, for each definition, one of the
three. They correspond as follows.

| Definition | Go | Python | C++ |
| --- | --- | --- | --- |
| `FetchPending`, `FetchCommit` | `store.go:144` | `db.py:134` | `db.cpp:129` |
| `Publish` ... `PublishReturns` | `kafka.go:36` | `kafka_io.py:22` | `kafka_io.cpp:41` |
| `MarkPublished`, `MarkFailed` | `store.go:182,189` | `db.py:169,179` | `db.cpp:149,157` |
| `DrainStep` | `relay.go:107` | `outbox.py:73` | `outbox.cpp:12` |
| the loop | `relay.go:88` | `main.py:24` | `main.cpp:58` |
| `LoopStep`, `PollFrom`, `CommitFails` | `kafka.go:78` | `kafka_io.py:53` | `kafka_io.cpp:88` |
| `Stop` | `ctx` of `main.go` | `kafka_io.py:79` | `kafka_io.cpp:123` |

The producers: Go and Python wait for the delivery report and raise its error
(`producer = "report"`); C++ flushes for five seconds and looks only at the length
of the queue (`"flush"`). `producer` and, for consumers, `kind` are chosen in the
initial state and never change; `FaultKinds` says what may fail for each.

How the layers fit: the core assumes that a committed row is published in the end
and that a consumer is handed an event until it has processed it. `relay` and
`consumer` check these two assumptions as refinements of
`AtLeastOnce`. For the Python and C++ consumers the second holds only while no
handler throws, and for the C++ producer the first holds only while no delivery
fails for good; and a failed offset commit ends Order's consumer; see the
findings. Liveness of the saga is conditional on these.

In `InventoryProcess` each thread has a program counter, whose values name the
statements of `main.cpp`, `kafka_io.cpp` and `outbox.cpp` between which another
thread or a signal can do something visible. The signal handler is two steps,
since the flag it sets first and the consumer it stops next are read by different
threads. A transaction is one step (the database mutex) and matters here by the
outbox row it leaves; what it does to stock is the subject of `InventoryService`,
and which failures of Kafka relay and consumer survive that of the two modules
above. A transaction may throw because the connection is lost, which lasts until
the restart, or for a reason that passes, such as a deadlock or a timeout. A
handler that throws is logged and the loop goes on, whatever the reason
(`kafka_io.cpp:113`). A request or record carries the trace context it came with, and the
messages that result are compared with it. `running_` is a plain `bool` shared
with a signal handler; the loop calls into the Kafka library between any two
reads of it, so a compiler cannot keep it in a register, and the model reads it
afresh in every round.

Three variables are histories, which no step looks at and only properties use:
`answers` and `reversed` of `InventoryClients` (what callers were told, and the
SKUs of which a negative quantity has been reserved) and `thrown` of
`InventoryProcess` (the well-formed records whose handler threw over a usable
connection).

The gRPC handler of Inventory hands on whatever quantity it gets
(`grpc_server.cpp:43`), and `Database::reserve` only tests `available < quantity`
(`db.cpp:75`). The saga sends what `CreateOrder` has validated, so quantities are
positive there; `InventoryClients` has them range over all integers, and SKUs over
those with and without a row in `stock` (`Seeded`). Quantities are not cut to the
width of the column: an UPDATE that leaves its range raises, and the transaction
rolls back and changes nothing.

## Runs

Passing runs:

| Run | What it shows |
| --- | --- |
| `saga` | With lost calls and crashes: no duplicate effects (`EmitOnce`), no dropped event (`NothingSkipped`), agreement of the final statuses (`OutcomesAgree`), no unpaid stock, stock conserved and accounted for, a saga at rest is settled or stranded by a lost call (`QuiescentSettled`), `RefundBeforeCancel`, the refinement of `AtomicSaga`, the inductive invariant `IInv`; and every order ends committed or compensated unless its call was lost (`SettlesUnlessLost`) |
| `inventory_clients` | Under any sequence of calls with positive, zero and negative quantities: the units of a SKU are neither created nor lost, and as long as no negative quantity of it has been reserved its counters stay non-negative (`ConservedUnlessReversed`) and its rows backed (`BackedUnlessReversed`); one outcome event per key, one release per reservation; a retried reservation is answered as before as long as its row is its own and not released (`RetriesAgree`) |
| `relay` | Marked implies stored, first publications in order per aggregate, at most one duplicate per fault, at-least-once, no row stays PENDING. Faults: refusals, database errors, crashes, and delivery failures (Go, Python) or flush timeouts (C++) |
| `consumer` | No loop commits past an unprocessed record, every record is processed, also across stops and restarts, and a stop that comes once the loop has begun is heard. Faults: crashes, stops, and handler errors besides premature events (Go) or commit errors (Python, C++) |
| `process` | The Inventory process, stopped, crashed and started again at any moment, with a connection that may be lost, transactions that may fail once and a record that is not JSON: `main` returns only when no thread uses its objects (`ThreadsJoined`) and all spans are exported (`FlushedAtExit`); messages carry the trace of what caused them, log lines of handlers that of what they handle, and nothing that of earlier work on the thread (`TraceContinues`, `LogsCorrelated`); the offset passes a well-formed record that was not handled only if its handler threw over a usable connection (`LosesOnlyThrown`); a signal that finds the consumer in its loop ends the process (`SignalEndsProcess`); the outbox drains again and again, and all cancellations but those thrown are handled, unless the process is wedged (`OutboxDrains`, `CancellationsHandled`) |

Runs that exhibit a disagreement between code and its documentation (details and
quotations in `PROJECT.json`, "findings"):

| Run | Disagreement |
| --- | --- |
| `saga_lostcall` | A failed `ReserveStock` call is never repeated: the order stays in PAYMENT_OK, charged, against FR-7 |
| `saga_metric` | `saga_terminal_total` counts an order again for each late event |
| `relay_concurrent` | `SKIP LOCKED` does not prevent double dispatch, because the locks end before the publish |
| `relay_outq` | The C++ producer takes a failed delivery for success, and the row is marked |
| `consumer_noseek` | Python and C++: after a handler error the next commit passes over the failed message |
| `consumer_stops` | A failed offset commit ends Order's consumer for good |
| `consumer_loststop` | Python and C++: a stop that comes before the first statement of `run` is overwritten, and `run` never ends |

Six smaller things that the models show and no run is kept for. The comment
"No payment succeeded yet; cancel directly." (`order.go:69`) is wrong when
`inventory.reservation_failed` overtakes `payment.processed`; the refund follows
and the final state is right (`OutcomesAgree`, `SettlesUnlessLost`). A repeated
`ReserveStock` whose reservation has been released meanwhile is answered
INSUFFICIENT_STOCK although the first call was told RESERVED: `RetriesAgree` has
that exception where FR-12 has none. `OutboxDrains` excepts the process that is
wedged: a signal that comes between the installation of the handlers and the start
of the consumer's loop ends the relay but not the process, and a lost database
connection is never opened again; in both cases the port stays open, and the probe
in `deploy/k8s` looks at nothing else. A malformed `order.cancelled` is
passed over for good once the next record is committed, and so is a good one whose
handler met an error that passes; `LosesOnlyThrown` excepts both, and the latter is
the finding of `consumer_noseek` seen from the process. A `ReserveStock` for a
negative quantity succeeds, also for a SKU without a stock row, and moves stock
backwards; from then on the counters of that SKU may go below zero, which is why
two properties of `inventory_clients` except it. And `obs.hpp:8` says that every
log line carries `trace_id` and `span_id`, but the error line about a record whose
handler threw is written by `Consumer::run` after the span of the record has ended,
and carries none (`LogsCorrelated` says so).

Bounds. The saga runs have two orders that want two units each of a SKU with
three, or the poison SKU, with a valid and an invalid quantity and a good and a
failing amount: competition for stock, both failure causes and all interleavings
of two sagas occur. Sagas interact only through the stock row and Payment's
single thread, so two are enough to exhibit interference, and the proofs do not
depend on the number. The relay runs have three rows, two of one order,
batches of two and two faults. The consumer runs have two topics of two records
whose prerequisites are crossed, and two faults. `inventory_clients` has two sagas
with two keys each and three units of a SKU, of which requests ask for two, none
or minus one; a negative quantity is also asked of the poison SKU and of one
without a row. The process run has a request
with and one without a trace on one worker, so that the worker is reused; a
malformed record followed by two good ones, with and without a trace, so that a
record can be passed over by the commit of the next one; one signal, and one fault
(a crash, a lost connection or a transaction that throws), after each of which the
process may be started again. `MaxFaults`, `MaxSignals`, `NRows`, `NRecords` and
`NKeys` bound the models; nothing else does. Symmetry of the sagas is used in
`inventory_clients`, which has no temporal property. Deadlock is checked in
`process`, where something can always happen; elsewhere it is not an error, since
the system may become idle.

Each property is exercised by a mutation: an operator next to the one it replaces
(marked "Mutation" in the modules) in which a plausible mistake has been made,
with which the property fails.

Fairness. Saga: every relay step, handler step and call is weakly fair per saga
and topic, because relays and consumers loop for ever and a started handler goes
on; nothing obliges clients to create orders, and faults are never fair. Relay:
`DrainStep` is weakly fair (a ticker) and so is the broker. Consumer: the loop is
weakly fair; producers are, since their outboxes drain; and a fetch that has all
that waits in a topic is strongly fair, which stands for the client library's
rotation over topics and for a fetch limit larger than the backlog. Without the
last assumption a fetch that always ends just before the record a parked event
waits for would be rewound for ever. A process that ended is started again
(`StartAgain`), because the services are Deployments; no stop has to happen.
Process: every thread goes on to its next statement, started requests included,
and the handler finishes; handing over a record is strongly fair, because a poll
that times out is followed by another; signals, requests and faults owe nothing.

## Proofs

Every safety property of a passing run is also proved, for every value of the
constants; liveness is model-checked only. Where a run has a property that fails
(the findings), the theorem names the assumption under which it holds.

`ChoreographySagaProofs` and `SagaStockProofs` prove, from the named assumptions
on constants (`OrderAssumption`, `PaymentAssumption`, `InventoryAssumption`) and
for every set of sagas, finite or not:

| Theorem | Statement |
| --- | --- |
| `Invariance` | `Spec => []IInv` |
| `TypeCorrect`, `EmitsOnce`, `SkipsNothing`, `ConservesStock` | conjuncts of it |
| `Agreement`, `StockIsPaid`, `SettlesWhenQuiescent` | `OutcomesAgree`, `NoUnpaidStock`, `QuiescentSettled` |
| `CompensationOrder` | `Spec => RefundBeforeCancel` |
| `Refinement` | `Spec => ImplementsAtomicSaga` |
| `AccountsStock` | `Spec => []StockAccounted` |

None of the safety properties is inductive. That a CONFIRMED order is paid, for
instance, needs that `inventory.reserved` was emitted only after the charge, which
needs that a request under way belongs to a captured payment, and so on around
the loop of services. `IInv` closes the loop: for each saga it says which outbox
rows exist for each status of each service (`OrderInv`, `PaymentInv`,
`InventoryInv`) and what a call under way means (`CallInv`), besides that events
are used only after they were published (`EventsInv`). It speaks of one saga at a
time, and a step changes one saga, so each action has a lemma that re-establishes
it for the saga it touches and carries it over for the others. `SagaLemmas` has
the lemmas on types, outboxes and events, the two simplest actions and the Order
handler by a table of its transitions; `ChoreographySagaProofs` the actions of
Payment and Inventory, and the theorems. A consequence worth knowing is in
`InventoryInv`: in the saga no reservation is ever released, since an order that
holds stock is never cancelled.

Two tables of Inventory say how much is reserved, and a property that compares
them sums over rows. The sum is a cardinality: `HeldUnits(k)` has one pair of saga
and number for each unit that a RESERVED row holds of SKU k, so that a reservation
adds a set that is disjoint from it and a release takes one out, and the library's
theorems on finite sets do the rest. `InventoryServiceProofs` has what
`Database::reserve` and `Database::release` do to this count, whoever calls them.
Two proofs rest on it. In the saga a call comes at most once and finds no row, so
the two tables agree to the unit (`AccountsStock`). Under arbitrary clients a
saga may reserve twice and keep one row, and only the inequality is left
(`ReservationsBacked`): it is what makes `ConservedUnlessReversed` inductive, since
a release subtracts from `stock.reserved` without a test (`TablesInv`). A negative
quantity breaks the inequality, but only for its own SKU: `TablesInv` speaks of one
SKU at a time, and the proof carries it over for the SKUs that are not `reversed`.

The other proof modules:

| Theorem | Statement | Assumption |
| --- | --- | --- |
| `ClientsInvariance` | `ClientsSpec => []ClientsInv` | `ClientsAssumption`: quantities are integers |
| `ClientsTypeCorrect`, `ClientsConserveStock`, `ReservationsBacked`, `OneOutcome`, `RetriesAnsweredAlike` | `ClientsTypeOK`, `ConservedUnlessReversed`, `BackedUnlessReversed`, `OneOutcomePerKey`, `RetriesAgree` | the same |
| `RelayTypeCorrect`, `CommittedInvariance` | `RelayTypeOK`, `CommittedInv`, for any number of relays | none but `RelayAssumption` |
| `RelayRefinement` | the relays implement `DeliverySafety` of `AtLeastOnce` | the same |
| `RelayInvariance` | `RelaySpec => []RelayInv`, for any number of relays | `FailuresSeen` |
| `MarksOnlyStored` | `MarkedIsStored` | `FailuresSeen` |
| `PublishesInOrder` | `FirstPublishedInOrder` | `FailuresSeen`, `OneRelay` |
| `DuplicatesHaveCauses` | `DuplicatesAreFaults` | `OneRelay` |
| `NoFaultNoDuplicate` | `NeverDoubleDispatches` as long as there was no fault | `OneRelay` |
| `OffsetsInvariance`, `ConsumerTypeCorrect` | `OffsetsInv`, `ConsumerTypeOK` | none but `ConsumerAssumption` |
| `ConsumerRefinement` | the loops implement `DeliverySafety` | the same |
| `ConsumerInvariance` | `ConsumerSpec => []ConsumerInv` | `HandlersSucceed` |
| `CommitsOnlyProcessed` | `CommittedIsProcessed` | `HandlersSucceed` |
| `ProcessTypeCorrect` | `ProcessTypeOK` | `ProcessAssumption` |
| `ProcessInvariance` | `ProcessSpec => []ProcessInv` | the same |
| `JoinsThreads`, `FlushesAtExit`, `ContinuesTraces`, `CorrelatesLogs`, `OffsetLosesOnlyThrown` | the five safety properties of `process` | the same |

The assumptions name exactly what the violation runs take away. `FailuresSeen`:
the C++ producer meets no delivery failure, which it would not see (`relay_outq`).
`HandlersSucceed`: the handlers of the two loops that do not rewind do not fail
(`consumer_noseek`). `OneRelay`: one process drains the outbox (`relay_concurrent`).
Where an assumption is missing, the theorem holds with all the faults of its
model: also the C++ producer that loses a message publishes nothing that was not
committed, and also the loops that skip a record handle none that was not
produced.

The invariants. `CommittedInv`: rows in a batch or in the client library's queue
are committed, which is all that the refinement of `AtLeastOnce` needs. `RelayInv`:
moreover, the last message in the client library's queue is that
of the row the relay waits for, so that an empty queue with a good report means
that row is stored. `InOrderInv`: a batch is closed under earlier rows of the same
order that are not stored yet, and what is queued has all of them stored.
`DuplicatesInv`: the messages stored or queued, and the rows that will have to be
sent again, are at most as many as the different rows among them, and the faults.
It is not enough to count what is stored: the duplicate of a message whose mark
failed appears only several steps after the fault, so the invariant charges the
fault when it happens and carries the debt (`Again`) until the row is queued once
more. `OffsetsInv`: a fetch begins at or above the committed offset, so that a
rewind never falls below it, which type correctness of the positions needs.
`ConsumerInv`: everything below the position (or, during a fetch, below the record
being handled) is processed.
`ClientsInv`: a key was answered if and only if its marker is there, and the
answer is what the row tells. `ProcessInv`: how far `main` has come tells which
threads have ended (`ShutdownInv`); the active span of each thread is that of what
it is handling, and each row carries the trace of its cause (`TraceInv`); as long
as the connection holds, all that lies below the consumer's position is handled,
malformed or was thrown, and once it is lost nothing is committed any more but the
record just handled (`OffsetInv`). That is why a consumer that never rewinds loses
nothing to a lost connection, although it reads on: no later handler succeeds, so
no commit follows. It may lose a record to an error that passes; `thrown` has the
records that met one.

How the proofs are laid out. A module that says `USE Zenon` proves first-order
leaves with Zenon, and a leaf with arithmetic, records or sequences names SMT.
Leaves that need both are split: in `InventoryProcessProofs` the Boolean flags
(`FlagsInv`) are separate from the other types (`StagesOK`), and in
`OutboxRelayProofs` the arithmetic of `DuplicatesInv` is in lemmas about five
numbers (`Paid`), which the steps of the relay then instantiate.

Model-checked only: liveness (`SettlesUnlessLost`, `EveryRowMarked`,
`StopIsHeard`, `SignalEndsProcess`, `OutboxDrains`, `CancellationsHandled`, and the
fairness part of `RelaysAtLeastOnce` and `ConsumesAtLeastOnce`), which the prover
does not handle.

## Not modelled

- Configuration is read once; batch size and the failure flag are constants of the
  models. The Order and Inventory relays replace a batch size below one by 100,
  which is why `BatchSize` is positive; Payment's takes what it is given.
- Metrics but for the terminal counter, and that counter as a step of its own: a
  crash between the transaction and `recordTerminal` loses a count that is in
  memory only.
- The shutdown of the Order and Payment processes beyond their consumers. What
  they leave behind ends with the process, and is covered by the crashes.
- The payload of `payment.refunded`: its amount is read from an event that has
  none and is always 0.0, and nobody reads it.
- A signal while `main` unwinds, when the handler's pointer to the consumer
  dangles: a window of a few statements at the end of a process that is exiting.
- Rebalances: each consumer group has one member. Several relays are covered by
  the proofs and by `relay_concurrent`, but not composed with the services.
- The Order service under events the saga never produces (malformed envelopes,
  unknown orders). The handlers skip them, and `NothingSkipped` shows that none
  occurs.
- Generated stubs, scripts and manifests.
