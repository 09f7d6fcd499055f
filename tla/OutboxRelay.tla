---------------------------- MODULE OutboxRelay ----------------------------
(***************************************************************************)
(* The transactional-outbox relay and the producer it publishes with: the  *)
(* relay of the Order service (Go, outbox/relay.go, kafkax.Producer), of   *)
(* Payment (outbox.py, kafka_io.py) and of Inventory (outbox.cpp,          *)
(* kafka_io.cpp).  The three loops have the same control; the producers    *)
(* differ in how long publish waits and in what it looks at when it stops  *)
(* waiting: those of Go and Python wait for the delivery report            *)
(* ("report"), the C++ one flushes for five seconds ("flush").             *)
(*                                                                         *)
(* A row is identified by its rank in created_at, the time at which its    *)
(* transaction began: transactions may commit in another order, except     *)
(* those of one aggregate, which follow from one another.                  *)
(***************************************************************************)
EXTENDS Naturals, Sequences, FiniteSetsExt, Functions

CONSTANTS NRows,          \* rows 1 .. NRows, in the order of created_at
          Aggregate,      \* Aggregate[r]: the order a row is about
          Relays,         \* the processes draining this outbox
          BatchSize,      \* the LIMIT of the fetch, by default 100
          Producers,      \* the kinds of producer considered
          FaultKinds,     \* FaultKinds[k]: what may fail with producer k
          MaxFaults       \* bound on the number of faults

Rows == 1 .. NRows

ASSUME RelayAssumption ==
  /\ NRows \in Nat
  /\ BatchSize \in Nat \ {0}
  /\ Producers \subseteq {"report", "flush"}
  /\ FaultKinds \in [Producers -> SUBSET {"delivery", "refusal", "timeout", "database", "crash"}]
  /\ MaxFaults \in Nat

VARIABLES producer,   \* the kind of producer in use
          status,     \* the status column, "NONE" before the insert commits
          attempts,   \* the attempts column
          locked,     \* locked[p]: the rows p's fetch transaction holds FOR UPDATE
          batch,      \* batch[p]: the rows of the current drain not yet dealt with
          stage,      \* stage[p]: where the drain is
          outq,       \* outq[p]: messages handed to the client library, undecided
          report,     \* report[p]: the delivery report of p's current message
          log,        \* the topics: the rows in the order the broker stored them
          faults      \* faults so far

relayVars ==
  <<producer, status, attempts, locked, batch, stage, outq, report, log, faults>>

Stage == {"idle", "fetching", "publish", "wait", "failed", "mark"}

RelayTypeOK ==
  /\ producer \in Producers
  /\ status \in [Rows -> {"NONE", "PENDING", "PUBLISHED"}]
  /\ attempts \in [Rows -> Nat]
  /\ locked \in [Relays -> SUBSET Rows]
  /\ batch \in [Relays -> SUBSET Rows]
  /\ stage \in [Relays -> Stage]
  /\ outq \in [Relays -> Seq(Rows)]
  /\ report \in [Relays -> {"none", "ok", "error"}]
  /\ log \in Seq(Rows)
  /\ faults \in 0 .. MaxFaults

RelayInit ==
  /\ producer \in Producers
  /\ status = [r \in Rows |-> "NONE"]
  /\ attempts = [r \in Rows |-> 0]
  /\ locked = [p \in Relays |-> {}]
  /\ batch = [p \in Relays |-> {}]
  /\ stage = [p \in Relays |-> "idle"]
  /\ outq = [p \in Relays |-> <<>>]
  /\ report = [p \in Relays |-> "none"]
  /\ log = <<>>
  /\ faults = 0

Fault(kind) ==
  /\ kind \in FaultKinds[producer]
  /\ faults < MaxFaults
  /\ faults' = faults + 1

-----------------------------------------------------------------------------
(* The services commit rows.                                               *)

InsertRow(r) ==
  /\ status[r] = "NONE"
  /\ \A q \in 1 .. r - 1 : Aggregate[q] = Aggregate[r] => status[q] # "NONE"
  /\ status' = [status EXCEPT ![r] = "PENDING"]
  /\ UNCHANGED <<producer, attempts, locked, batch, stage, outq, report, log, faults>>

-----------------------------------------------------------------------------
(* The drain.                                                              *)

\* Mutation: a row that failed once is not retried.
SelectableOnce ==
  {r \in Rows : status[r] = "PENDING" /\ attempts[r] = 0 /\ \A p \in Relays : r \notin locked[p]}

\* SELECT ... WHERE status = 'PENDING' ORDER BY created_at FOR UPDATE SKIP
\* LOCKED LIMIT BatchSize: rows another transaction has locked are passed over.
Selectable == {r \in Rows : status[r] = "PENDING" /\ \A p \in Relays : r \notin locked[p]}

Selected == {r \in Selectable : Cardinality({q \in Selectable : q < r}) < BatchSize}

\* The row that p deals with: rows are taken in the order of the query.
Row(p) == Min(batch[p])

FetchPending(p) ==
  /\ stage[p] = "idle"
  /\ Selected # {}
  /\ batch' = [batch EXCEPT ![p] = Selected]
  /\ locked' = [locked EXCEPT ![p] = Selected]
  /\ stage' = [stage EXCEPT ![p] = "fetching"]
  /\ UNCHANGED <<producer, status, attempts, outq, report, log, faults>>

\* The fetch transaction ends before the first row is published, and its row
\* locks end with it.
FetchCommit(p) ==
  /\ stage[p] = "fetching"
  /\ locked' = [locked EXCEPT ![p] = {}]
  /\ stage' = [stage EXCEPT ![p] = "publish"]
  /\ UNCHANGED <<producer, status, attempts, batch, outq, report, log, faults>>

\* Publish hands the row to the client library and waits.
Publish(p) ==
  /\ stage[p] = "publish"
  /\ batch[p] # {}
  /\ outq' = [outq EXCEPT ![p] = Append(@, Row(p))]
  /\ report' = [report EXCEPT ![p] = "none"]
  /\ stage' = [stage EXCEPT ![p] = "wait"]
  /\ UNCHANGED <<producer, status, attempts, locked, batch, log, faults>>

\* Publish is refused before anything is queued: the client library returns
\* an error at once, for instance because its queue is full.
PublishRefused(p) ==
  /\ stage[p] = "publish"
  /\ batch[p] # {}
  /\ Fault("refusal")
  /\ stage' = [stage EXCEPT ![p] = "failed"]
  /\ UNCHANGED <<producer, status, attempts, locked, batch, outq, report, log>>

\* Mutation: the delivery report is not read.
PublishOkUnread(p) == outq[p] = <<>>

(***************************************************************************)
(* Publish stops waiting: when nothing is queued any more or, in the C++   *)
(* service, when the flush times out.  The Go and Python producers raise   *)
(* the error of the delivery report; the C++ producer raises only if       *)
(* something is still queued.                                              *)
(***************************************************************************)
PublishOk(p) == outq[p] = <<>> /\ (producer = "report" => report[p] = "ok")

PublishReturns(p) ==
  /\ stage[p] = "wait"
  /\ \/ outq[p] = <<>> /\ UNCHANGED faults
     \/ outq[p] # <<>> /\ producer = "flush" /\ Fault("timeout")
  /\ stage' = [stage EXCEPT ![p] = IF PublishOk(p) THEN "mark" ELSE "failed"]
  /\ UNCHANGED <<producer, status, attempts, locked, batch, outq, report, log>>

\* Mutations: the update writes another status, or is forgotten.
MarkedMisspelt(p) == [status EXCEPT ![Row(p)] = "SENT"]
MarkedNot(p) == status

\* The row p is dealing with is PUBLISHED.
Marked(p) == [status EXCEPT ![Row(p)] = "PUBLISHED"]

\* The loop goes on with the next row.
MarkPublished(p) ==
  /\ stage[p] = "mark"
  /\ status' = Marked(p)
  /\ batch' = [batch EXCEPT ![p] = @ \ {Row(p)}]
  /\ stage' = [stage EXCEPT ![p] = "publish"]
  /\ UNCHANGED <<producer, attempts, locked, outq, report, log, faults>>

\* Mutation: the loop goes on with the next row.
MarkFailedGoesOn(p) ==
  /\ stage[p] = "failed"
  /\ attempts' = [attempts EXCEPT ![Row(p)] = @ + 1]
  /\ batch' = [batch EXCEPT ![p] = @ \ {Row(p)}]
  /\ stage' = [stage EXCEPT ![p] = "publish"]
  /\ UNCHANGED <<producer, status, locked, outq, report, log, faults>>

\* The row stays PENDING, and the error ends the drain.
MarkFailed(p) ==
  /\ stage[p] = "failed"
  /\ attempts' = [attempts EXCEPT ![Row(p)] = @ + 1]
  /\ batch' = [batch EXCEPT ![p] = {}]
  /\ stage' = [stage EXCEPT ![p] = "idle"]
  /\ UNCHANGED <<producer, status, locked, outq, report, log, faults>>

\* The batch is done; the loop sleeps until its next tick.
DrainEnds(p) ==
  /\ stage[p] = "publish"
  /\ batch[p] = {}
  /\ stage' = [stage EXCEPT ![p] = "idle"]
  /\ UNCHANGED <<producer, status, attempts, locked, batch, outq, report, log, faults>>

DrainStep(p) ==
  \/ FetchPending(p) \/ FetchCommit(p) \/ Publish(p) \/ PublishReturns(p)
  \/ MarkPublished(p) \/ MarkFailed(p) \/ DrainEnds(p)

-----------------------------------------------------------------------------
(* The broker, and faults.                                                 *)

Reported(p, rest, res) == IF rest = <<>> THEN [report EXCEPT ![p] = res] ELSE report

\* The oldest queued message is stored and acknowledged.
BrokerStores(p) ==
  /\ outq[p] # <<>>
  /\ log' = Append(log, Head(outq[p]))
  /\ outq' = [outq EXCEPT ![p] = Tail(@)]
  /\ report' = Reported(p, outq'[p], "ok")
  /\ UNCHANGED <<producer, status, attempts, locked, batch, stage, faults>>

\* Its delivery fails for good; it may have been stored all the same.
BrokerFails(p) ==
  /\ outq[p] # <<>>
  /\ Fault("delivery")
  /\ \E stored \in BOOLEAN : log' = IF stored THEN Append(log, Head(outq[p])) ELSE log
  /\ outq' = [outq EXCEPT ![p] = Tail(@)]
  /\ report' = Reported(p, outq'[p], "error")
  /\ UNCHANGED <<producer, status, attempts, locked, batch, stage>>

\* A statement on the outbox table fails, and the drain ends.  The update that
\* marks the row may have been committed before its answer was lost.
DatabaseFails(p) ==
  /\ stage[p] \in {"fetching", "mark", "failed"}
  /\ Fault("database")
  /\ status' = status \/ (stage[p] = "mark" /\ status' = Marked(p))
  /\ locked' = [locked EXCEPT ![p] = {}]
  /\ batch' = [batch EXCEPT ![p] = {}]
  /\ stage' = [stage EXCEPT ![p] = "idle"]
  /\ UNCHANGED <<producer, attempts, outq, report, log>>

\* The process dies, and what it had queued dies with it; it is restarted.
RelayCrash(p) ==
  /\ stage[p] # "idle" \/ outq[p] # <<>>
  /\ Fault("crash")
  /\ locked' = [locked EXCEPT ![p] = {}]
  /\ batch' = [batch EXCEPT ![p] = {}]
  /\ stage' = [stage EXCEPT ![p] = "idle"]
  /\ outq' = [outq EXCEPT ![p] = <<>>]
  /\ report' = [report EXCEPT ![p] = "none"]
  /\ UNCHANGED <<producer, status, attempts, log>>

RelayNext ==
  \/ \E r \in Rows : InsertRow(r)
  \/ \E p \in Relays :
       \/ DrainStep(p)
       \/ BrokerStores(p) \/ BrokerFails(p)
       \/ PublishRefused(p) \/ DatabaseFails(p) \/ RelayCrash(p)

RelaySpec == RelayInit /\ [][RelayNext]_relayVars

(***************************************************************************)
(* The loop drains again after every tick, a drain goes on to its next     *)
(* statement, and the broker answers.  Faults are finitely many.           *)
(***************************************************************************)
RelayFairSpec ==
  RelaySpec /\ \A p \in Relays :
                 WF_relayVars(DrainStep(p)) /\ WF_relayVars(BrokerStores(p))

-----------------------------------------------------------------------------
(* Properties.                                                             *)

(***************************************************************************)
(* A row is marked PUBLISHED only after the broker stored it (FR-10): a    *)
(* failed publish leaves the row PENDING for a later retry.                *)
(***************************************************************************)
MarkedIsStored == \A r \in Rows : status[r] = "PUBLISHED" => r \in Range(log)

(***************************************************************************)
(* The events of one order are first published in the order in which they  *)
(* were created, whatever fails in between: drainOnce abandons the batch   *)
(* at the first row it cannot publish.                                     *)
(***************************************************************************)
FirstPublishedInOrder ==
  \A i \in 1 .. Len(log) : \A r \in Rows :
    r < log[i] /\ Aggregate[r] = Aggregate[log[i]] => \E j \in 1 .. i : log[j] = r

(***************************************************************************)
(* Duplicates have a cause: a single relay publishes a row again only      *)
(* after a fault, and a fault costs at most one duplicate.                 *)
(***************************************************************************)
DuplicatesAreFaults == Len(log) - Cardinality(Range(log)) <= faults

Outbox == INSTANCE AtLeastOnce WITH
  Items <- Rows,
  offered <- {r \in Rows : status[r] # "NONE"},
  delivered <- Range(log)

(***************************************************************************)
(* The relay implements at-least-once delivery: only committed rows are    *)
(* published, and every committed row is published in the end (FR-10,      *)
(* FR-11).                                                                 *)
(***************************************************************************)
RelaysAtLeastOnce == Outbox!DeliverySpec

(***************************************************************************)
(* No committed row stays PENDING for good, whatever the drain that dealt  *)
(* with it met: later ticks retry it until it is marked (FR-10, AC-8).     *)
(***************************************************************************)
EveryRowMarked == \A r \in Rows : status[r] = "PENDING" ~> status[r] = "PUBLISHED"

(***************************************************************************)
(* FetchPending "selects PENDING rows with FOR UPDATE SKIP LOCKED so a     *)
(* restarted or concurrent relay never double-dispatches": no row is       *)
(* published twice.                                                        *)
(***************************************************************************)
NeverDoubleDispatches == \A i, j \in 1 .. Len(log) : log[i] = log[j] => i = j

-----------------------------------------------------------------------------
(* The invariants behind the safety properties.                            *)

Stored == Range(log)

\* What relay p has under way is committed.
CommittedAt(p) ==
  /\ \A r \in batch[p] \cup Range(outq[p]) : status[r] # "NONE"
  /\ stage[p] \in {"wait", "failed", "mark"} => batch[p] # {}

CommittedInv == \A p \in Relays : CommittedAt(p)

\* A row that p is about to mark is stored: the last message queued is that of
\* the row waited for.
StoredAt(p) ==
  /\ CommittedAt(p)
  /\ stage[p] = "mark" => Row(p) \in Stored
  /\ stage[p] = "wait" /\ outq[p] # <<>> => outq[p][Len(outq[p])] = Row(p)
  /\ stage[p] = "wait" /\ outq[p] = <<>> =>
       (report[p] = "ok" \/ producer = "flush" => Row(p) \in Stored)

StoredInv ==
  /\ MarkedIsStored
  /\ \A r \in Stored : status[r] # "NONE"
  /\ \A p \in Relays : StoredAt(p)

\* The earlier rows of the same order.
Before(r) == {q \in Rows : q < r /\ Aggregate[q] = Aggregate[r]}

\* Relay p queues a row only when all that comes before it is stored.
InOrderAt(p) ==
  /\ \A r \in batch[p] : Before(r) \subseteq batch[p] \cup Stored
  /\ \A r \in Range(outq[p]) : Before(r) \subseteq Stored
  /\ stage[p] # "fetching" => locked[p] = {}

InOrderInv ==
  /\ FirstPublishedInOrder
  /\ \A r \in Rows : status[r] # "NONE" => \A q \in Before(r) : status[q] # "NONE"
  /\ \A p \in Relays : InOrderAt(p)

\* The rows that p has handed to its client library, or that are stored.
Sent(p) == Stored \cup Range(outq[p])

\* Unless something fails, p goes on to mark the row it deals with.
Settling(p) ==
  stage[p] = "mark" \/ (stage[p] = "wait" /\ (outq[p] = <<>> => PublishOk(p)))

\* The rows that p has sent and will send again.
Again(p) ==
  {r \in Sent(p) : status[r] = "PENDING" /\ ~ (Settling(p) /\ r = Row(p))}

(***************************************************************************)
(* A fault is charged when it happens, not when the duplicate appears: a   *)
(* message sent twice counts from the moment it is queued, and a row to be *)
(* sent again from the moment that nothing will mark it.                   *)
(***************************************************************************)
DuplicatesAt(p) ==
  /\ \A r \in batch[p] : status[r] = "PENDING"
  /\ \A r \in Sent(p) : status[r] # "NONE"
  /\ Len(log) + Len(outq[p]) + Cardinality(Again(p)) <= Cardinality(Sent(p)) + faults

DuplicatesInv == \A p \in Relays : DuplicatesAt(p)
=============================================================================
