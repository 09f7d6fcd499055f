-------------------------- MODULE OutboxRelayProofs --------------------------
(***************************************************************************)
(* Proofs about the outbox relay, for any number of rows, batch size and   *)
(* number of faults.                                                       *)
(***************************************************************************)
EXTENDS OutboxRelay, FiniteSetTheorems, WellFoundedInduction, TLAPS

\* Most leaves are first-order without arithmetic, and Zenon proves them; the
\* others name SMT.
USE Zenon

\* A set of rows that is not empty has a first one.
LEMMA MinIsLeast ==
  ASSUME NEW S \in SUBSET Nat, S # {}
  PROVE  Min(S) \in S /\ \A q \in S : Min(S) <= q
<1> DEFINE R == {ss \in Nat \X Nat : ss[1] < ss[2]}
<1>1. IsWellFoundedOn(R, Nat)
  BY NatLessThanWellFounded DEF OpToRel
<1> HIDE DEF R
<1>2. PICK x \in S : \A y \in S : ~ (<<y, x>> \in R)
  BY <1>1, WFMin
<1>3. ASSUME NEW y \in S PROVE x <= y
  <2>1. x \in Nat /\ y \in Nat
    OBVIOUS
  <2>2. ASSUME y < x PROVE <<y, x>> \in R
    <3>1. <<y, x>>[1] = y /\ <<y, x>>[2] = x /\ <<y, x>> \in Nat \X Nat
      BY <2>1
    <3> QED
      BY <2>2, <3>1 DEF R
  <2> QED
    BY <1>2, <2>1, <2>2, SMT
<1> QED
  BY <1>3 DEF Min

\* What appending to a sequence of rows and taking its tail do.
LEMMA AppendFacts ==
  ASSUME NEW S, NEW s \in Seq(S), NEW x \in S
  PROVE  /\ Append(s, x) \in Seq(S) /\ Append(s, x) # <<>>
         /\ Len(Append(s, x)) = Len(s) + 1
         /\ Append(s, x)[Len(s) + 1] = x
         /\ \A i \in 1 .. Len(s) : Append(s, x)[i] = s[i]
         /\ Range(Append(s, x)) = Range(s) \cup {x}
<1>1. /\ Append(s, x) \in Seq(S) /\ Append(s, x) # <<>>
      /\ Len(Append(s, x)) = Len(s) + 1
      /\ Append(s, x)[Len(s) + 1] = x
      /\ \A i \in 1 .. Len(s) : Append(s, x)[i] = s[i]
  BY SMT
<1>2. DOMAIN s = 1 .. Len(s) /\ DOMAIN Append(s, x) = 1 .. Len(s) + 1
  BY SMT
<1>3. Range(Append(s, x)) = Range(s) \cup {x}
  BY <1>1, <1>2, SMT DEF Range
<1> QED
  BY <1>1, <1>3

\* Nothing is in the empty sequence.
LEMMA RangeEmpty == Range(<<>>) = {}
BY SMT DEF Range

\* What remains of a sequence without its head.
LEMMA TailFacts ==
  ASSUME NEW S, NEW s \in Seq(S), s # <<>>
  PROVE  /\ Tail(s) \in Seq(S) /\ Head(s) \in S /\ Head(s) \in Range(s)
         /\ Range(Tail(s)) \subseteq Range(s)
         /\ Range(s) = Range(Tail(s)) \cup {Head(s)} /\ Len(s) = Len(Tail(s)) + 1
         /\ Tail(s) # <<>> => Tail(s)[Len(Tail(s))] = s[Len(s)]
         /\ Tail(s) = <<>> => Head(s) = s[Len(s)]
<1>1. Len(s) \in Nat /\ Len(s) > 0 /\ DOMAIN s = 1 .. Len(s)
  BY SMT
<1>2. /\ Tail(s) \in Seq(S) /\ Len(Tail(s)) = Len(s) - 1
      /\ \A i \in 1 .. Len(s) - 1 : Tail(s)[i] = s[i + 1]
  BY <1>1, SMT
<1>3. Head(s) = s[1] /\ Head(s) \in S /\ Head(s) \in Range(s)
  BY <1>1, SMT DEF Range
<1>4. DOMAIN Tail(s) = 1 .. Len(s) - 1
  BY <1>2, SMT
<1>5. Range(Tail(s)) \subseteq Range(s)
  BY <1>1, <1>2, <1>4, SMT DEF Range
<1>6. Tail(s) # <<>> => Tail(s)[Len(Tail(s))] = s[Len(s)]
  BY <1>1, <1>2, SMT
<1>7. Tail(s) = <<>> => Head(s) = s[Len(s)]
  BY <1>1, <1>2, <1>3, SMT
<1>8. Range(s) = Range(Tail(s)) \cup {Head(s)}
  <2>1. ASSUME NEW i \in 1 .. Len(s) PROVE s[i] \in Range(Tail(s)) \cup {Head(s)}
    <3>1. CASE i = 1
      BY <1>3, <3>1
    <3>2. CASE i # 1
      <4>1. i - 1 \in 1 .. Len(s) - 1 /\ Tail(s)[i - 1] = s[i]
        BY <1>1, <1>2, <3>2, SMT
      <4> QED
        BY <1>4, <4>1 DEF Range
    <3> QED
      BY <3>1, <3>2
  <2> QED
    BY <1>1, <1>3, <1>5, <2>1 DEF Range
<1>9. Len(s) = Len(Tail(s)) + 1
  BY <1>1, <1>2, SMT
<1> QED
  BY <1>2, <1>3, <1>5, <1>6, <1>7, <1>8, <1>9

\* The row a relay deals with is one of its batch.
LEMMA RowOfBatch ==
  ASSUME RelayTypeOK, NEW p \in Relays, batch[p] # {}
  PROVE  /\ Row(p) \in batch[p] /\ Row(p) \in Rows
         /\ \A q \in batch[p] : Row(p) <= q
<1>1. batch[p] \in SUBSET Rows /\ Rows \subseteq Nat
  BY RelayAssumption, SMT DEF RelayTypeOK, Rows
<1> QED
  BY <1>1, MinIsLeast DEF Row

-----------------------------------------------------------------------------
(* The types.                                                              *)

\* An empty outbox and an idle relay are well typed.
LEMMA RelayInitType == RelayInit => RelayTypeOK
BY RelayAssumption, SMT DEF RelayInit, RelayTypeOK, Stage

\* Marking a row changes its status alone.
LEMMA MarkedFacts ==
  ASSUME RelayTypeOK, NEW p \in Relays
  PROVE  /\ Marked(p) \in [Rows -> {"NONE", "PENDING", "PUBLISHED"}]
         /\ \A r \in Rows : Marked(p)[r] = IF r = Row(p) THEN "PUBLISHED" ELSE status[r]
BY DEF RelayTypeOK, Marked

\* Every step of relay, broker and database keeps the types.
LEMMA RelayTypeStep == RelayTypeOK /\ RelayNext => RelayTypeOK'
<1> SUFFICES ASSUME RelayTypeOK, RelayNext PROVE RelayTypeOK'
  OBVIOUS
<1>1. ASSUME NEW r \in Rows, InsertRow(r) PROVE RelayTypeOK'
  BY <1>1 DEF RelayTypeOK, InsertRow
<1>2. ASSUME NEW p \in Relays, DrainStep(p) PROVE RelayTypeOK'
  <2>1. CASE FetchPending(p)
    <3>1. Selected \in SUBSET Rows
      BY DEF Selected, Selectable
    <3> QED
      BY <2>1, <3>1 DEF RelayTypeOK, FetchPending, Stage
  <2>2. CASE FetchCommit(p) \/ DrainEnds(p)
    BY <2>2 DEF RelayTypeOK, FetchCommit, DrainEnds, Stage
  <2>3. CASE Publish(p)
    <3>1. Append(outq[p], Row(p)) \in Seq(Rows)
      BY <2>3, RowOfBatch, AppendFacts DEF Publish, RelayTypeOK
    <3> QED
      BY <2>3, <3>1 DEF RelayTypeOK, Publish, Stage
  <2>4. CASE PublishReturns(p)
    <3>1. faults' \in 0 .. MaxFaults
      BY <2>4, RelayAssumption, SMT DEF RelayTypeOK, PublishReturns, Fault
    <3>2. stage' \in [Relays -> Stage]
      BY <2>4 DEF RelayTypeOK, PublishReturns, Stage
    <3> QED
      BY <2>4, <3>1, <3>2 DEF RelayTypeOK, PublishReturns
  <2>5. CASE MarkPublished(p)
    BY <2>5, MarkedFacts DEF RelayTypeOK, MarkPublished, Stage
  <2>6. CASE MarkFailed(p)
    <3>1. attempts' = [attempts EXCEPT ![Row(p)] = attempts[Row(p)] + 1]
      BY <2>6 DEF MarkFailed
    <3>2. \A r \in Rows : attempts'[r] \in Nat
      BY <3>1, SMT DEF RelayTypeOK
    <3>3. attempts' \in [Rows -> Nat]
      BY <3>1, <3>2 DEF RelayTypeOK
    <3> QED
      BY <2>6, <3>3 DEF RelayTypeOK, MarkFailed, Stage
  <2> QED
    BY <1>2, <2>1, <2>2, <2>3, <2>4, <2>5, <2>6 DEF DrainStep
<1>3. ASSUME NEW p \in Relays, BrokerStores(p) \/ BrokerFails(p) PROVE RelayTypeOK'
  <2>1. outq[p] \in Seq(Rows) /\ log \in Seq(Rows) /\ outq[p] # <<>>
    BY <1>3 DEF RelayTypeOK, BrokerStores, BrokerFails
  <2>2. Tail(outq[p]) \in Seq(Rows) /\ Append(log, Head(outq[p])) \in Seq(Rows)
    BY <2>1, TailFacts, AppendFacts
  <2>3. outq' \in [Relays -> Seq(Rows)] /\ log' \in Seq(Rows)
    BY <1>3, <2>1, <2>2 DEF RelayTypeOK, BrokerStores, BrokerFails
  <2>4. report' \in [Relays -> {"none", "ok", "error"}]
    BY <1>3 DEF RelayTypeOK, BrokerStores, BrokerFails, Reported
  <2>5. faults' \in 0 .. MaxFaults
    BY <1>3, RelayAssumption, SMT DEF RelayTypeOK, BrokerStores, BrokerFails, Fault
  <2> QED
    BY <1>3, <2>3, <2>4, <2>5 DEF RelayTypeOK, BrokerStores, BrokerFails
<1>4. ASSUME NEW p \in Relays, PublishRefused(p) \/ DatabaseFails(p) \/ RelayCrash(p)
      PROVE  RelayTypeOK'
  <2>1. faults' \in 0 .. MaxFaults
    BY <1>4, RelayAssumption, SMT DEF RelayTypeOK, PublishRefused, DatabaseFails, RelayCrash, Fault
  <2>2. CASE PublishRefused(p)
    BY <2>1, <2>2 DEF RelayTypeOK, PublishRefused, Stage
  <2>3. CASE DatabaseFails(p)
    BY <2>1, <2>3, MarkedFacts DEF RelayTypeOK, DatabaseFails, Stage
  <2>4. CASE RelayCrash(p)
    BY <2>1, <2>4, SMT DEF RelayTypeOK, RelayCrash, Stage
  <2> QED
    BY <1>4, <2>2, <2>3, <2>4
<1> QED
  BY <1>1, <1>2, <1>3, <1>4 DEF RelayNext

\* The columns of the outbox, the relay's loop, the producer's queue and the
\* topics hold what they should, whatever fails.
THEOREM RelayTypeCorrect == RelaySpec => []RelayTypeOK
<1>1. RelayTypeOK /\ UNCHANGED relayVars => RelayTypeOK'
  BY DEF RelayTypeOK, relayVars
<1> QED
  BY <1>1, RelayInitType, RelayTypeStep, PTL DEF RelaySpec

-----------------------------------------------------------------------------
(* Only committed rows are published.                                      *)

\* What the broker does to the queue of p and to the topics.
LEMMA BrokerFacts ==
  ASSUME RelayTypeOK, NEW p \in Relays, BrokerStores(p) \/ BrokerFails(p)
  PROVE  /\ outq[p] # <<>> /\ Head(outq[p]) \in Rows /\ Head(outq[p]) \in Range(outq[p])
         /\ outq'[p] = Tail(outq[p]) /\ Range(outq'[p]) \subseteq Range(outq[p])
         /\ log' = log \/ log' = Append(log, Head(outq[p]))
         /\ Stored' = Stored \/ Stored' = Stored \cup {Head(outq[p])}
         /\ UNCHANGED <<producer, status, locked, batch, stage>>
         /\ \A q \in Relays : q # p => outq'[q] = outq[q] /\ report'[q] = report[q]
<1>1. outq[p] \in Seq(Rows) /\ log \in Seq(Rows) /\ outq[p] # <<>>
  BY DEF RelayTypeOK, BrokerStores, BrokerFails
<1>2. Head(outq[p]) \in Rows /\ Head(outq[p]) \in Range(outq[p])
  BY <1>1, TailFacts
<1>3. outq'[p] = Tail(outq[p]) /\ Range(outq'[p]) \subseteq Range(outq[p])
  <2>1. outq' = [outq EXCEPT ![p] = Tail(outq[p])] /\ p \in DOMAIN outq
    BY DEF RelayTypeOK, BrokerStores, BrokerFails
  <2>2. outq'[p] = Tail(outq[p])
    BY <2>1
  <2> QED
    BY <1>1, <2>2, TailFacts
<1>4. log' = log \/ log' = Append(log, Head(outq[p]))
  BY DEF BrokerStores, BrokerFails
<1>5. Stored' = Stored \/ Stored' = Stored \cup {Head(outq[p])}
  <2>1. CASE log' = log
    BY <2>1 DEF Stored
  <2>2. CASE log' = Append(log, Head(outq[p]))
    <3>1. Range(Append(log, Head(outq[p]))) = Range(log) \cup {Head(outq[p])}
      BY <1>1, <1>2, AppendFacts, SMT
    <3> QED
      BY <2>2, <3>1 DEF Stored
  <2> QED
    BY <1>4, <2>1, <2>2
<1>6. UNCHANGED <<producer, status, locked, batch, stage>>
  BY DEF BrokerStores, BrokerFails
<1>7. \A q \in Relays : q # p => outq'[q] = outq[q] /\ report'[q] = report[q]
  BY DEF BrokerStores, BrokerFails, Reported, RelayTypeOK
<1> QED
  BY <1>1, <1>2, <1>3, <1>4, <1>5, <1>6, <1>7

\* What a step of relay p, its broker or its database does to the rows under way.
LEMMA UnderWay ==
  ASSUME RelayTypeOK, CommittedInv, NEW p \in Relays,
         \/ DrainStep(p) \/ BrokerStores(p) \/ BrokerFails(p)
         \/ PublishRefused(p) \/ DatabaseFails(p) \/ RelayCrash(p)
  PROVE  /\ status' = status \/ (stage[p] = "mark" /\ status' = Marked(p))
         /\ batch'[p] \subseteq batch[p] \/ batch'[p] = Selected
         /\ Range(outq'[p]) \subseteq Range(outq[p]) \cup batch[p]
         /\ stage'[p] \in {"wait", "failed", "mark"} => batch'[p] # {}
         /\ \A q \in Relays : q # p => /\ batch'[q] = batch[q] /\ outq'[q] = outq[q]
                                       /\ stage'[q] = stage[q]
<1>1. stage[p] \in {"wait", "failed", "mark"} => batch[p] # {}
  BY DEF CommittedInv, CommittedAt
<1>2. CASE BrokerStores(p) \/ BrokerFails(p)
  <2>1. UNCHANGED <<status, batch, stage>> /\ Range(outq'[p]) \subseteq Range(outq[p])
    BY <1>2, BrokerFacts
  <2>2. \A q \in Relays : q # p => outq'[q] = outq[q]
    BY <1>2, BrokerFacts
  <2> QED
    BY <1>1, <2>1, <2>2
<1>3. CASE Publish(p)
  <2>1. /\ outq'[p] = Append(outq[p], Row(p)) /\ outq[p] \in Seq(Rows)
        /\ batch[p] # {} /\ UNCHANGED <<status, batch>>
        /\ \A q \in Relays : q # p => outq'[q] = outq[q] /\ stage'[q] = stage[q]
    BY <1>3 DEF Publish, RelayTypeOK
  <2>2. Row(p) \in batch[p] /\ Row(p) \in Rows
    BY <2>1, RowOfBatch
  <2>3. Range(outq'[p]) = Range(outq[p]) \cup {Row(p)}
    BY <2>1, <2>2, AppendFacts, SMT
  <2> QED
    BY <2>1, <2>2, <2>3
<1>4. CASE FetchPending(p) \/ FetchCommit(p) \/ DrainEnds(p) \/ MarkFailed(p)
  <2>1. /\ UNCHANGED <<status, outq>> /\ stage'[p] \in {"fetching", "publish", "idle"}
        /\ batch'[p] \in {Selected, batch[p], {}}
        /\ \A q \in Relays : q # p => batch'[q] = batch[q] /\ stage'[q] = stage[q]
    BY <1>4 DEF FetchPending, FetchCommit, DrainEnds, MarkFailed, RelayTypeOK
  <2> QED
    BY <2>1
<1>5. CASE PublishReturns(p) \/ PublishRefused(p)
  <2>1. /\ UNCHANGED <<status, outq, batch>> /\ batch[p] # {}
        /\ \A q \in Relays : q # p => stage'[q] = stage[q]
    BY <1>1, <1>5 DEF PublishReturns, PublishRefused, RelayTypeOK
  <2> QED
    BY <2>1
<1>6. CASE MarkPublished(p) \/ DatabaseFails(p)
  <2>1. /\ status' = status \/ (stage[p] = "mark" /\ status' = Marked(p))
        /\ outq' = outq /\ stage'[p] \in {"publish", "idle"}
        /\ batch'[p] = batch[p] \ {Row(p)} \/ batch'[p] = {}
        /\ \A q \in Relays : q # p => batch'[q] = batch[q] /\ stage'[q] = stage[q]
    BY <1>6 DEF MarkPublished, DatabaseFails, RelayTypeOK
  <2> QED
    BY <2>1
<1>7. CASE RelayCrash(p)
  <2>1. /\ status' = status /\ outq'[p] = <<>> /\ batch'[p] = {} /\ stage'[p] = "idle"
        /\ \A q \in Relays : q # p => /\ batch'[q] = batch[q] /\ outq'[q] = outq[q]
                                      /\ stage'[q] = stage[q]
    BY <1>7 DEF RelayCrash, RelayTypeOK
  <2>2. Range(outq'[p]) = {}
    BY <2>1, RangeEmpty
  <2> QED
    BY <2>1, <2>2
<1> QED
  BY <1>2, <1>3, <1>4, <1>5, <1>6, <1>7 DEF DrainStep

\* A relay takes on only committed rows, and these stay committed.
LEMMA CommittedStep == RelayTypeOK /\ CommittedInv /\ RelayNext => CommittedInv'
<1> SUFFICES ASSUME RelayTypeOK, CommittedInv, RelayNext, NEW q \in Relays
             PROVE  CommittedAt(q)'
  BY DEF CommittedInv
<1>1. CommittedAt(q) /\ batch[q] \subseteq Rows /\ Range(outq[q]) \subseteq Rows
  BY SMT DEF CommittedInv, RelayTypeOK, Range
<1>2. ASSUME NEW r \in Rows, InsertRow(r) PROVE CommittedAt(q)'
  <2>1. /\ UNCHANGED <<batch, outq, stage>>
        /\ \A o \in Rows : status'[o] = IF o = r THEN "PENDING" ELSE status[o]
    BY <1>2 DEF InsertRow, RelayTypeOK
  <2> QED
    BY <1>1, <2>1 DEF CommittedAt
<1>3. ASSUME NEW p \in Relays,
             \/ DrainStep(p) \/ BrokerStores(p) \/ BrokerFails(p)
             \/ PublishRefused(p) \/ DatabaseFails(p) \/ RelayCrash(p)
      PROVE  CommittedAt(q)'
  <2>1. \A r \in Rows : status[r] # "NONE" => status'[r] # "NONE"
    <3>1. status' = status \/ status' = Marked(p)
      BY <1>3, UnderWay
    <3> QED
      BY <3>1, MarkedFacts
  <2>2. CASE q # p
    <3>1. batch'[q] = batch[q] /\ outq'[q] = outq[q] /\ stage'[q] = stage[q]
      BY <1>3, <2>2, UnderWay
    <3> QED
      BY <1>1, <2>1, <3>1 DEF CommittedAt
  <2>3. CASE q = p
    <3>1. /\ batch'[p] \subseteq batch[p] \/ batch'[p] = Selected
          /\ Range(outq'[p]) \subseteq Range(outq[p]) \cup batch[p]
          /\ stage'[p] \in {"wait", "failed", "mark"} => batch'[p] # {}
      BY <1>3, UnderWay
    <3>2. \A r \in Selected : r \in Rows /\ status[r] # "NONE"
      BY DEF Selected, Selectable
    <3> QED
      BY <1>1, <2>1, <2>3, <3>1, <3>2 DEF CommittedAt
  <2> QED
    BY <2>2, <2>3
<1> QED
  BY <1>2, <1>3 DEF RelayNext

\* Rows under way are committed, whatever fails and however many relays there
\* are.
THEOREM CommittedInvariance == RelaySpec => [](RelayTypeOK /\ CommittedInv)
<1>1. RelayInit => CommittedInv
  BY RangeEmpty DEF RelayInit, CommittedInv, CommittedAt
<1>2. CommittedInv /\ UNCHANGED relayVars => CommittedInv'
  BY DEF CommittedInv, CommittedAt, relayVars
<1> QED
  BY <1>1, <1>2, CommittedStep, RelayTypeCorrect, PTL DEF RelaySpec

\* FR-10 and FR-11, the safety part: each step of rows, relays and broker
\* commits one new row, or publishes a committed one for the first time, or is
\* invisible.
THEOREM RelayRefinement == RelaySpec => Outbox!DeliverySafety
<1> DEFINE committed == {r \in Rows : status[r] # "NONE"}
<1>1. RelayInit => Outbox!DeliveryInit
  BY SMT DEF RelayInit, Outbox!DeliveryInit, Range
<1>2. ASSUME RelayTypeOK, CommittedInv, RelayNext
      PROVE  Outbox!DeliveryNext \/ UNCHANGED <<committed, Range(log)>>
  <2>1. ASSUME NEW r \in Rows, InsertRow(r) PROVE Outbox!Offer(r)
    <3>1. r \notin committed /\ committed' = committed \cup {r} /\ log' = log
      BY <1>2, <2>1 DEF InsertRow, RelayTypeOK
    <3> QED
      BY <3>1 DEF Outbox!Offer
  <2>2. ASSUME NEW p \in Relays, DrainStep(p) \/ PublishRefused(p) \/ DatabaseFails(p)
                                \/ RelayCrash(p)
        PROVE  UNCHANGED <<committed, Range(log)>>
    <3>1. log' = log
      BY <2>2 DEF DrainStep, FetchPending, FetchCommit, Publish, PublishReturns, MarkPublished,
         MarkFailed, DrainEnds, PublishRefused, DatabaseFails, RelayCrash
    <3>2. status' = status \/ (stage[p] = "mark" /\ status' = Marked(p))
      BY <2>2 DEF DrainStep, FetchPending, FetchCommit, Publish, PublishReturns, MarkPublished,
         MarkFailed, DrainEnds, PublishRefused, DatabaseFails, RelayCrash
    <3>3. stage[p] = "mark" => Row(p) \in committed
      BY <1>2, RowOfBatch DEF CommittedInv, CommittedAt
    <3>4. committed' = committed
      BY <1>2, <3>2, <3>3, MarkedFacts
    <3> QED
      BY <3>1, <3>4
  <2>3. ASSUME NEW p \in Relays, BrokerStores(p) \/ BrokerFails(p)
        PROVE  Outbox!DeliveryNext \/ UNCHANGED <<committed, Range(log)>>
    <3>1. PICK r \in Rows : r = Head(outq[p])
      BY <1>2, <2>3, BrokerFacts
    <3>2. Outbox!Deliver(r) \/ UNCHANGED <<committed, Range(log)>>
      <4>1. /\ status' = status /\ r \in committed
            /\ Range(log)' = Range(log) \/ Range(log)' = Range(log) \cup {r}
        BY <1>2, <2>3, <3>1, BrokerFacts DEF CommittedInv, CommittedAt, Stored
      <4> QED
        BY <4>1 DEF Outbox!Deliver
    <3> QED
      BY <3>2 DEF Outbox!DeliveryNext
  <2> QED
    BY <1>2, <2>1, <2>2, <2>3 DEF RelayNext, Outbox!DeliveryNext
<1>3. ASSUME UNCHANGED relayVars PROVE UNCHANGED <<committed, Range(log)>>
  BY <1>3 DEF relayVars
<1> QED
  BY <1>1, <1>2, <1>3, CommittedInvariance, PTL DEF RelaySpec, Outbox!DeliverySafety

-----------------------------------------------------------------------------
(* Marked is stored.                                                       *)

\* No delivery fails for good that the producer would take for a success.
FailuresSeen == \A k \in Producers : k = "flush" => "delivery" \notin FaultKinds[k]

RelayInv == RelayTypeOK /\ StoredInv

\* What concerns relay p stands as long as p does nothing: rows stay
\* committed, and messages stored.
LEMMA StoredKept ==
  ASSUME RelayTypeOK, NEW p \in Relays, StoredAt(p),
         batch'[p] = batch[p], outq'[p] = outq[p], stage'[p] = stage[p],
         report'[p] = report[p], producer' = producer, Stored \subseteq Stored',
         \A r \in Rows : status[r] # "NONE" => status'[r] # "NONE"
  PROVE  StoredAt(p)'
<1>1. Row(p)' = Row(p)
  BY DEF Row
<1>2. batch[p] \subseteq Rows /\ Range(outq[p]) \subseteq Rows
  <2>1. outq[p] \in Seq(Rows) /\ batch[p] \subseteq Rows
    BY DEF RelayTypeOK
  <2> QED
    BY <2>1, SMT DEF Range
<1> QED
  BY <1>1, <1>2 DEF StoredAt, CommittedAt

\* At first no row is marked.
LEMMA StoredInit == RelayInit => StoredInv
<1> SUFFICES ASSUME RelayInit PROVE StoredInv
  OBVIOUS
<1>1. Stored = {}
  BY SMT DEF RelayInit, Stored, Range
<1>2. MarkedIsStored
  BY DEF RelayInit, MarkedIsStored
<1>3. ASSUME NEW p \in Relays PROVE StoredAt(p)
  <2>1. Range(outq[p]) = {}
    BY SMT DEF RelayInit, Range
  <2> QED
    BY <2>1 DEF RelayInit, StoredAt, CommittedAt
<1> QED
  BY <1>1, <1>2, <1>3 DEF StoredInv

\* Statuses: a committed row stays, and only stored rows are marked.
LEMMA StoredInsert ==
  ASSUME RelayInv, NEW r \in Rows, InsertRow(r)
  PROVE  StoredInv'
<1> USE DEF RelayInv
<1>1. Stored' = Stored
  BY DEF InsertRow, Stored
<1>2. \A q \in Rows : status'[q] = IF q = r THEN "PENDING" ELSE status[q]
  BY DEF InsertRow, RelayTypeOK
<1>3. \A p \in Relays : StoredAt(p)'
  BY <1>1, <1>2, StoredKept DEF InsertRow, StoredInv
<1>4. MarkedIsStored'
  BY <1>1, <1>2, SMT DEF StoredInv, MarkedIsStored, InsertRow, Stored
<1>5. \A q \in Stored : q \in Rows
  BY SMT DEF Stored, Range, RelayTypeOK
<1> QED
  BY <1>1, <1>2, <1>3, <1>4, <1>5 DEF StoredInv

\* A step of p that stores nothing and marks nothing.
LEMMA StoredQuiet ==
  ASSUME RelayInv, NEW p \in Relays, status' = status, log' = log, producer' = producer,
         StoredAt(p)',
         \A q \in Relays : q # p => /\ batch'[q] = batch[q] /\ outq'[q] = outq[q]
                                    /\ stage'[q] = stage[q] /\ report'[q] = report[q]
  PROVE  StoredInv'
<1> USE DEF RelayInv
<1>1. Stored' = Stored
  BY DEF Stored
<1>2. \A q \in Relays : StoredAt(q)'
  BY <1>1, StoredKept DEF StoredInv
<1> QED
  BY <1>1, <1>2 DEF StoredInv, MarkedIsStored, Stored

\* The steps of the drain up to the answer of the producer, and its ends.
LEMMA StoredDrain ==
  ASSUME RelayInv, NEW p \in Relays,
         \/ FetchPending(p) \/ FetchCommit(p) \/ DrainEnds(p) \/ Publish(p)
         \/ PublishRefused(p) \/ PublishReturns(p) \/ MarkFailed(p) \/ RelayCrash(p)
  PROVE  StoredInv'
<1> USE DEF RelayInv
<1>1. /\ status' = status /\ log' = log /\ producer' = producer /\ Stored' = Stored
      /\ \A q \in Relays : q # p => /\ batch'[q] = batch[q] /\ outq'[q] = outq[q]
                                    /\ stage'[q] = stage[q] /\ report'[q] = report[q]
  BY DEF FetchPending, FetchCommit, DrainEnds, Publish, PublishRefused, PublishReturns,
     MarkFailed, RelayCrash, RelayTypeOK, Stored
<1>2. StoredAt(p)
  BY DEF StoredInv
<1>3. CASE FetchPending(p)
  <2>1. /\ batch'[p] = Selected /\ outq'[p] = outq[p] /\ stage'[p] = "fetching"
    BY <1>3 DEF FetchPending, RelayTypeOK
  <2>2. \A r \in Selected : status[r] # "NONE"
    BY DEF Selected, Selectable
  <2>3. StoredAt(p)'
    BY <1>1, <1>2, <2>1, <2>2 DEF StoredAt, CommittedAt
  <2> QED
    BY <1>1, <2>3, StoredQuiet
<1>4. CASE FetchCommit(p) \/ DrainEnds(p)
  <2>1. /\ batch'[p] = batch[p] /\ outq'[p] = outq[p] /\ stage'[p] \in {"publish", "idle"}
    BY <1>4 DEF FetchCommit, DrainEnds, RelayTypeOK
  <2>2. StoredAt(p)'
    BY <1>1, <1>2, <2>1 DEF StoredAt, CommittedAt
  <2> QED
    BY <1>1, <2>2, StoredQuiet
<1>5. CASE Publish(p)
  <2>1. /\ batch'[p] = batch[p] /\ batch[p] # {} /\ stage'[p] = "wait"
        /\ outq'[p] = Append(outq[p], Row(p)) /\ outq[p] \in Seq(Rows)
    BY <1>5 DEF Publish, RelayTypeOK
  <2>2. Row(p)' = Row(p) /\ Row(p) \in batch[p] /\ Row(p) \in Rows
    BY <2>1, RowOfBatch DEF Row
  <2>3. /\ outq'[p] # <<>> /\ outq'[p][Len(outq'[p])] = Row(p)
        /\ Range(outq'[p]) = Range(outq[p]) \cup {Row(p)}
    BY <2>1, <2>2, AppendFacts, SMT
  <2>4. StoredAt(p)'
    BY <1>1, <1>2, <2>1, <2>2, <2>3 DEF StoredAt, CommittedAt
  <2> QED
    BY <1>1, <2>4, StoredQuiet
<1>6. CASE PublishRefused(p)
  <2>1. /\ batch'[p] = batch[p] /\ batch[p] # {} /\ outq'[p] = outq[p]
        /\ stage'[p] = "failed"
    BY <1>6 DEF PublishRefused, RelayTypeOK
  <2>2. StoredAt(p)'
    BY <1>1, <1>2, <2>1 DEF StoredAt, CommittedAt
  <2> QED
    BY <1>1, <2>2, StoredQuiet
<1>7. CASE PublishReturns(p)
  <2>1. /\ batch'[p] = batch[p] /\ outq'[p] = outq[p] /\ stage[p] = "wait"
        /\ stage'[p] = IF PublishOk(p) THEN "mark" ELSE "failed"
    BY <1>7 DEF PublishReturns, RelayTypeOK
  <2>2. Row(p)' = Row(p)
    BY <2>1 DEF Row
  <2>3. producer = "report" \/ producer = "flush"
    BY RelayAssumption DEF RelayTypeOK
  <2>4. PublishOk(p) => Row(p) \in Stored
    BY <1>2, <2>1, <2>3 DEF PublishOk, StoredAt, CommittedAt
  <2>5. StoredAt(p)'
    BY <1>1, <1>2, <2>1, <2>2, <2>4 DEF StoredAt, CommittedAt
  <2> QED
    BY <1>1, <2>5, StoredQuiet
<1>8. CASE MarkFailed(p) \/ RelayCrash(p)
  <2>1. /\ batch'[p] = {} /\ stage'[p] = "idle"
        /\ outq'[p] = outq[p] \/ outq'[p] = <<>>
    BY <1>8 DEF MarkFailed, RelayCrash, RelayTypeOK
  <2>2. Range(outq'[p]) \subseteq Range(outq[p])
    BY <2>1, SMT DEF Range
  <2>3. StoredAt(p)'
    BY <1>1, <1>2, <2>1, <2>2 DEF StoredAt, CommittedAt
  <2> QED
    BY <1>1, <2>3, StoredQuiet
<1> QED
  BY <1>3, <1>4, <1>5, <1>6, <1>7, <1>8

\* The row is marked, or the database fails under the relay.
LEMMA StoredMark ==
  ASSUME RelayInv, NEW p \in Relays, MarkPublished(p) \/ DatabaseFails(p)
  PROVE  StoredInv'
<1> USE DEF RelayInv
<1>1. /\ producer' = producer /\ log' = log /\ Stored' = Stored /\ outq' = outq
      /\ batch'[p] \subseteq batch[p] /\ stage'[p] \in {"publish", "idle"}
      /\ status' = status \/ (stage[p] = "mark" /\ status' = Marked(p))
  BY SMT DEF MarkPublished, DatabaseFails, RelayTypeOK, Stored
<1>2. \A q \in Relays : q # p => /\ batch'[q] = batch[q] /\ outq'[q] = outq[q]
                                /\ stage'[q] = stage[q] /\ report'[q] = report[q]
  BY DEF MarkPublished, DatabaseFails, RelayTypeOK
<1>3. /\ \A r \in Rows : status[r] # "NONE" => status'[r] # "NONE"
      /\ \A r \in Rows : status'[r] = "PUBLISHED" => r \in Stored
  <2>1. CASE status' = status
    BY <2>1 DEF StoredInv, MarkedIsStored, Stored
  <2>2. CASE stage[p] = "mark" /\ status' = Marked(p)
    <3>1. Row(p) \in Stored
      BY <2>2 DEF StoredInv, StoredAt, CommittedAt
    <3> QED
      BY <2>2, <3>1, MarkedFacts DEF StoredInv, MarkedIsStored, Stored
  <2> QED
    BY <1>1, <2>1, <2>2
<1>4. StoredAt(p)'
  <2>1. StoredAt(p)
    BY DEF StoredInv
  <2>2. batch[p] \subseteq Rows /\ Range(outq[p]) \subseteq Rows
    BY SMT DEF RelayTypeOK, Range
  <2> QED
    BY <1>1, <1>3, <2>1, <2>2 DEF StoredAt, CommittedAt
<1>5. \A q \in Relays : StoredAt(q)'
  BY <1>1, <1>2, <1>3, <1>4, StoredKept DEF StoredInv
<1>6. \A r \in Stored : r \in Rows
  BY SMT DEF Stored, Range, RelayTypeOK
<1> QED
  BY <1>1, <1>3, <1>5, <1>6 DEF StoredInv, MarkedIsStored, Stored

\* A message leaves the queue: stored, or failed with a report of it.
LEMMA StoredBroker ==
  ASSUME FailuresSeen, RelayInv, NEW p \in Relays, BrokerStores(p) \/ BrokerFails(p)
  PROVE  StoredInv'
<1> USE DEF RelayInv
<1>1. StoredAt(p) /\ outq[p] \in Seq(Rows)
  BY DEF StoredInv, RelayTypeOK
<1>2. Row(p)' = Row(p)
  BY BrokerFacts DEF Row
<1>3. ASSUME stage[p] = "wait", outq'[p] # <<>> PROVE outq'[p][Len(outq'[p])] = Row(p)
  <2>1. outq[p] # <<>> /\ outq'[p] = Tail(outq[p])
    BY BrokerFacts
  <2>2. outq'[p][Len(outq'[p])] = outq[p][Len(outq[p])]
    BY <1>1, <1>3, <2>1, TailFacts
  <2> QED
    BY <1>1, <1>3, <2>1, <2>2 DEF StoredAt, CommittedAt
<1>4. ASSUME stage[p] = "wait", outq'[p] = <<>>, report'[p] = "ok" \/ producer = "flush"
      PROVE  Row(p) \in Stored'
  <2>1. Head(outq[p]) = Row(p)
    BY <1>1, <1>4, BrokerFacts, TailFacts DEF StoredAt, CommittedAt
  <2>2. CASE BrokerStores(p)
    <3>1. log \in Seq(Rows) /\ Head(outq[p]) \in Rows /\ log' = Append(log, Head(outq[p]))
      BY <2>2, BrokerFacts DEF BrokerStores, RelayTypeOK
    <3> QED
      BY <2>1, <3>1, AppendFacts, SMT DEF Stored
  <2>3. CASE BrokerFails(p)
    <3>1. report'[p] = "error"
      BY <1>4, <2>3 DEF BrokerFails, Reported, RelayTypeOK
    <3>2. "delivery" \in FaultKinds[producer] /\ producer \in Producers
      BY <2>3 DEF BrokerFails, Fault, RelayTypeOK
    <3> QED
      BY <1>4, <3>1, <3>2 DEF FailuresSeen
  <2> QED
    BY <2>2, <2>3
<1>5. Stored \subseteq Stored'
  BY BrokerFacts
<1>6. StoredAt(p)'
  <2>1. UNCHANGED <<producer, status, locked, batch, stage>>
    BY BrokerFacts
  <2>2. Range(outq'[p]) \subseteq Range(outq[p])
    BY BrokerFacts
  <2> QED
    BY <1>1, <1>2, <1>3, <1>4, <1>5, <2>1, <2>2 DEF StoredAt, CommittedAt
<1>7. \A q \in Relays : StoredAt(q)'
  BY <1>5, <1>6, BrokerFacts, StoredKept DEF StoredInv
<1>8. MarkedIsStored'
  BY <1>5, BrokerFacts DEF StoredInv, MarkedIsStored, Stored
<1>9. \A r \in Stored' : status'[r] # "NONE"
  BY <1>1, BrokerFacts, SMT DEF StoredInv, StoredAt, CommittedAt
<1> QED
  BY <1>7, <1>8, <1>9 DEF StoredInv

\* The invariant stands for any number of relays at work on one outbox, if
\* the producer sees the failures there are.
THEOREM RelayInvariance ==
  ASSUME FailuresSeen
  PROVE  RelaySpec => []RelayInv
<1>1. ASSUME RelayInv, RelayNext PROVE RelayInv'
  <2>1. RelayTypeOK'
    BY <1>1, RelayTypeStep DEF RelayInv
  <2>2. ASSUME NEW r \in Rows, InsertRow(r) PROVE StoredInv'
    BY <1>1, <2>2, StoredInsert
  <2>3. ASSUME NEW p \in Relays,
               \/ DrainStep(p) \/ BrokerStores(p) \/ BrokerFails(p)
               \/ PublishRefused(p) \/ DatabaseFails(p) \/ RelayCrash(p)
        PROVE  StoredInv'
    BY <1>1, <2>3, StoredDrain, StoredMark, StoredBroker DEF DrainStep
  <2> QED
    BY <1>1, <2>1, <2>2, <2>3 DEF RelayNext, RelayInv
<1>2. ASSUME RelayInv, UNCHANGED relayVars PROVE RelayInv'
  <2>1. RelayTypeOK'
    BY <1>2 DEF RelayInv, RelayTypeOK, relayVars
  <2>2. Stored' = Stored
    BY <1>2 DEF relayVars, Stored
  <2>3. \A p \in Relays : StoredAt(p)'
    BY <1>2, <2>2, StoredKept DEF RelayInv, StoredInv, relayVars
  <2> QED
    BY <1>2, <2>1, <2>2, <2>3 DEF RelayInv, StoredInv, MarkedIsStored, Stored, relayVars
<1>3. RelayInit => RelayInv
  BY RelayInitType, StoredInit DEF RelayInv
<1> QED
  BY <1>1, <1>2, <1>3, PTL DEF RelaySpec

\* FR-10: a row is marked PUBLISHED only after the broker stored its message,
\* with crashes, refusals, time-outs and database errors, and with any number
\* of relays.  Without the assumption it fails, which run relay_outq shows.
THEOREM MarksOnlyStored ==
  ASSUME FailuresSeen
  PROVE  RelaySpec => []MarkedIsStored
<1>1. RelayInv => MarkedIsStored
  BY DEF RelayInv, StoredInv
<1> QED
  BY <1>1, RelayInvariance, PTL

-----------------------------------------------------------------------------
(* The order of first publications.                                        *)

\* A single relay drains the outbox, as the services are deployed.
OneRelay == \A p, q \in Relays : p = q

OrderedInv == RelayInv /\ InOrderInv

\* A fetch that takes a row takes the earlier rows that could be taken.
LEMMA SelectedBelow ==
  ASSUME NEW r \in Selected, NEW q \in Selectable, q < r
  PROVE  q \in Selected
<1> DEFINE below(x) == {y \in Selectable : y < x}
<1>1. Selectable \subseteq Rows /\ Rows \subseteq Nat /\ r \in Selectable
  BY RelayAssumption, SMT DEF Selected, Selectable, Rows
<1>2. IsFiniteSet(Rows)
  BY RelayAssumption, FS_Interval, SMT DEF Rows
<1>3. below(r) \in SUBSET Rows /\ below(q) \in SUBSET below(r)
  <2>1. q \in Nat /\ r \in Nat /\ \A y \in Selectable : y \in Nat
    BY <1>1
  <2>2. \A y \in Selectable : y < q => y < r
    BY <2>1, SMT
  <2> QED
    BY <1>1, <2>2
<1>4. IsFiniteSet(below(r))
  BY <1>2, <1>3, FS_Subset
<1>5. IsFiniteSet(below(q)) /\ Cardinality(below(q)) <= Cardinality(below(r))
  BY <1>3, <1>4, FS_Subset
<1>6. Cardinality(below(r)) < BatchSize
  BY DEF Selected
<1>7. Cardinality(below(q)) \in Nat /\ Cardinality(below(r)) \in Nat /\ BatchSize \in Nat
  BY <1>4, <1>5, FS_CardinalityType, RelayAssumption
<1>8. Cardinality(below(q)) < BatchSize
  BY <1>5, <1>6, <1>7, SMT
<1> QED
  BY <1>8 DEF Selected

\* What a fetch takes has its earlier rows with it or in the topics.
LEMMA FetchInOrder ==
  ASSUME OneRelay, OrderedInv, NEW p \in Relays, stage[p] = "idle", NEW r \in Selected
  PROVE  Before(r) \subseteq Selected \cup Stored
<1> USE DEF OrderedInv, RelayInv
<1>1. SUFFICES ASSUME NEW q \in Before(r), q \notin Stored PROVE q \in Selected
  OBVIOUS
<1>2. r \in Rows /\ status[r] = "PENDING" /\ q \in Rows /\ q < r
  BY DEF Selected, Selectable, Before
<1>3. status[q] = "PENDING"
  <2>1. status[q] # "NONE"
    BY <1>2 DEF InOrderInv
  <2>2. status[q] # "PUBLISHED"
    BY <1>1, <1>2 DEF StoredInv, MarkedIsStored, Stored
  <2> QED
    BY <1>2, <2>1, <2>2 DEF RelayTypeOK
<1>4. \A o \in Relays : locked[o] = {}
  BY DEF OneRelay, InOrderInv, InOrderAt
<1>5. q \in Selectable
  BY <1>2, <1>3, <1>4 DEF Selectable
<1> QED
  BY <1>2, <1>5, SelectedBelow

\* At first nothing is published.
LEMMA InOrderInit == RelayInit => InOrderInv
<1> SUFFICES ASSUME RelayInit PROVE InOrderInv
  OBVIOUS
<1>1. FirstPublishedInOrder
  BY SMT DEF RelayInit, FirstPublishedInOrder
<1>2. ASSUME NEW p \in Relays PROVE InOrderAt(p)
  <2>1. Range(outq[p]) = {}
    BY SMT DEF RelayInit, Range
  <2> QED
    BY <2>1 DEF RelayInit, InOrderAt
<1>3. \A r \in Rows : status[r] = "NONE"
  BY DEF RelayInit
<1> QED
  BY <1>1, <1>2, <1>3 DEF InOrderInv

\* The steps that leave the topics alone.
LEMMA InOrderQuiet ==
  ASSUME OneRelay, OrderedInv, NEW p \in Relays, InOrderAt(p)', log' = log,
         \A r \in Rows : (status[r] # "NONE") <=> (status'[r] # "NONE")
  PROVE  InOrderInv'
<1> USE DEF OrderedInv
<1>1. ASSUME NEW q \in Relays PROVE InOrderAt(q)'
  <2>1. q = p
    BY DEF OneRelay
  <2> QED
    BY <2>1 DEF InOrderAt
<1>2. FirstPublishedInOrder'
  BY SMT DEF InOrderInv, FirstPublishedInOrder
<1>3. \A r \in Rows : status'[r] # "NONE" => \A q \in Before(r) : status'[q] # "NONE"
  BY DEF InOrderInv, Before
<1> QED
  BY <1>1, <1>2, <1>3 DEF InOrderInv, Before

\* A row that is inserted is in no batch and not published yet.
LEMMA InOrderInsert ==
  ASSUME OrderedInv, NEW r \in Rows, InsertRow(r)
  PROVE  InOrderInv'
<1> USE DEF OrderedInv, RelayInv
<1>1. Stored' = Stored /\ log' = log
  BY DEF InsertRow, Stored
<1>2. \A q \in Rows : status'[q] = IF q = r THEN "PENDING" ELSE status[q]
  BY DEF InsertRow, RelayTypeOK
<1>3. ASSUME NEW p \in Relays PROVE InOrderAt(p)'
  <2>1. InOrderAt(p)
    BY DEF InOrderInv
  <2> QED
    BY <1>1, <2>1 DEF InsertRow, InOrderAt, Before
<1>4. FirstPublishedInOrder'
  BY <1>1, SMT DEF InOrderInv, FirstPublishedInOrder
<1>5. ASSUME NEW q \in Rows, status'[q] # "NONE", NEW o \in Before(q)
      PROVE  status'[o] # "NONE"
  <2>1. o \in Rows /\ o < q /\ Aggregate[o] = Aggregate[q]
    BY DEF Before
  <2>2. CASE q = r
    <3>1. o \in 1 .. r - 1
      BY <2>1, <2>2, RelayAssumption, SMT DEF Rows
    <3> QED
      BY <1>2, <2>1, <2>2, <3>1 DEF InsertRow
  <2>3. CASE q # r
    BY <1>2, <1>5, <2>1, <2>3 DEF InOrderInv
  <2> QED
    BY <2>2, <2>3
<1> QED
  BY <1>3, <1>4, <1>5 DEF InOrderInv, Before

\* A step of drain_once keeps the order: a row is published only once the
\* earlier ones of its batch are, and the batch begins at the lowest id.
LEMMA InOrderDrain ==
  ASSUME OneRelay, OrderedInv, NEW p \in Relays,
         DrainStep(p) \/ PublishRefused(p) \/ DatabaseFails(p) \/ RelayCrash(p)
  PROVE  InOrderInv'
<1> USE DEF OrderedInv, RelayInv
<1>1. InOrderAt(p)
  BY DEF InOrderInv
<1>2. log' = log /\ Stored' = Stored
  BY DEF DrainStep, FetchPending, FetchCommit, Publish, PublishReturns, MarkPublished,
     MarkFailed, DrainEnds, PublishRefused, DatabaseFails, RelayCrash, Stored
<1>3. \A r \in Rows : (status[r] # "NONE") <=> (status'[r] # "NONE")
  <2>1. status' = status \/ (stage[p] = "mark" /\ status' = Marked(p))
    BY DEF DrainStep, FetchPending, FetchCommit, Publish, PublishReturns, MarkPublished,
       MarkFailed, DrainEnds, PublishRefused, DatabaseFails, RelayCrash
  <2>2. stage[p] = "mark" => status[Row(p)] # "NONE"
    BY RowOfBatch DEF StoredInv, StoredAt, CommittedAt
  <2> QED
    BY <2>1, <2>2, MarkedFacts
<1>4. CASE FetchPending(p)
  <2>1. /\ batch'[p] = Selected /\ outq'[p] = outq[p] /\ stage'[p] = "fetching"
        /\ stage[p] = "idle"
    BY <1>4 DEF FetchPending, RelayTypeOK
  <2>2. \A r \in Selected : Before(r) \subseteq Selected \cup Stored
    BY <2>1, FetchInOrder
  <2>3. InOrderAt(p)'
    BY <1>1, <1>2, <2>1, <2>2 DEF InOrderAt, Before
  <2> QED
    BY <1>2, <1>3, <2>3, InOrderQuiet
<1>5. CASE FetchCommit(p) \/ DrainEnds(p) \/ PublishReturns(p) \/ PublishRefused(p)
  <2>1. /\ batch'[p] = batch[p] /\ outq'[p] = outq[p] /\ stage'[p] # "fetching"
        /\ locked'[p] = {}
    BY <1>1, <1>5 DEF FetchCommit, DrainEnds, PublishReturns, PublishRefused, RelayTypeOK,
       InOrderAt
  <2>2. InOrderAt(p)'
    BY <1>1, <1>2, <2>1 DEF InOrderAt, Before
  <2> QED
    BY <1>2, <1>3, <2>2, InOrderQuiet
<1>6. CASE Publish(p)
  <2>1. /\ batch'[p] = batch[p] /\ batch[p] # {} /\ outq[p] \in Seq(Rows)
        /\ outq'[p] = Append(outq[p], Row(p)) /\ stage'[p] # "fetching" /\ locked'[p] = {}
    BY <1>1, <1>6 DEF Publish, RelayTypeOK, InOrderAt
  <2>2. Row(p) \in batch[p] /\ Row(p) \in Rows /\ \A q \in batch[p] : Row(p) <= q
    BY <2>1, RowOfBatch
  <2>3. Range(outq'[p]) = Range(outq[p]) \cup {Row(p)}
    BY <2>1, <2>2, AppendFacts, SMT
  <2>4. Before(Row(p)) \subseteq Stored
    <3>1. \A q \in Before(Row(p)) : q \notin batch[p]
      BY <2>2, RelayAssumption, SMT DEF Before, Rows
    <3> QED
      BY <1>1, <2>2, <3>1 DEF InOrderAt
  <2>5. InOrderAt(p)'
    BY <1>1, <1>2, <2>1, <2>3, <2>4 DEF InOrderAt, Before
  <2> QED
    BY <1>2, <1>3, <2>5, InOrderQuiet
<1>7. CASE MarkPublished(p)
  <2>1. /\ batch'[p] = batch[p] \ {Row(p)} /\ outq'[p] = outq[p] /\ stage'[p] # "fetching"
        /\ locked'[p] = {} /\ stage[p] = "mark"
    BY <1>1, <1>7 DEF MarkPublished, RelayTypeOK, InOrderAt
  <2>2. Row(p) \in Stored
    BY <2>1 DEF StoredInv, StoredAt, CommittedAt
  <2>3. InOrderAt(p)'
    BY <1>1, <1>2, <2>1, <2>2 DEF InOrderAt, Before
  <2> QED
    BY <1>2, <1>3, <2>3, InOrderQuiet
<1>8. CASE MarkFailed(p) \/ DatabaseFails(p) \/ RelayCrash(p)
  <2>1. /\ batch'[p] = {}
        /\ outq'[p] = outq[p] \/ outq'[p] = <<>>
        /\ stage'[p] # "fetching" /\ locked'[p] = {}
    BY <1>1, <1>8 DEF MarkFailed, DatabaseFails, RelayCrash, RelayTypeOK, InOrderAt
  <2>2. Range(outq'[p]) \subseteq Range(outq[p])
    BY <2>1, RangeEmpty
  <2>3. \A r \in Range(outq'[p]) : Before(r) \subseteq Stored
    BY <1>1, <2>2 DEF InOrderAt
  <2>4. InOrderAt(p)'
    BY <1>2, <2>1, <2>3 DEF InOrderAt, Before
  <2> QED
    BY <1>2, <1>3, <2>4, InOrderQuiet
<1> QED
  BY <1>4, <1>5, <1>6, <1>7, <1>8 DEF DrainStep

\* The broker stores the one message that is waiting.
LEMMA InOrderBroker ==
  ASSUME OneRelay, OrderedInv, NEW p \in Relays, BrokerStores(p) \/ BrokerFails(p)
  PROVE  InOrderInv'
<1> USE DEF OrderedInv, RelayInv
<1>1. InOrderAt(p) /\ Stored \subseteq Stored'
  BY BrokerFacts DEF InOrderInv
<1>2. ASSUME NEW q \in Relays PROVE InOrderAt(q)'
  <2>1. q = p
    BY DEF OneRelay
  <2> QED
    BY <1>1, <2>1, BrokerFacts DEF InOrderAt, Before
<1>3. FirstPublishedInOrder'
  <2>1. CASE log' = log
    BY <2>1, SMT DEF InOrderInv, FirstPublishedInOrder
  <2>2. CASE log' = Append(log, Head(outq[p]))
    <3> DEFINE x == Head(outq[p])
    <3>1. x \in Rows /\ log \in Seq(Rows) /\ Before(x) \subseteq Range(log)
      BY <1>1, BrokerFacts DEF InOrderAt, RelayTypeOK, Stored
    <3> HIDE DEF x
    <3>2. /\ Len(log') = Len(log) + 1 /\ log'[Len(log) + 1] = x
          /\ \A i \in 1 .. Len(log) : log'[i] = log[i]
      BY <2>2, <3>1, AppendFacts, SMT DEF x
    <3>3. ASSUME NEW i \in 1 .. Len(log'), NEW r \in Rows, r < log'[i],
                 Aggregate[r] = Aggregate[log'[i]]
          PROVE  \E j \in 1 .. i : log'[j] = r
      <4>1. CASE i \in 1 .. Len(log)
        <5>1. PICK j \in 1 .. i : log[j] = r
          BY <3>2, <3>3, <4>1, SMT DEF InOrderInv, FirstPublishedInOrder
        <5>2. j \in 1 .. Len(log)
          BY <3>1, <4>1, SMT
        <5> QED
          BY <3>2, <5>1, <5>2
      <4>2. CASE i = Len(log) + 1
        <5>1. r \in Range(log)
          BY <3>1, <3>2, <3>3, <4>2 DEF Before
        <5>2. PICK j \in 1 .. Len(log) : log[j] = r
          BY <3>1, <5>1, SMT DEF Range
        <5>3. j \in 1 .. i
          BY <3>1, <4>2, SMT
        <5> QED
          BY <3>2, <5>2, <5>3
      <4> QED
        BY <3>1, <3>2, <4>1, <4>2, SMT
    <3> QED
      BY <3>3 DEF FirstPublishedInOrder
  <2> QED
    BY <2>1, <2>2, BrokerFacts
<1>4. status' = status
  BY BrokerFacts
<1> QED
  BY <1>2, <1>3, <1>4 DEF InOrderInv, Before

\* The events of one order reach the topics in the order in which they were
\* created, whatever fails, if one relay drains the outbox.
THEOREM PublishesInOrder ==
  ASSUME FailuresSeen, OneRelay
  PROVE  RelaySpec => []FirstPublishedInOrder
<1>1. ASSUME RelayInv, InOrderInv, RelayNext PROVE InOrderInv'
  BY <1>1, InOrderInsert, InOrderDrain, InOrderBroker DEF OrderedInv, RelayNext
<1>2. ASSUME InOrderInv, UNCHANGED relayVars PROVE InOrderInv'
  BY <1>2, SMT DEF InOrderInv, InOrderAt, FirstPublishedInOrder, Stored, Before, relayVars
<1>3. InOrderInv => FirstPublishedInOrder
  BY DEF InOrderInv
<1> QED
  BY <1>1, <1>2, <1>3, InOrderInit, RelayInvariance, PTL DEF RelaySpec

-----------------------------------------------------------------------------
(* Duplicates are faults.                                                  *)

\* A sequence has at most as many elements as it is long.
LEMMA RangeCount ==
  ASSUME NEW S, NEW s \in Seq(S)
  PROVE  /\ Range(s) \subseteq S /\ IsFiniteSet(Range(s))
         /\ Cardinality(Range(s)) \in Nat /\ Cardinality(Range(s)) <= Len(s)
         /\ Len(s) \in Nat
<1>1. Len(s) \in Nat /\ DOMAIN s = 1 .. Len(s) /\ Range(s) \subseteq S
  BY SMT DEF Range
<1>2. s \in Surjection(1 .. Len(s), Range(s))
  BY <1>1, SMT DEF Surjection, Range
<1>3. IsFiniteSet(1 .. Len(s)) /\ Cardinality(1 .. Len(s)) = Len(s)
  <2>1. 1 \in Int /\ Len(s) \in Int
    BY <1>1, SMT
  <2>2. /\ IsFiniteSet(1 .. Len(s))
        /\ Cardinality(1 .. Len(s)) = IF 1 > Len(s) THEN 0 ELSE Len(s) - 1 + 1
    BY <2>1, FS_Interval
  <2> QED
    BY <1>1, <2>2, SMT
<1>4. IsFiniteSet(Range(s)) /\ Cardinality(Range(s)) <= Cardinality(1 .. Len(s))
  BY <1>2, <1>3, FS_Surjection
<1>5. Cardinality(Range(s)) \in Nat
  BY <1>4, FS_CardinalityType
<1> QED
  BY <1>1, <1>3, <1>4, <1>5

\* A sequence that has as many elements as it is long has each of them once.
LEMMA NoneTwice ==
  ASSUME NEW S, NEW s \in Seq(S), Len(s) - Cardinality(Range(s)) <= 0
  PROVE  \A i, j \in 1 .. Len(s) : s[i] = s[j] => i = j
<1>1. Cardinality(Range(s)) \in Nat /\ Cardinality(Range(s)) <= Len(s) /\ Len(s) \in Nat
  BY RangeCount
<1>2. IsFiniteSet(1 .. Len(s)) /\ Cardinality(1 .. Len(s)) = Cardinality(Range(s))
  <2>1. 1 \in Int /\ Len(s) \in Int
    BY <1>1, SMT
  <2>2. /\ IsFiniteSet(1 .. Len(s))
        /\ Cardinality(1 .. Len(s)) = IF 1 > Len(s) THEN 0 ELSE Len(s) - 1 + 1
    BY <2>1, FS_Interval
  <2> QED
    BY <1>1, <2>2, SMT
<1>3. s \in Surjection(1 .. Len(s), Range(s))
  BY SMT DEF Surjection, Range
<1>4. s \in Injection(1 .. Len(s), Range(s))
  BY <1>2, <1>3, FS_SurjSameCardinalityImpliesInj
<1> QED
  BY <1>4 DEF Injection, IsInjective

\* What is stored and what is queued can be counted.
LEMMA SentCount ==
  ASSUME NEW l \in Seq(Rows), NEW o \in Seq(Rows), NEW A \in SUBSET (Range(l) \cup Range(o))
  PROVE  /\ IsFiniteSet(Range(l) \cup Range(o)) /\ Range(l) \cup Range(o) \subseteq Rows
         /\ Cardinality(Range(l) \cup Range(o)) \in Nat
         /\ Cardinality(Range(l) \cup Range(o)) <= Cardinality(Range(l)) + Len(o)
         /\ IsFiniteSet(A) /\ Cardinality(A) \in Nat
         /\ IsFiniteSet(Range(l)) /\ Cardinality(Range(l)) \in Nat
         /\ Len(l) \in Nat /\ Len(o) \in Nat
<1>1. /\ IsFiniteSet(Range(l)) /\ Cardinality(Range(l)) \in Nat /\ Len(l) \in Nat
      /\ IsFiniteSet(Range(o)) /\ Cardinality(Range(o)) \in Nat /\ Len(o) \in Nat
      /\ Cardinality(Range(o)) <= Len(o)
      /\ Range(l) \subseteq Rows /\ Range(o) \subseteq Rows
  BY RangeCount
<1>2. /\ IsFiniteSet(Range(l) \cup Range(o))
      /\ Cardinality(Range(l) \cup Range(o)) =
           Cardinality(Range(l)) + Cardinality(Range(o)) - Cardinality(Range(l) \cap Range(o))
  BY <1>1, FS_Union
<1>3. IsFiniteSet(Range(l) \cap Range(o)) /\ Cardinality(Range(l) \cap Range(o)) \in Nat
  BY <1>1, FS_Intersection, FS_CardinalityType
<1>4. /\ Cardinality(Range(l) \cup Range(o)) \in Nat
      /\ Cardinality(Range(l) \cup Range(o)) <= Cardinality(Range(l)) + Len(o)
  <2>1. Cardinality(Range(l) \cup Range(o)) \in Nat
    BY <1>2, FS_CardinalityType
  <2> QED
    BY <1>1, <1>2, <1>3, <2>1, SMT
<1>5. IsFiniteSet(A) /\ Cardinality(A) \in Nat
  BY <1>2, FS_Subset, FS_CardinalityType
<1> QED
  BY <1>1, <1>2, <1>4, <1>5

\* One element more, at most, is one more to count.
LEMMA OneMore ==
  ASSUME NEW A, NEW B, NEW x, IsFiniteSet(A), B \subseteq A \cup {x}
  PROVE  IsFiniteSet(B) /\ Cardinality(B) <= Cardinality(A) + 1
<1>1. /\ IsFiniteSet(A \cup {x})
      /\ Cardinality(A \cup {x}) = IF x \in A THEN Cardinality(A) ELSE Cardinality(A) + 1
  BY FS_AddElement
<1>2. B \in SUBSET (A \cup {x})
  OBVIOUS
<1>3. IsFiniteSet(B) /\ Cardinality(B) <= Cardinality(A \cup {x})
  BY <1>1, <1>2, FS_Subset
<1>4. Cardinality(A) \in Nat /\ Cardinality(B) \in Nat
  BY <1>3, FS_CardinalityType
<1> QED
  BY <1>1, <1>3, <1>4, SMT

\* DuplicatesAt in numbers: l messages stored and o queued, a rows to be sent
\* again, s rows sent and f faults.
Paid(l, o, a, s, f) == {l, o, a, s, f} \subseteq Nat /\ l + o + a <= s + f

\* Nothing is sent, and no more is to be sent again.
LEMMA PaidQuiet ==
  ASSUME NEW l, NEW o, NEW a, NEW s, NEW f, Paid(l, o, a, s, f),
         NEW b \in Nat, NEW g \in Nat, b <= a, f <= g
  PROVE  Paid(l, o, b, s, g)
BY SMT DEF Paid

\* A message is queued: that of a new row, or one that had to be sent again.
LEMMA PaidQueued ==
  ASSUME NEW l, NEW o, NEW a, NEW s, NEW f, Paid(l, o, a, s, f),
         NEW b \in Nat, NEW t \in Nat, b + s + 1 <= a + t
  PROVE  Paid(l, o + 1, b, t, f)
BY SMT DEF Paid

\* A queued message is stored.
LEMMA PaidStored ==
  ASSUME NEW l, NEW o \in Nat, NEW a, NEW s, NEW f, Paid(l, o + 1, a, s, f),
         NEW b \in Nat, NEW g \in Nat, b + f <= a + g
  PROVE  Paid(l + 1, o, b, s, g)
BY SMT DEF Paid

\* A fault loses queued messages, if any, and one more is to be sent again.
LEMMA PaidFault ==
  ASSUME NEW l, NEW o, NEW a, NEW s, NEW f, Paid(l, o, a, s, f),
         NEW q \in Nat, NEW b \in Nat, NEW t \in Nat, b <= a + 1, s + q <= t + o
  PROVE  Paid(l, q, b, t, f + 1)
BY SMT DEF Paid

\* What of p's state can be counted.
Counts(p) ==
  /\ IsFiniteSet(Sent(p)) /\ Sent(p) \subseteq Rows /\ Cardinality(Sent(p)) \in Nat
  /\ Cardinality(Sent(p)) <= Cardinality(Stored) + Len(outq[p])
  /\ IsFiniteSet(Again(p)) /\ Cardinality(Again(p)) \in Nat
  /\ IsFiniteSet(Stored) /\ Cardinality(Stored) \in Nat
  /\ Len(log) \in Nat /\ Len(outq[p]) \in Nat /\ faults \in Nat

PaidAt(p) ==
  Paid(Len(log), Len(outq[p]), Cardinality(Again(p)), Cardinality(Sent(p)), faults)

\* The numbers in DuplicatesAt are numbers, before a step and after it.
LEMMA CountsHold ==
  ASSUME NEW p \in Relays
  PROVE  /\ RelayTypeOK => Counts(p)
         /\ RelayTypeOK' => Counts(p)'
<1>1. ASSUME RelayTypeOK PROVE Counts(p)
  <2>1. log \in Seq(Rows) /\ outq[p] \in Seq(Rows)
    BY <1>1 DEF RelayTypeOK
  <2>2. Again(p) \in SUBSET (Range(log) \cup Range(outq[p]))
    BY DEF Again, Sent, Stored
  <2>3. faults \in Nat
    BY <1>1, RelayAssumption, SMT DEF RelayTypeOK
  <2> QED
    BY <2>1, <2>2, <2>3, SentCount DEF Counts, Sent, Stored
<1>2. ASSUME RelayTypeOK' PROVE Counts(p)'
  <2>1. log' \in Seq(Rows) /\ outq'[p] \in Seq(Rows)
    BY <1>2 DEF RelayTypeOK
  <2>2. Again(p)' \in SUBSET (Range(log') \cup Range(outq'[p]))
    BY DEF Again, Sent, Stored
  <2>3. faults' \in Nat
    BY <1>2, RelayAssumption, SMT DEF RelayTypeOK
  <2> QED
    BY <2>1, <2>2, <2>3, SentCount DEF Counts, Sent, Stored
<1> QED
  BY <1>1, <1>2


\* DuplicatesAt before a step, in numbers.
LEMMA PaidBefore ==
  ASSUME RelayTypeOK, DuplicatesInv, NEW p \in Relays
  PROVE  /\ Counts(p) /\ PaidAt(p)
         /\ \A r \in batch[p] : r \in Rows /\ status[r] = "PENDING"
         /\ \A r \in Sent(p) : r \in Rows /\ status[r] # "NONE"
<1>1. Counts(p) /\ DuplicatesAt(p)
  BY CountsHold DEF DuplicatesInv
<1>2. PaidAt(p)
  BY <1>1 DEF Counts, DuplicatesAt, PaidAt, Paid
<1> QED
  BY <1>1, <1>2 DEF Counts, DuplicatesAt, RelayTypeOK

\* With one relay, what is shown for p after a step is the whole invariant.
LEMMA PaidAfter ==
  ASSUME OneRelay, NEW p \in Relays, PaidAt(p)',
         \A r \in batch'[p] : status'[r] = "PENDING",
         \A r \in Sent(p)' : status'[r] # "NONE"
  PROVE  DuplicatesInv'
<1>1. DuplicatesAt(p)'
  BY DEF PaidAt, Paid, DuplicatesAt
<1> QED
  BY <1>1 DEF OneRelay, DuplicatesInv

\* A step that sends nothing and after which no more rows will be sent again.
LEMMA DuplicatesQuiet ==
  ASSUME OneRelay, RelayTypeOK, RelayTypeOK', DuplicatesInv, NEW p \in Relays,
         log' = log, outq'[p] = outq[p], faults' = faults \/ faults' = faults + 1,
         \A r \in Rows : status[r] # "NONE" => status'[r] # "NONE",
         \A r \in batch'[p] : status'[r] = "PENDING",
         Again(p)' \subseteq Again(p)
  PROVE  DuplicatesInv'
<1>1. Counts(p) /\ Counts(p)' /\ PaidAt(p)
  BY CountsHold, PaidBefore
<1>2. Sent(p)' = Sent(p)
  BY DEF Sent, Stored
<1>3. Cardinality(Again(p))' <= Cardinality(Again(p)) /\ Cardinality(Again(p))' \in Nat
  BY <1>1, FS_Subset DEF Counts
<1>4. faults <= faults' /\ faults' \in Nat
  <2>1. faults \in Nat
    BY <1>1 DEF Counts
  <2> QED
    BY <2>1, SMT
<1>5. Paid(Len(log), Len(outq[p]), Cardinality(Again(p))', Cardinality(Sent(p)), faults')
  BY <1>1, <1>3, <1>4, PaidQuiet DEF PaidAt
<1>6. PaidAt(p)'
  BY <1>2, <1>5 DEF PaidAt
<1>7. \A r \in Sent(p)' : status'[r] # "NONE"
  BY <1>2, PaidBefore
<1> QED
  BY <1>6, <1>7, PaidAfter

\* A fault that sends nothing: one row more may have to be sent again.
LEMMA DuplicatesFault ==
  ASSUME OneRelay, RelayTypeOK, RelayTypeOK', DuplicatesInv, NEW p \in Relays,
         log' = log, faults' = faults + 1,
         Len(outq'[p]) + Cardinality(Sent(p)) <= Len(outq[p]) + Cardinality(Sent(p))',
         Sent(p)' \subseteq Sent(p),
         \A r \in Rows : status[r] # "NONE" => status'[r] # "NONE",
         \A r \in batch'[p] : status'[r] = "PENDING",
         Again(p)' \subseteq Again(p) \cup {Row(p)}
  PROVE  DuplicatesInv'
<1>1. Counts(p) /\ Counts(p)' /\ PaidAt(p)
  BY CountsHold, PaidBefore
<1>2. Cardinality(Again(p))' <= Cardinality(Again(p)) + 1
  BY <1>1, OneMore DEF Counts
<1>3. /\ Cardinality(Again(p))' \in Nat /\ Cardinality(Sent(p))' \in Nat
      /\ Len(outq'[p]) \in Nat
  BY <1>1 DEF Counts
<1>4. Cardinality(Sent(p)) + Len(outq'[p]) <= Cardinality(Sent(p))' + Len(outq[p])
  BY <1>1, SMT DEF Counts
<1>5. Paid(Len(log), Len(outq'[p]), Cardinality(Again(p))', Cardinality(Sent(p))', faults + 1)
  BY <1>1, <1>2, <1>3, <1>4, PaidFault DEF PaidAt
<1>6. PaidAt(p)'
  BY <1>5 DEF PaidAt
<1>7. \A r \in Sent(p)' : status'[r] # "NONE"
  BY PaidBefore
<1> QED
  BY <1>6, <1>7, PaidAfter

\* A row is inserted before anything is sent of it.
LEMMA DuplicatesInsert ==
  ASSUME RelayTypeOK, DuplicatesInv, NEW r \in Rows, InsertRow(r)
  PROVE  DuplicatesInv'
<1>1. SUFFICES ASSUME NEW p \in Relays PROVE DuplicatesAt(p)'
  BY DEF DuplicatesInv
<1>2. DuplicatesAt(p) /\ Counts(p)
  BY CountsHold DEF DuplicatesInv
<1>3. Sent(p)' = Sent(p) /\ Settling(p)' = Settling(p) /\ Row(p)' = Row(p)
  BY DEF InsertRow, Sent, Stored, Settling, PublishOk, Row
<1>4. \A q \in Rows : q # r => status'[q] = status[q]
  BY DEF InsertRow, RelayTypeOK
<1>5. /\ r \notin Sent(p) /\ r \notin batch[p]
      /\ Sent(p) \subseteq Rows /\ batch[p] \subseteq Rows
  BY <1>2 DEF InsertRow, DuplicatesAt, Counts, RelayTypeOK
<1>6. Again(p)' = Again(p)
  BY <1>3, <1>4, <1>5 DEF Again
<1>7. /\ \A q \in batch'[p] : status'[q] = "PENDING"
      /\ \A q \in Sent(p)' : status'[q] # "NONE"
  BY <1>2, <1>3, <1>4, <1>5 DEF DuplicatesAt, InsertRow
<1>8. log' = log /\ outq' = outq /\ faults' = faults
  BY DEF InsertRow
<1> QED
  BY <1>2, <1>3, <1>6, <1>7, <1>8 DEF DuplicatesAt

\* Fetching, ending a drain, giving up a row and marking it send nothing.  A
\* row given up has to be sent again already, one marked has not.
LEMMA DuplicatesDrain ==
  ASSUME OneRelay, RelayTypeOK, RelayTypeOK', DuplicatesInv, NEW p \in Relays,
         \/ FetchPending(p) \/ FetchCommit(p) \/ DrainEnds(p)
         \/ MarkFailed(p) \/ MarkPublished(p) \/ PublishRefused(p)
  PROVE  DuplicatesInv'
<1>1. DuplicatesAt(p) /\ Counts(p)
  BY CountsHold DEF DuplicatesInv
<1>2. log' = log /\ outq' = outq /\ Sent(p)' = Sent(p)
  BY DEF FetchPending, FetchCommit, DrainEnds, MarkFailed, MarkPublished, PublishRefused,
     Sent, Stored
<1>3. CASE MarkPublished(p)
  <2>1. /\ stage[p] = "mark" /\ stage'[p] = "publish" /\ status' = Marked(p)
        /\ batch'[p] = batch[p] \ {Row(p)} /\ faults' = faults
    BY <1>3 DEF MarkPublished, RelayTypeOK
  <2>2. \A r \in Rows : status'[r] = IF r = Row(p) THEN "PUBLISHED" ELSE status[r]
    BY <2>1, MarkedFacts
  <2>3. Again(p)' \subseteq Again(p)
    <3>1. ASSUME NEW r \in Again(p)' PROVE r \in Again(p)
      <4>1. r \in Sent(p) /\ status'[r] = "PENDING"
        BY <1>2 DEF Again
      <4>2. r \in Rows
        BY <1>1, <4>1 DEF Counts
      <4>3. r # Row(p) /\ status[r] = "PENDING"
        BY <2>2, <4>1, <4>2
      <4> QED
        BY <4>1, <4>3 DEF Again
    <3> QED
      BY <3>1
  <2>4. \A r \in batch'[p] : status'[r] = "PENDING"
    BY <1>1, <2>1, <2>2 DEF DuplicatesAt, RelayTypeOK
  <2>5. \A r \in Rows : status[r] # "NONE" => status'[r] # "NONE"
    BY <2>2
  <2> QED
    BY <1>2, <2>1, <2>3, <2>4, <2>5, DuplicatesQuiet
<1>4. CASE ~ MarkPublished(p)
  <2>1. status' = status /\ stage[p] \notin {"mark", "wait"}
    BY <1>4 DEF FetchPending, FetchCommit, DrainEnds, MarkFailed, PublishRefused
  <2>2. Again(p)' \subseteq Again(p)
    BY <1>2, <2>1 DEF Again, Settling
  <2>3. \A r \in batch'[p] : status'[r] = "PENDING"
    <3>1. batch'[p] \in {Selected, batch[p], {}}
      BY <1>4 DEF FetchPending, FetchCommit, DrainEnds, MarkFailed, PublishRefused, RelayTypeOK
    <3> QED
      BY <1>1, <2>1, <3>1 DEF DuplicatesAt, Selected, Selectable
  <2>4. faults' = faults \/ faults' = faults + 1
    BY <1>4 DEF FetchPending, FetchCommit, DrainEnds, MarkFailed, PublishRefused, Fault
  <2> QED
    BY <1>2, <2>1, <2>2, <2>3, <2>4, DuplicatesQuiet
<1> QED
  BY <1>3, <1>4

\* Publish queues the row it deals with: a row not sent before, or one that had
\* to be sent again.
LEMMA DuplicatesPublish ==
  ASSUME OneRelay, RelayTypeOK, RelayTypeOK', DuplicatesInv, NEW p \in Relays, Publish(p)
  PROVE  DuplicatesInv'
<1>1. Counts(p) /\ Counts(p)' /\ PaidAt(p)
  BY CountsHold, PaidBefore
<1>2. /\ stage[p] = "publish" /\ stage'[p] = "wait" /\ batch' = batch /\ batch[p] # {}
      /\ log' = log /\ status' = status /\ faults' = faults
      /\ outq'[p] = Append(outq[p], Row(p)) /\ Row(p)' = Row(p)
  BY DEF Publish, RelayTypeOK, Row
<1>3. Row(p) \in batch[p] /\ Row(p) \in Rows /\ status[Row(p)] = "PENDING"
  BY <1>2, RowOfBatch, PaidBefore
<1>4. /\ outq'[p] # <<>> /\ Len(outq'[p]) = Len(outq[p]) + 1
      /\ Range(outq'[p]) = Range(outq[p]) \cup {Row(p)}
  <2>1. outq[p] \in Seq(Rows)
    BY DEF RelayTypeOK
  <2>2. /\ Append(outq[p], Row(p)) # <<>>
        /\ Len(Append(outq[p], Row(p))) = Len(outq[p]) + 1
        /\ Range(Append(outq[p], Row(p))) = Range(outq[p]) \cup {Row(p)}
    BY <1>3, <2>1, AppendFacts, SMT
  <2>3. outq'[p] = Append(outq[p], Row(p))
    BY <1>2
  <2> QED
    BY <2>2, <2>3
<1>5. Sent(p)' = Sent(p) \cup {Row(p)}
  BY <1>2, <1>4 DEF Sent, Stored
<1>6. Again(p)' = Again(p) \ {Row(p)}
  <2>1. ~ Settling(p) /\ Settling(p)'
    BY <1>2, <1>4 DEF Settling
  <2> QED
    BY <1>2, <1>5, <2>1 DEF Again
<1>7. Cardinality(Again(p))' + Cardinality(Sent(p)) + 1 <= Cardinality(Again(p)) + Cardinality(Sent(p))'
  <2>1. CASE Row(p) \in Sent(p)
    <3>1. Sent(p)' = Sent(p)
      BY <1>5, <2>1
    <3>2. Row(p) \in Again(p)
      BY <1>2, <1>3, <2>1 DEF Again, Settling
    <3>3. Cardinality(Again(p))' = Cardinality(Again(p)) - 1
      <4>1. Cardinality(Again(p) \ {Row(p)}) = Cardinality(Again(p)) - 1
        BY <1>1, <3>2, FS_RemoveElement DEF Counts
      <4> QED
        BY <1>6, <4>1
    <3> QED
      BY <1>1, <3>1, <3>3, SMT DEF Counts
  <2>2. CASE Row(p) \notin Sent(p)
    <3>1. Cardinality(Sent(p))' = Cardinality(Sent(p)) + 1
      BY <1>1, <1>5, <2>2, FS_AddElement DEF Counts
    <3>2. Again(p)' = Again(p)
      BY <1>6, <2>2 DEF Again
    <3> QED
      BY <1>1, <3>1, <3>2, SMT DEF Counts
  <2> QED
    BY <2>1, <2>2
<1>8. PaidAt(p)'
  <2>1. Cardinality(Again(p))' \in Nat /\ Cardinality(Sent(p))' \in Nat
    BY <1>1 DEF Counts
  <2>2. Paid(Len(log), Len(outq[p]) + 1, Cardinality(Again(p))', Cardinality(Sent(p))', faults)
    BY <1>1, <1>7, <2>1, PaidQueued DEF PaidAt
  <2> QED
    BY <1>2, <1>4, <2>2 DEF PaidAt
<1>9. /\ \A r \in batch'[p] : status'[r] = "PENDING"
      /\ \A r \in Sent(p)' : status'[r] # "NONE"
  BY <1>2, <1>3, <1>5, PaidBefore
<1> QED
  BY <1>8, <1>9, PaidAfter
\* Publish returns: p goes on to the row's mark, or gives it up.  When it was
\* not to be marked it had to be sent again already; a flush that times out is
\* a fault.
LEMMA DuplicatesReturns ==
  ASSUME OneRelay, RelayTypeOK, RelayTypeOK', DuplicatesInv, NEW p \in Relays, PublishReturns(p)
  PROVE  DuplicatesInv'
<1>1. /\ log' = log /\ outq' = outq /\ status' = status /\ batch' = batch
      /\ producer' = producer /\ report' = report /\ stage[p] = "wait"
      /\ stage'[p] = IF PublishOk(p) THEN "mark" ELSE "failed"
  BY DEF PublishReturns, RelayTypeOK
<1>2. Row(p)' = Row(p) /\ Sent(p)' = Sent(p)
  BY <1>1 DEF Row, Sent, Stored
<1>3. \A r \in batch'[p] : status'[r] = "PENDING"
  BY <1>1, PaidBefore
<1>4. CASE outq[p] = <<>> /\ UNCHANGED faults
  <2>1. Settling(p)' = Settling(p)
    BY <1>1, <1>4 DEF Settling
  <2>2. Again(p)' \subseteq Again(p)
    BY <1>1, <1>2, <2>1 DEF Again
  <2> QED
    BY <1>1, <1>3, <1>4, <2>2, DuplicatesQuiet
<1>5. CASE Fault("timeout")
  <2>1. Again(p)' \subseteq Again(p) \cup {Row(p)}
    BY <1>1, <1>2 DEF Again
  <2>2. faults' = faults + 1
    BY <1>5 DEF Fault
  <2>3. Len(outq'[p]) + Cardinality(Sent(p)) <= Len(outq[p]) + Cardinality(Sent(p))'
    BY <1>1, <1>2, CountsHold, SMT DEF Counts
  <2> QED
    BY <1>1, <1>2, <1>3, <2>1, <2>2, <2>3, DuplicatesFault
<1> QED
  BY <1>4, <1>5 DEF PublishReturns

\* The queue of p gives its oldest message to the broker.
LEMMA QueueShrinks ==
  ASSUME RelayTypeOK, NEW p \in Relays, BrokerStores(p) \/ BrokerFails(p)
  PROVE  /\ Range(outq[p]) = Range(outq'[p]) \cup {Head(outq[p])}
         /\ Len(outq[p]) = Len(outq'[p]) + 1
<1>1. outq[p] \in Seq(Rows) /\ outq[p] # <<>> /\ outq'[p] = Tail(outq[p])
  BY BrokerFacts DEF RelayTypeOK
<1>2. /\ Range(outq[p]) = Range(Tail(outq[p])) \cup {Head(outq[p])}
      /\ Len(outq[p]) = Len(Tail(outq[p])) + 1
  BY <1>1, TailFacts, SMT
<1> QED
  BY <1>1, <1>2, SMT

\* A message is stored: it was counted when it was queued.
LEMMA DuplicatesStored ==
  ASSUME OneRelay, RelayTypeOK, RelayTypeOK', DuplicatesInv, NEW p \in Relays,
         BrokerStores(p) \/ BrokerFails(p), log' = Append(log, Head(outq[p]))
  PROVE  DuplicatesInv'
<1>1. Counts(p) /\ Counts(p)' /\ PaidAt(p)
  BY CountsHold, PaidBefore
<1>2. UNCHANGED <<producer, status, batch, stage>> /\ Row(p)' = Row(p)
  BY BrokerFacts DEF Row
<1>3. Len(log') = Len(log) + 1 /\ Stored' = Stored \cup {Head(outq[p])}
  <2>1. log \in Seq(Rows) /\ Head(outq[p]) \in Rows
    BY BrokerFacts DEF RelayTypeOK
  <2>2. /\ Len(Append(log, Head(outq[p]))) = Len(log) + 1
        /\ Range(Append(log, Head(outq[p]))) = Range(log) \cup {Head(outq[p])}
    BY <2>1, AppendFacts, SMT
  <2> QED
    BY <2>2 DEF Stored
<1>4. Sent(p)' = Sent(p)
  BY <1>3, QueueShrinks DEF Sent
<1>5. Cardinality(Again(p))' + faults <= Cardinality(Again(p)) + faults'
  <2>1. CASE BrokerStores(p)
    <3>1. faults' = faults
      BY <2>1 DEF BrokerStores
    <3>2. outq[p] # <<>> /\ (outq'[p] = <<>> => report'[p] = "ok")
      BY <2>1 DEF BrokerStores, Reported, RelayTypeOK
    <3>3. Settling(p)' = Settling(p)
      BY <1>2, <3>2 DEF Settling, PublishOk
    <3>4. Again(p)' = Again(p)
      BY <1>2, <1>4, <3>3 DEF Again
    <3> QED
      BY <1>1, <3>1, <3>4, SMT DEF Counts
  <2>2. CASE BrokerFails(p)
    <3>1. faults' = faults + 1
      BY <2>2 DEF BrokerFails, Fault
    <3>2. Again(p)' \subseteq Again(p) \cup {Row(p)}
      BY <1>2, <1>4 DEF Again
    <3>3. Cardinality(Again(p))' <= Cardinality(Again(p)) + 1
      BY <1>1, <3>2, OneMore DEF Counts
    <3>4. faults \in Nat /\ Cardinality(Again(p)) \in Nat /\ Cardinality(Again(p))' \in Nat
      BY <1>1 DEF Counts
    <3> QED
      BY <3>1, <3>3, <3>4, SMT
  <2> QED
    BY <2>1, <2>2
<1>6. PaidAt(p)'
  <2>1. Len(outq'[p]) \in Nat /\ Cardinality(Again(p))' \in Nat /\ faults' \in Nat
    BY <1>1 DEF Counts
  <2>2. Len(outq[p]) = Len(outq'[p]) + 1
    BY QueueShrinks
  <2>3. Paid(Len(log), Len(outq'[p]) + 1, Cardinality(Again(p)), Cardinality(Sent(p)), faults)
    BY <1>1, <2>2 DEF PaidAt
  <2>4. Paid(Len(log) + 1, Len(outq'[p]), Cardinality(Again(p))', Cardinality(Sent(p)), faults')
    BY <1>5, <2>1, <2>3, PaidStored
  <2> QED
    BY <1>3, <1>4, <2>4 DEF PaidAt
<1>7. /\ \A r \in batch'[p] : status'[r] = "PENDING"
      /\ \A r \in Sent(p)' : status'[r] # "NONE"
  BY <1>2, <1>4, PaidBefore
<1> QED
  BY <1>6, <1>7, PaidAfter

\* A delivery that fails loses the message, which was counted as sent, and the
\* row waited for may have to be sent again.
LEMMA DuplicatesLost ==
  ASSUME OneRelay, RelayTypeOK, RelayTypeOK', DuplicatesInv, NEW p \in Relays,
         BrokerFails(p), log' = log
  PROVE  DuplicatesInv'
<1>1. Counts(p) /\ Counts(p)'
  BY CountsHold
<1>2. UNCHANGED <<status, batch>> /\ faults' = faults + 1
  BY DEF BrokerFails, Fault
<1>3. Sent(p)' \subseteq Sent(p) /\ Sent(p) \subseteq Sent(p)' \cup {Head(outq[p])}
  BY QueueShrinks DEF Sent, Stored
<1>4. Again(p)' \subseteq Again(p) \cup {Row(p)}
  BY <1>2, <1>3 DEF Again
<1>5. Len(outq'[p]) + Cardinality(Sent(p)) <= Len(outq[p]) + Cardinality(Sent(p))'
  <2>1. Cardinality(Sent(p)) <= Cardinality(Sent(p))' + 1
    BY <1>1, <1>3, OneMore DEF Counts
  <2>2. /\ Cardinality(Sent(p)) \in Nat /\ Cardinality(Sent(p))' \in Nat
        /\ Len(outq'[p]) \in Nat /\ Len(outq[p]) = Len(outq'[p]) + 1
    BY <1>1, QueueShrinks DEF Counts
  <2> QED
    BY <2>1, <2>2, SMT
<1>6. \A r \in batch'[p] : status'[r] = "PENDING"
  BY <1>2, PaidBefore
<1> QED
  BY <1>2, <1>3, <1>4, <1>5, <1>6, DuplicatesFault

\* A statement that fails and a crash end the drain with its row unmarked, or
\* marked without p's knowing; a crash also loses what is queued.
LEMMA DuplicatesAborted ==
  ASSUME OneRelay, RelayTypeOK, RelayTypeOK', DuplicatesInv, NEW p \in Relays,
         DatabaseFails(p) \/ RelayCrash(p)
  PROVE  DuplicatesInv'
<1>1. Counts(p) /\ Counts(p)'
  BY CountsHold
<1>2. log' = log /\ Stored' = Stored /\ faults' = faults + 1 /\ batch'[p] = {}
  BY DEF DatabaseFails, RelayCrash, Fault, RelayTypeOK, Stored
<1>3. \A r \in Rows : status'[r] = status[r] \/ status'[r] = "PUBLISHED"
  <2>1. status' = status \/ status' = Marked(p)
    BY DEF DatabaseFails, RelayCrash
  <2> QED
    BY <2>1, MarkedFacts
<1>4. outq'[p] = outq[p] \/ outq'[p] = <<>>
  BY DEF DatabaseFails, RelayCrash, RelayTypeOK
<1>5. Sent(p)' \subseteq Sent(p) /\ Sent(p) \subseteq Rows
  BY <1>1, <1>2, <1>4, RangeEmpty DEF Sent, Counts
<1>6. Again(p)' \subseteq Again(p) \cup {Row(p)}
  BY <1>3, <1>5 DEF Again
<1>7. Len(outq'[p]) + Cardinality(Sent(p)) <= Len(outq[p]) + Cardinality(Sent(p))'
  <2>1. /\ Cardinality(Sent(p)) \in Nat /\ Cardinality(Sent(p))' \in Nat
        /\ Cardinality(Stored) \in Nat /\ Len(outq'[p]) \in Nat /\ Len(outq[p]) \in Nat
        /\ Cardinality(Sent(p)) <= Cardinality(Stored) + Len(outq[p])
    BY <1>1 DEF Counts
  <2>2. CASE outq'[p] = outq[p]
    <3>1. Sent(p)' = Sent(p)
      BY <1>2, <2>2 DEF Sent
    <3> QED
      BY <2>1, <2>2, <3>1, SMT
  <2>3. CASE outq'[p] = <<>>
    <3>1. Sent(p)' = Stored
      BY <1>2, <2>3, RangeEmpty DEF Sent
    <3>2. Len(outq'[p]) = 0
      BY <2>3, SMT
    <3>3. Cardinality(Sent(p))' = Cardinality(Stored)
      BY <3>1
    <3> QED
      BY <2>1, <3>2, <3>3, SMT
  <2> QED
    BY <1>4, <2>2, <2>3
<1>8. /\ \A r \in Rows : status[r] # "NONE" => status'[r] # "NONE"
      /\ \A r \in batch'[p] : status'[r] = "PENDING"
  BY <1>2, <1>3
<1> QED
  BY <1>2, <1>5, <1>6, <1>7, <1>8, DuplicatesFault
\* At first nothing is sent.
LEMMA DuplicatesInit == RelayInit => DuplicatesInv
<1> SUFFICES ASSUME RelayInit, NEW p \in Relays PROVE DuplicatesAt(p)
  BY DEF DuplicatesInv
<1>1. log = <<>> /\ outq[p] = <<>> /\ batch[p] = {} /\ faults = 0
  BY DEF RelayInit
<1>2. Sent(p) = {} /\ Again(p) = {}
  BY <1>1, RangeEmpty DEF Sent, Stored, Again
<1>3. Cardinality({}) = 0 /\ Len(log) = 0 /\ Len(outq[p]) = 0
  BY <1>1, FS_EmptySet, SMT
<1>4. Len(log) + Len(outq[p]) + Cardinality(Again(p)) <= Cardinality(Sent(p)) + faults
  BY <1>1, <1>2, <1>3, SMT
<1> QED
  BY <1>1, <1>2, <1>4 DEF DuplicatesAt

\* No duplicate without a fault, and at most one for each.
LEMMA DuplicatesBounded ==
  ASSUME RelayTypeOK, DuplicatesInv, Relays = {} => log = <<>>
  PROVE  DuplicatesAreFaults
<1>1. CASE Relays = {}
  <2>1. Range(log) = {} /\ Cardinality({}) = 0 /\ Len(log) = 0 /\ faults \in Nat
    BY <1>1, RangeEmpty, FS_EmptySet, RelayAssumption, SMT DEF RelayTypeOK
  <2> QED
    BY <2>1, SMT DEF DuplicatesAreFaults
<1>2. CASE Relays # {}
  <2>1. PICK p \in Relays : TRUE
    BY <1>2
  <2>2. Counts(p) /\ DuplicatesAt(p)
    BY CountsHold DEF DuplicatesInv
  <2>3. /\ Cardinality(Sent(p)) \in Nat /\ Cardinality(Again(p)) \in Nat
        /\ Cardinality(Range(log)) \in Nat /\ faults \in Nat
        /\ Len(log) \in Nat /\ Len(outq[p]) \in Nat
        /\ Cardinality(Sent(p)) <= Cardinality(Range(log)) + Len(outq[p])
        /\ Len(log) + Len(outq[p]) + Cardinality(Again(p)) <= Cardinality(Sent(p)) + faults
    BY <2>2 DEF Counts, DuplicatesAt, Stored
  <2> QED
    BY <2>3, SMT DEF DuplicatesAreFaults
<1> QED
  BY <1>1, <1>2

(***************************************************************************)
(* With one relay, every duplicate in the topics is due to a fault of its  *)
(* own, whichever producer is used: no row is published again because of   *)
(* the way drains, reports and marks interleave.                           *)
(***************************************************************************)
THEOREM DuplicatesHaveCauses ==
  ASSUME OneRelay
  PROVE  RelaySpec => []DuplicatesAreFaults
<1> DEFINE Inv == RelayTypeOK /\ DuplicatesInv /\ (Relays = {} => log = <<>>)
<1>1. RelayInit => Inv
  BY RelayInitType, DuplicatesInit DEF RelayInit
<1>2. ASSUME Inv, RelayNext PROVE Inv'
  <2>1. RelayTypeOK'
    BY <1>2, RelayTypeStep
  <2>2. ASSUME NEW r \in Rows, InsertRow(r) PROVE DuplicatesInv' /\ log' = log
    BY <1>2, <2>2, DuplicatesInsert DEF InsertRow
  <2>3. ASSUME NEW p \in Relays,
               \/ DrainStep(p) \/ BrokerStores(p) \/ BrokerFails(p)
               \/ PublishRefused(p) \/ DatabaseFails(p) \/ RelayCrash(p)
        PROVE  DuplicatesInv'
    <3>1. CASE \/ FetchPending(p) \/ FetchCommit(p) \/ DrainEnds(p)
               \/ MarkFailed(p) \/ MarkPublished(p) \/ PublishRefused(p)
      BY <1>2, <2>1, <3>1, DuplicatesDrain
    <3>2. CASE Publish(p)
      BY <1>2, <2>1, <3>2, DuplicatesPublish
    <3>3. CASE PublishReturns(p)
      BY <1>2, <2>1, <3>3, DuplicatesReturns
    <3>4. CASE BrokerStores(p)
      BY <1>2, <2>1, <3>4, DuplicatesStored DEF BrokerStores
    <3>5. CASE BrokerFails(p)
      BY <1>2, <2>1, <3>5, DuplicatesStored, DuplicatesLost DEF BrokerFails
    <3>6. CASE DatabaseFails(p) \/ RelayCrash(p)
      BY <1>2, <2>1, <3>6, DuplicatesAborted
    <3> QED
      BY <2>3, <3>1, <3>2, <3>3, <3>4, <3>5, <3>6 DEF DrainStep
  <2> QED
    BY <1>2, <2>1, <2>2, <2>3 DEF RelayNext
<1>3. ASSUME Inv, UNCHANGED relayVars PROVE Inv'
  BY <1>3 DEF relayVars, RelayTypeOK, DuplicatesInv, DuplicatesAt, Sent, Stored, Again,
     Settling, PublishOk, Row
<1>4. Inv => DuplicatesAreFaults
  BY DuplicatesBounded
<1> QED
  BY <1>1, <1>2, <1>3, <1>4, PTL DEF RelaySpec

(***************************************************************************)
(* What FetchPending's comment promises, "never double-dispatches", is     *)
(* true of a single relay as long as nothing has failed.  Run              *)
(* relay_concurrent shows that it is not of two relays.                    *)
(***************************************************************************)
THEOREM NoFaultNoDuplicate ==
  ASSUME OneRelay
  PROVE  RelaySpec => [](faults = 0 => NeverDoubleDispatches)
<1>1. RelayTypeOK /\ DuplicatesAreFaults => (faults = 0 => NeverDoubleDispatches)
  <2> SUFFICES ASSUME RelayTypeOK, DuplicatesAreFaults, faults = 0
               PROVE  NeverDoubleDispatches
    OBVIOUS
  <2>1. log \in Seq(Rows) /\ Len(log) - Cardinality(Range(log)) <= 0
    BY DEF RelayTypeOK, DuplicatesAreFaults
  <2> QED
    BY <2>1, NoneTwice DEF NeverDoubleDispatches
<1> QED
  BY <1>1, RelayTypeCorrect, DuplicatesHaveCauses, PTL
=============================================================================
