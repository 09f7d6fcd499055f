----------------------------- MODULE AtomicSaga -----------------------------
(***************************************************************************)
(* What the choreography promises (NFR-1, FR-6, FR-7): every saga that     *)
(* begins ends either committed or aborted, as one step, for good, and     *)
(* independently of the others.                                            *)
(***************************************************************************)
CONSTANT Sagas

VARIABLE outcome

AtomicInit == outcome = [s \in Sagas |-> "absent"]

Begin(s) ==
  /\ outcome[s] = "absent"
  /\ outcome' = [outcome EXCEPT ![s] = "running"]

Commit(s) ==
  /\ outcome[s] = "running"
  /\ outcome' = [outcome EXCEPT ![s] = "committed"]

Abort(s) ==
  /\ outcome[s] = "running"
  /\ outcome' = [outcome EXCEPT ![s] = "aborted"]

AtomicNext == \E s \in Sagas : Begin(s) \/ Commit(s) \/ Abort(s)

AtomicSpec == AtomicInit /\ [][AtomicNext]_outcome
=============================================================================
