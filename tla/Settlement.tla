----------------------------- MODULE Settlement -----------------------------
(***************************************************************************)
(* What an escrow promises: when a job is funded each of its workers is    *)
(* owed some shares; each share is paid to that worker or returned to the  *)
(* creator, once, and the job closes when none is owed any more. Escrow is *)
(* shown to implement it.                                                  *)
(***************************************************************************)
EXTENDS Integers

CONSTANTS Jobs, Workers

VARIABLES
  owed,    \* per job and worker, the shares that are neither paid nor returned
  paid,    \* per job and worker, the shares the worker has received
  back,    \* per job, the shares the creator has got back
  stage    \* per job: "unknown", "funded", or "closed"

vars == <<owed, paid, back, stage>>

Fund(j) ==
  /\ stage[j] = "unknown"
  /\ owed' \in [Jobs -> [Workers -> Nat]]
  /\ \A k \in Jobs \ {j} : owed'[k] = owed[k]
  /\ stage' = [stage EXCEPT ![j] = "funded"]
  /\ UNCHANGED <<paid, back>>

\* One share of a worker is settled.
Settle(j, w) ==
  /\ stage[j] = "funded"
  /\ owed[j][w] > 0
  /\ owed' = [owed EXCEPT ![j][w] = @ - 1]
  /\ \/ paid' = [paid EXCEPT ![j][w] = @ + 1] /\ UNCHANGED back
     \/ back' = [back EXCEPT ![j] = @ + 1] /\ UNCHANGED paid
  /\ UNCHANGED stage

Close(j) ==
  /\ stage[j] = "funded"
  /\ \A w \in Workers : owed[j][w] = 0
  /\ stage' = [stage EXCEPT ![j] = "closed"]
  /\ UNCHANGED <<owed, paid, back>>

Init ==
  /\ owed = [j \in Jobs |-> [w \in Workers |-> 0]]
  /\ paid = [j \in Jobs |-> [w \in Workers |-> 0]]
  /\ back = [j \in Jobs |-> 0]
  /\ stage = [j \in Jobs |-> "unknown"]

Next == \E j \in Jobs : Fund(j) \/ Close(j) \/ \E w \in Workers : Settle(j, w)

Spec == Init /\ [][Next]_vars
=============================================================================
