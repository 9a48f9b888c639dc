------------------------------- MODULE Escrow -------------------------------
(***************************************************************************)
(* The solprobe-escrow program: a job's creator deposits one allocation    *)
(* per worker into a vault of the job, and then releases each to its       *)
(* worker or takes it back.                                                *)
(*                                                                         *)
(* An instruction takes effect as a whole or, when a check or a transfer   *)
(* of it fails, not at all: each is one action, and the failed ones are    *)
(* stuttering steps. What wallets hold is left out, so a deposit may       *)
(* always succeed; anyone may also send lamports to a vault directly.      *)
(*                                                                         *)
(* The list of workers may name one twice. A flag per entry says whether   *)
(* it is settled, by a release or by a slash.                              *)
(***************************************************************************)
EXTENDS Integers, Sequences, FiniteSets

CONSTANTS
  Jobs,         \* job identifiers of at most MAX_JOB_ID_LEN bytes
  Workers,      \* their public keys
  MaxWorkers,   \* MAX_WORKERS
  Allocations,  \* BOUND: the lamports per worker
  MaxGifts      \* BOUND: the lamports sent to a vault directly

ASSUME EscrowAssumption ==
  /\ MaxWorkers \in Nat \ {0}
  /\ Allocations \subseteq Nat \ {0}
  /\ MaxGifts \in Nat

VARIABLES
  escrow,    \* per job, its account: EscrowJob, or NoJob
  vault,     \* per job, the lamports in its vault
  received,  \* history: per job and worker, the lamports the worker got
  returned,  \* history: per job, the lamports slashes gave back to the creator
  gifts      \* history: per job, the lamports sent to the vault directly and still in it

esVars == <<escrow, vault, received, returned, gifts>>

Entry == [worker : Workers, released : BOOLEAN]

NoJob == [status |-> "none", share |-> 0, workers |-> <<>>, released |-> 0]

EsTypeOK ==
  /\ \A j \in Jobs :
       /\ escrow[j].status \in {"none", "active", "completed"}
       /\ escrow[j].share \in Nat /\ escrow[j].released \in Nat
       /\ escrow[j].workers \in Seq(Entry)
  /\ {vault, returned, gifts} \subseteq [Jobs -> Nat]
  /\ received \in [Jobs -> [Workers -> Nat]]

Indices(j) == DOMAIN escrow[j].workers
Unsettled(j) == {i \in Indices(j) : ~escrow[j].workers[i].released}

-----------------------------------------------------------------------------
(* The instructions. *)

\* BOUND: the lists of workers considered are those of up to MaxWorkers entries.
CreateJob(j, n, list, share) ==
  /\ escrow[j] = NoJob
  /\ vault' = [vault EXCEPT ![j] = @ + share * n]
  /\ escrow' = [escrow EXCEPT ![j] =
       [status |-> "active", share |-> share, released |-> 0,
        workers |-> [i \in 1..n |-> [worker |-> list[i], released |-> FALSE]]]]
  /\ UNCHANGED <<received, returned, gifts>>

\* MUTANT: the entry is not marked.
MarkNot(j, i) == [escrow EXCEPT ![j].released = @ + escrow[j].share]

\* The entry is marked as settled, and its allocation counted.
Mark(j, i) ==
  [escrow EXCEPT ![j].released = @ + escrow[j].share,
                 ![j].workers[i].released = TRUE]

\* iter_mut().find: the first entry of the worker.
IsFirst(j, i) ==
  \A k \in Indices(j) : k < i => escrow[j].workers[k].worker # escrow[j].workers[i].worker

\* Both release and slash: an unsettled entry of an active job, paid out of the vault.
SettleEntry(j, i) ==
  /\ escrow[j].status = "active"
  /\ i \in Unsettled(j)
  /\ vault[j] >= escrow[j].share
  /\ escrow' = Mark(j, i)
  /\ vault' = [vault EXCEPT ![j] = @ - escrow[j].share]

\* For a worker named twice only the first entry can be released.
ReleasePayment(j, i) ==
  /\ i \in Indices(j) /\ IsFirst(j, i)
  /\ SettleEntry(j, i)
  /\ received' = [received EXCEPT ![j][escrow[j].workers[i].worker] = @ + escrow[j].share]
  /\ UNCHANGED <<returned, gifts>>

SlashPayment(j, i) ==
  /\ SettleEntry(j, i)
  /\ returned' = [returned EXCEPT ![j] = @ + escrow[j].share]
  /\ UNCHANGED <<received, gifts>>

\* MUTANT: one settled entry is enough.
SomeSettled(j) == Unsettled(j) # Indices(j)

AllSettled(j) == Unsettled(j) = {}

\* What is left in the vault goes to the creator.
CloseJob(j) ==
  /\ escrow[j].status = "active"
  /\ AllSettled(j)
  /\ escrow' = [escrow EXCEPT ![j].status = "completed"]
  /\ vault' = [vault EXCEPT ![j] = 0]
  /\ gifts' = [gifts EXCEPT ![j] = 0]
  /\ UNCHANGED <<received, returned>>

\* A transfer to the address of the vault, also before the job and after it.
Gift(j) ==
  /\ gifts[j] < MaxGifts
  /\ vault' = [vault EXCEPT ![j] = @ + 1]
  /\ gifts' = [gifts EXCEPT ![j] = @ + 1]
  /\ UNCHANGED <<escrow, received, returned>>

EsInit ==
  /\ escrow = [j \in Jobs |-> NoJob]
  /\ vault = [j \in Jobs |-> 0]
  /\ received = [j \in Jobs |-> [w \in Workers |-> 0]]
  /\ returned = [j \in Jobs |-> 0]
  /\ gifts = [j \in Jobs |-> 0]

EsNext ==
  \E j \in Jobs :
    \/ \E n \in 1..MaxWorkers, share \in Allocations :
         \E list \in [1..n -> Workers] : CreateJob(j, n, list, share)
    \/ \E i \in Indices(j) : ReleasePayment(j, i) \/ SlashPayment(j, i)
    \/ CloseJob(j)
    \/ Gift(j)

EscrowSpec == EsInit /\ [][EsNext]_esVars

-----------------------------------------------------------------------------
(* Properties. *)

\* After any sequence of instructions the vault of a job holds exactly what is still
\* unsettled, beside rent and what was sent to it directly: rent aside, each unsettled share
\* is covered, and nothing is paid twice (lib.rs, release_payment and slash_payment share
\* the flag of an entry).
EscrowSolvent ==
  \A j \in Jobs : vault[j] = escrow[j].share * Cardinality(Unsettled(j)) + gifts[j]

\* Lamports as shares of the job they are from.
Shares(j, lamports) == IF escrow[j] = NoJob THEN 0 ELSE lamports \div escrow[j].share

\* Each worker gets the shares it is owed or they go back to the creator.
Settled == INSTANCE Settlement WITH
  owed  <- [j \in Jobs |-> [w \in Workers |->
              Cardinality({i \in Unsettled(j) : escrow[j].workers[i].worker = w})]],
  paid  <- [j \in Jobs |-> [w \in Workers |-> Shares(j, received[j][w])]],
  back  <- [j \in Jobs |-> Shares(j, returned[j])],
  stage <- [j \in Jobs |-> CASE escrow[j].status = "none"      -> "unknown"
                             [] escrow[j].status = "active"    -> "funded"
                             [] escrow[j].status = "completed" -> "closed"]

ImplementsSettlement == Settled!Spec
=============================================================================
