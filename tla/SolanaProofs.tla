---------------------------- MODULE SolanaProofs ----------------------------
(***************************************************************************)
(* Proofs about the two programs that hold lamports, for any jobs, lists   *)
(* of workers, stakers and amounts: a vault always holds what its account  *)
(* says it owes.                                                           *)
(***************************************************************************)
EXTENDS Escrow, Staking, FiniteSetTheorems, TLAPS

-----------------------------------------------------------------------------
(* Staking. *)

Account == [open : BOOLEAN, active : BOOLEAN, staked : Nat, locked : Nat, slashes : Nat]

\* An account that is not open has nothing staked: a stake may then open it again.
StakingInv ==
  /\ now \in Nat /\ config \in [min : Nat, cooldown : Nat]
  /\ stake \in [Stakers -> Account]
  /\ pot \in [Stakers -> Nat] /\ sent \in [Stakers -> Nat]
  /\ \A w \in Stakers : ~stake[w].open => ~stake[w].active
  /\ StakesBacked

LEMMA StakingInvInit == SkInit => StakingInv
<1> SUFFICES ASSUME SkInit PROVE StakingInv
  OBVIOUS
<1>1. NoStake \in Account /\ NoStake.staked = 0 /\ ~NoStake.active
  BY DEF NoStake, Account
<1>2. now \in Nat /\ config \in [min : Nat, cooldown : Nat]
  BY StakingAssumption DEF SkInit
<1>3. \A w \in Stakers : stake[w] = NoStake /\ pot[w] = 0 /\ sent[w] = 0
  BY DEF SkInit
<1>4. stake \in [Stakers -> Account] /\ pot \in [Stakers -> Nat] /\ sent \in [Stakers -> Nat]
  BY <1>1 DEF SkInit
<1> QED BY <1>1, <1>2, <1>3, <1>4 DEF StakingInv, StakesBacked

\* What an instruction for one worker must establish.
LEMMA OneWorker ==
  ASSUME StakingInv, NEW w \in Stakers, now' = now, config' = config,
         NEW lamports \in Nat, NEW account \in Account, NEW direct \in Nat,
         pot' = [pot EXCEPT ![w] = lamports], stake' = [stake EXCEPT ![w] = account],
         sent' = [sent EXCEPT ![w] = direct],
         lamports = account.staked + direct,
         ~account.active => account.staked = 0,
         ~account.open => ~account.active
  PROVE  StakingInv'
<1>1. /\ stake' \in [Stakers -> Account]
      /\ pot' \in [Stakers -> Nat] /\ sent' \in [Stakers -> Nat]
  BY DEF StakingInv
<1>2. ASSUME NEW v \in Stakers
      PROVE  /\ pot'[v] = stake'[v].staked + sent'[v]
             /\ ~stake'[v].active => stake'[v].staked = 0
             /\ ~stake'[v].open => ~stake'[v].active
  <2>1. CASE v = w
    BY <2>1 DEF StakingInv
  <2>2. CASE v # w
    BY <2>2 DEF StakingInv, StakesBacked
  <2> QED BY <2>1, <2>2
<1> QED BY <1>1, <1>2 DEF StakingInv, StakesBacked

LEMMA StakeKeeps ==
  ASSUME StakingInv, NEW w \in Stakers, NEW amount \in Amounts, Stake(w, amount)
  PROVE  StakingInv'
<1> DEFINE account == [open |-> TRUE, active |-> TRUE, staked |-> amount,
                       locked |-> now + config.cooldown, slashes |-> 0]
<1>1. amount \in Nat /\ account \in Account /\ pot[w] \in Nat /\ sent[w] \in Nat
  BY StakingAssumption DEF StakingInv, Account
<1>2. stake[w].staked = 0 /\ pot[w] = sent[w]
  <2>1. stake[w].staked = 0
    BY DEF Stake, StakingInv, StakesBacked
  <2> QED BY <1>1, <2>1 DEF StakingInv, StakesBacked
<1>3. /\ pot' = [pot EXCEPT ![w] = pot[w] + amount]
      /\ stake' = [stake EXCEPT ![w] = account]
      /\ sent' = [sent EXCEPT ![w] = sent[w]] /\ now' = now /\ config' = config
  BY DEF Stake, StakingInv
<1>4. /\ pot[w] + amount \in Nat /\ pot[w] + amount = account.staked + sent[w]
      /\ account.active /\ account.open
  BY <1>1, <1>2
<1> HIDE DEF account
<1> QED BY <1>1, <1>3, <1>4, OneWorker

LEMMA SlashKeeps ==
  ASSUME StakingInv, NEW w \in Stakers, NEW amount \in Amounts, Slash(w, amount)
  PROVE  StakingInv'
<1> DEFINE account == [open |-> TRUE, active |-> Rest(w, amount) > 0,
                       staked |-> Rest(w, amount), locked |-> now + config.cooldown,
                       slashes |-> stake[w].slashes + 1]
<1>1. /\ amount \in Nat /\ pot[w] \in Nat /\ sent[w] \in Nat /\ stake[w] \in Account
      /\ stake[w].staked \in Nat /\ pot[w] = stake[w].staked + sent[w]
      /\ now + config.cooldown \in Nat
  BY StakingAssumption DEF StakingInv, StakesBacked, Account
<1>2. /\ Taken(w, amount) \in Nat /\ Taken(w, amount) <= stake[w].staked
      /\ Rest(w, amount) = stake[w].staked - Taken(w, amount) /\ Rest(w, amount) \in Nat
  BY <1>1 DEF Taken, Rest
<1>3. stake[w].open
  BY DEF Slash, StakingInv
<1>4. stake' = [stake EXCEPT ![w] = account]
  BY <1>1, <1>3 DEF Slash
<1>5. account \in Account
  BY <1>1, <1>2 DEF Account
<1>6. /\ pot' = [pot EXCEPT ![w] = pot[w] - Taken(w, amount)]
      /\ sent' = [sent EXCEPT ![w] = sent[w]] /\ now' = now /\ config' = config
  BY DEF Slash, StakingInv
<1>7. /\ account.staked = Rest(w, amount) /\ account.open
      /\ account.active <=> Rest(w, amount) > 0
  BY <1>3
<1>8. /\ pot[w] - Taken(w, amount) \in Nat
      /\ pot[w] - Taken(w, amount) = Rest(w, amount) + sent[w]
      /\ ~account.active => account.staked = 0
  <2> HIDE DEF account
  <2> QED BY <1>1, <1>2, <1>7
<1> HIDE DEF account
<1> QED BY <1>1, <1>4, <1>5, <1>6, <1>7, <1>8, OneWorker

LEMMA UnstakeKeeps ==
  ASSUME StakingInv, NEW w \in Stakers, Unstake(w)
  PROVE  StakingInv'
<1>1. /\ pot[w] \in Nat /\ sent[w] \in Nat /\ stake[w].staked \in Nat
      /\ pot[w] = stake[w].staked + sent[w]
  BY DEF StakingInv, StakesBacked, Account
<1>2. NoStake \in Account /\ NoStake.staked = 0 /\ ~NoStake.active /\ ~NoStake.open
  BY DEF NoStake, Account
<1>3. /\ pot' = [pot EXCEPT ![w] = pot[w] - stake[w].staked]
      /\ stake' = [stake EXCEPT ![w] = NoStake]
      /\ sent' = [sent EXCEPT ![w] = sent[w]] /\ now' = now /\ config' = config
  BY DEF Unstake, StakingInv
<1>4. /\ pot[w] - stake[w].staked \in Nat
      /\ pot[w] - stake[w].staked = NoStake.staked + sent[w]
  BY <1>1, <1>2
<1> QED BY <1>1, <1>2, <1>3, <1>4, OneWorker

LEMMA SendKeeps ==
  ASSUME StakingInv, NEW w \in Stakers, Send(w)
  PROVE  StakingInv'
<1>1. /\ pot[w] \in Nat /\ sent[w] \in Nat /\ stake[w] \in Account
      /\ stake[w].staked \in Nat /\ pot[w] = stake[w].staked + sent[w]
      /\ ~stake[w].active => stake[w].staked = 0
      /\ ~stake[w].open => ~stake[w].active
  BY DEF StakingInv, StakesBacked, Account
<1>2. /\ pot' = [pot EXCEPT ![w] = pot[w] + 1] /\ sent' = [sent EXCEPT ![w] = sent[w] + 1]
      /\ stake' = [stake EXCEPT ![w] = stake[w]] /\ now' = now /\ config' = config
  BY DEF Send, StakingInv
<1>3. /\ pot[w] + 1 \in Nat /\ sent[w] + 1 \in Nat
      /\ pot[w] + 1 = stake[w].staked + (sent[w] + 1)
  BY <1>1
<1> QED BY <1>1, <1>2, <1>3, OneWorker

LEMMA StakingStep ==
  ASSUME StakingInv, [SkNext]_skVars
  PROVE  StakingInv'
<1>1. ASSUME NEW min \in Amounts, NEW cooldown \in Cooldowns, UpdateConfig(min, cooldown)
      PROVE  StakingInv'
  BY <1>1, StakingAssumption DEF UpdateConfig, StakingInv, StakesBacked
<1>2. CASE SkTick
  BY <1>2 DEF SkTick, StakingInv, StakesBacked
<1>3. CASE UNCHANGED skVars
  BY <1>3 DEF skVars, StakingInv, StakesBacked
<1> QED BY <1>1, <1>2, <1>3, StakeKeeps, SlashKeeps, UnstakeKeeps, SendKeeps DEF SkNext

\* For any workers, amounts and cooldowns a staking vault holds the stake of its worker and
\* what was sent to it, and an account nobody can empty holds no stake (solprobe-staking:
\* stake, slash and unstake).
THEOREM StakesAlwaysBacked == StakingSpec => []StakesBacked
<1>1. SkInit => StakingInv
  BY StakingInvInit
<1>2. StakingInv /\ [SkNext]_skVars => StakingInv'
  BY StakingStep
<1>3. StakingInv => StakesBacked
  BY DEF StakingInv
<1> QED BY <1>1, <1>2, <1>3, PTL DEF StakingSpec

-----------------------------------------------------------------------------
(* Escrow. *)

Job == [status : {"none", "active", "completed"}, share : Nat, workers : Seq(Entry),
        released : Nat]

EscrowInv ==
  /\ escrow \in [Jobs -> Job]
  /\ vault \in [Jobs -> Nat] /\ gifts \in [Jobs -> Nat]
  /\ EscrowSolvent

\* The entries of a list that are not settled, and how many they are.
Open(list) == {i \in DOMAIN list : ~list[i].released}

LEMMA OpenFinite ==
  ASSUME NEW list \in Seq(Entry)
  PROVE  IsFiniteSet(Open(list)) /\ Cardinality(Open(list)) \in Nat
<1>1. Open(list) \subseteq 1..Len(list) /\ Len(list) \in Nat
  BY DEF Open
<1>2. IsFiniteSet(1..Len(list))
  BY <1>1, FS_Interval
<1> QED BY <1>1, <1>2, FS_Subset, FS_CardinalityType

LEMMA EscrowInvInit == EsInit => EscrowInv
<1> SUFFICES ASSUME EsInit PROVE EscrowInv
  OBVIOUS
<1>1. NoJob \in Job /\ NoJob.share = 0
  BY DEF NoJob, Job
<1>2. ASSUME NEW j \in Jobs
      PROVE  vault[j] = escrow[j].share * Cardinality(Unsettled(j)) + gifts[j]
  <2>1. escrow[j] = NoJob /\ Unsettled(j) = Open(<<>>)
    BY DEF EsInit, Unsettled, Indices, Open, NoJob
  <2>2. Cardinality(Open(<<>>)) \in Nat
    BY <<>> \in Seq(Entry), OpenFinite
  <2> QED BY <1>1, <2>1, <2>2 DEF EsInit
<1> QED BY <1>1, <1>2 DEF EsInit, EscrowInv, EscrowSolvent

LEMMA OneMore == ASSUME NEW a \in Nat, NEW n \in Nat, n > 0
                 PROVE  a * n \in Nat /\ a * (n - 1) \in Nat /\ a * n = a * (n - 1) + a
  BY SMT

\* What an instruction on one job must establish.
LEMMA OneJob ==
  ASSUME EscrowInv, NEW j \in Jobs, NEW job \in Job, NEW lamports \in Nat, NEW direct \in Nat,
         escrow' = [escrow EXCEPT ![j] = job], vault' = [vault EXCEPT ![j] = lamports],
         gifts' = [gifts EXCEPT ![j] = direct],
         lamports = job.share * Cardinality(Open(job.workers)) + direct
  PROVE  EscrowInv'
<1>1. escrow' \in [Jobs -> Job] /\ vault' \in [Jobs -> Nat] /\ gifts' \in [Jobs -> Nat]
  BY DEF EscrowInv
<1>2. ASSUME NEW k \in Jobs
      PROVE  vault'[k] = escrow'[k].share * Cardinality(Unsettled(k)') + gifts'[k]
  <2>1. CASE k = j
    <3>1. escrow'[k] = job /\ vault'[k] = lamports /\ gifts'[k] = direct
      BY <2>1 DEF EscrowInv
    <3>2. Unsettled(k)' = Open(job.workers)
      BY <3>1 DEF Unsettled, Indices, Open
    <3> QED BY <3>1, <3>2
  <2>2. CASE k # j
    <3>1. escrow'[k] = escrow[k] /\ vault'[k] = vault[k] /\ gifts'[k] = gifts[k]
      BY <2>2 DEF EscrowInv
    <3>2. Unsettled(k)' = Unsettled(k)
      BY <3>1 DEF Unsettled, Indices
    <3> QED BY <3>1, <3>2 DEF EscrowInv, EscrowSolvent
  <2> QED BY <2>1, <2>2
<1> QED BY <1>1, <1>2 DEF EscrowInv, EscrowSolvent

LEMMA CreateJobKeeps ==
  ASSUME EscrowInv, NEW j \in Jobs, NEW n \in 1..MaxWorkers, NEW share \in Allocations,
         NEW list \in [1..n -> Workers], CreateJob(j, n, list, share)
  PROVE  EscrowInv'
<1> DEFINE entries == [i \in 1..n |-> [worker |-> list[i], released |-> FALSE]]
           job == [status |-> "active", share |-> share, released |-> 0, workers |-> entries]
<1>1. share \in Nat /\ n \in Nat
  BY EscrowAssumption
<1>2. vault[j] = gifts[j] /\ gifts[j] \in Nat
  <2>1. escrow[j] = NoJob
    BY DEF CreateJob
  <2>2. Unsettled(j) = Open(<<>>) /\ escrow[j].share = 0
    BY <2>1 DEF Unsettled, Indices, Open, NoJob
  <2>3. Cardinality(Open(<<>>)) \in Nat
    BY <<>> \in Seq(Entry), OpenFinite
  <2> QED BY <2>2, <2>3 DEF EscrowInv, EscrowSolvent
<1>3. entries \in Seq(Entry)
  BY <1>1 DEF Entry
<1>4. job \in Job
  BY <1>1, <1>3 DEF Job
<1>5. Cardinality(Open(entries)) = n
  <2>1. Open(entries) = 1..n
    BY DEF Open
  <2>2. Cardinality(1..n) = n
    BY <1>1, FS_Interval
  <2> QED BY <2>1, <2>2
<1>6. /\ escrow' = [escrow EXCEPT ![j] = job]
      /\ vault' = [vault EXCEPT ![j] = vault[j] + share * n]
      /\ gifts' = [gifts EXCEPT ![j] = gifts[j]]
  BY DEF CreateJob, EscrowInv
<1>7. job.share = share /\ job.workers = entries
  OBVIOUS
<1> HIDE DEF job, entries
<1>8. share * n \in Nat
  BY <1>1
<1>9. vault[j] + share * n = job.share * Cardinality(Open(job.workers)) + gifts[j]
  BY <1>2, <1>5, <1>7, <1>8
<1>10. vault[j] + share * n \in Nat
  BY <1>2, <1>8
<1> QED BY <1>2, <1>4, <1>6, <1>9, <1>10, OneJob

LEMMA EntrySettled ==
  ASSUME NEW e \in Entry, NEW settled
  PROVE  [e EXCEPT !.released = settled] = [worker |-> e.worker, released |-> settled]
<1>1. e = [worker |-> e.worker, released |-> e.released]
  BY DEF Entry
<1>2. \A w, r : [[worker |-> w, released |-> r] EXCEPT !.released = settled]
                 = [worker |-> w, released |-> settled]
  OBVIOUS
<1>3. [[worker |-> e.worker, released |-> e.released] EXCEPT !.released = settled]
        = [worker |-> e.worker, released |-> settled]
  BY <1>2, Zenon
<1> QED BY <1>1, <1>3, Zenon

LEMMA JobSettled ==
  ASSUME NEW old \in Job, NEW lamports, NEW entries
  PROVE  [[old EXCEPT !.released = lamports] EXCEPT !.workers = entries]
           = [status |-> old.status, share |-> old.share, workers |-> entries,
              released |-> lamports]
<1>1. PICK s, a, w, r :
        old = [status |-> s, share |-> a, workers |-> w, released |-> r]
  BY DEF Job
<1>2. old.status = s /\ old.share = a
  BY <1>1
<1>3. [[status |-> s, share |-> a, workers |-> w, released |-> r] EXCEPT !.released = lamports]
        = [status |-> s, share |-> a, workers |-> w, released |-> lamports]
  OBVIOUS
<1>4. [[status |-> s, share |-> a, workers |-> w, released |-> lamports]
       EXCEPT !.workers = entries]
        = [status |-> s, share |-> a, workers |-> entries, released |-> lamports]
  OBVIOUS
<1>5. [old EXCEPT !.released = lamports]
        = [status |-> s, share |-> a, workers |-> w, released |-> lamports]
  BY <1>1, <1>3, Zenon
<1>6. [[old EXCEPT !.released = lamports] EXCEPT !.workers = entries]
        = [status |-> s, share |-> a, workers |-> entries, released |-> lamports]
  BY <1>4, <1>5, Zenon
<1> QED BY <1>2, <1>6, Zenon

\* What the settlement of an entry writes.
LEMMA SettleWrites ==
  ASSUME EscrowInv, NEW j \in Jobs, NEW i \in Indices(j), SettleEntry(j, i)
  PROVE  escrow' = [escrow EXCEPT ![j] =
           [status |-> escrow[j].status, share |-> escrow[j].share,
            workers |-> [escrow[j].workers EXCEPT ![i] = [worker |-> escrow[j].workers[i].worker,
                                                          released |-> TRUE]],
            released |-> escrow[j].released + escrow[j].share]]
<1> DEFINE old == escrow[j]
           entries == [old.workers EXCEPT ![i] = [worker |-> old.workers[i].worker,
                                                  released |-> TRUE]]
           job == [status |-> old.status, share |-> old.share, workers |-> entries,
                   released |-> old.released + old.share]
<1>1. old \in Job /\ old.workers \in Seq(Entry) /\ i \in DOMAIN old.workers
  BY DEF EscrowInv, Job, Indices
<1>2. [old.workers EXCEPT ![i].released = TRUE] = entries
  <2>1. old.workers[i] \in Entry
    BY <1>1
  <2>2. [old.workers[i] EXCEPT !.released = TRUE]
          = [worker |-> old.workers[i].worker, released |-> TRUE]
    BY <2>1, EntrySettled
  <2> QED BY <2>2
<1>3. escrow' = [escrow EXCEPT ![j] =
        [old EXCEPT !.released = @ + old.share, !.workers[i].released = TRUE]]
  BY DEF SettleEntry, Mark
<1>4. [old EXCEPT !.released = @ + old.share, !.workers[i].released = TRUE]
        = [old EXCEPT !.released = old.released + old.share, !.workers = entries]
  BY <1>2
<1>5. [old EXCEPT !.released = old.released + old.share, !.workers = entries] = job
  BY <1>1, JobSettled
<1> QED BY <1>3, <1>4, <1>5

\* A settled entry leaves one fewer, and its share leaves the vault.
LEMMA SettleKeeps ==
  ASSUME EscrowInv, NEW j \in Jobs, NEW i \in Indices(j), SettleEntry(j, i), gifts' = gifts
  PROVE  EscrowInv'
<1> DEFINE old == escrow[j]
           entries == [old.workers EXCEPT ![i] = [worker |-> old.workers[i].worker,
                                                  released |-> TRUE]]
           job == [status |-> old.status, share |-> old.share, workers |-> entries,
                   released |-> old.released + old.share]
<1>1. /\ old \in Job /\ old.share \in Nat /\ old.workers \in Seq(Entry) /\ old.released \in Nat
      /\ old.status \in {"none", "active", "completed"}
      /\ vault[j] \in Nat /\ gifts[j] \in Nat
      /\ vault[j] = old.share * Cardinality(Unsettled(j)) + gifts[j]
  BY DEF EscrowInv, EscrowSolvent, Job
<1>2. i \in DOMAIN old.workers /\ i \in Unsettled(j) /\ Unsettled(j) = Open(old.workers)
  BY DEF SettleEntry, Indices, Unsettled, Open
<1>3. old.workers[i] \in Entry
  BY <1>1, <1>2
<1>4. entries \in Seq(Entry) /\ job \in Job
  <2>1. [worker |-> old.workers[i].worker, released |-> TRUE] \in Entry
    BY <1>3 DEF Entry
  <2>2. entries \in Seq(Entry)
    BY <1>1, <1>2, <2>1
  <2> QED BY <1>1, <2>2 DEF Job
<1>5. escrow' = [escrow EXCEPT ![j] = job]
  BY SettleWrites
<1>6. Open(entries) = Open(old.workers) \ {i}
  BY <1>2 DEF Open
<1>7. Cardinality(Open(entries)) = Cardinality(Open(old.workers)) - 1
  <2>1. IsFiniteSet(Open(old.workers))
    BY <1>1, OpenFinite
  <2>2. i \in Open(old.workers)
    BY <1>2
  <2> HIDE DEF old, entries
  <2> QED BY <1>6, <2>1, <2>2, FS_RemoveElement
<1>8. job.share = old.share /\ job.workers = entries
  OBVIOUS
<1>9. /\ vault' = [vault EXCEPT ![j] = vault[j] - old.share]
      /\ gifts' = [gifts EXCEPT ![j] = gifts[j]] /\ vault[j] >= old.share
  BY DEF SettleEntry, EscrowInv
<1> HIDE DEF job, entries, old
<1>10. Cardinality(Open(old.workers)) \in Nat /\ Cardinality(Open(old.workers)) > 0
  <2>1. IsFiniteSet(Open(old.workers)) /\ Cardinality(Open(old.workers)) \in Nat
    BY <1>1, OpenFinite
  <2>2. Cardinality(Open(old.workers)) # 0
    BY <1>2, <2>1, FS_EmptySet
  <2> QED BY <2>1, <2>2
<1>11. /\ vault[j] - old.share \in Nat
       /\ vault[j] - old.share = job.share * Cardinality(Open(job.workers)) + gifts[j]
  <2>1. old.share * Cardinality(Open(old.workers))
          = old.share * (Cardinality(Open(old.workers)) - 1) + old.share
    BY <1>1, <1>10, OneMore
  <2>2. old.share * (Cardinality(Open(old.workers)) - 1) \in Nat
    BY <1>1, <1>10, OneMore
  <2>3. vault[j] = old.share * Cardinality(Open(old.workers)) + gifts[j]
    BY <1>1, <1>2
  <2>4. vault[j] - old.share = old.share * (Cardinality(Open(old.workers)) - 1) + gifts[j]
    BY <1>1, <2>1, <2>2, <2>3
  <2> QED BY <1>1, <1>7, <1>8, <1>9, <2>2, <2>4
<1> QED BY <1>1, <1>4, <1>5, <1>9, <1>11, OneJob

LEMMA CloseJobKeeps ==
  ASSUME EscrowInv, NEW j \in Jobs, CloseJob(j)
  PROVE  EscrowInv'
<1> DEFINE old == escrow[j]
           job == [status |-> "completed", share |-> old.share,
                   released |-> old.released, workers |-> old.workers]
<1>1. old \in Job /\ old.share \in Nat /\ old.workers \in Seq(Entry) /\ old.released \in Nat
  BY DEF EscrowInv, Job
<1>2. job \in Job /\ job.share = old.share /\ job.workers = old.workers
  BY <1>1 DEF Job
<1>3. escrow' = [escrow EXCEPT ![j] = job]
  <2>1. [old EXCEPT !.status = "completed"] = job
    BY <1>1 DEF Job
  <2> QED BY <2>1 DEF CloseJob
<1>4. vault' = [vault EXCEPT ![j] = 0] /\ gifts' = [gifts EXCEPT ![j] = 0]
  BY DEF CloseJob
<1>5. Cardinality(Open(job.workers)) = 0
  <2>1. Open(job.workers) = {}
    BY <1>2 DEF CloseJob, AllSettled, Unsettled, Indices, Open
  <2> QED BY <2>1, FS_EmptySet
<1> HIDE DEF job, old
<1>6. 0 = job.share * Cardinality(Open(job.workers)) + 0
  BY <1>1, <1>2, <1>5
<1> QED BY <1>2, <1>3, <1>4, <1>6, OneJob

LEMMA GiftKeeps ==
  ASSUME EscrowInv, NEW j \in Jobs, Gift(j)
  PROVE  EscrowInv'
<1>1. /\ escrow[j] \in Job /\ vault[j] \in Nat /\ gifts[j] \in Nat
      /\ escrow[j].share \in Nat /\ escrow[j].workers \in Seq(Entry)
      /\ vault[j] = escrow[j].share * Cardinality(Unsettled(j)) + gifts[j]
  BY DEF EscrowInv, EscrowSolvent, Job
<1>2. Unsettled(j) = Open(escrow[j].workers) /\ Cardinality(Unsettled(j)) \in Nat
  <2>1. Unsettled(j) = Open(escrow[j].workers)
    BY DEF Unsettled, Indices, Open
  <2> QED BY <1>1, <2>1, OpenFinite
<1>3. /\ escrow' = [escrow EXCEPT ![j] = escrow[j]]
      /\ vault' = [vault EXCEPT ![j] = vault[j] + 1]
      /\ gifts' = [gifts EXCEPT ![j] = gifts[j] + 1]
  BY DEF Gift, EscrowInv
<1>4. escrow[j].share * Cardinality(Unsettled(j)) \in Nat
  BY <1>1, <1>2
<1>5. vault[j] + 1 = escrow[j].share * Cardinality(Open(escrow[j].workers)) + (gifts[j] + 1)
  BY <1>1, <1>2, <1>4
<1>6. vault[j] + 1 \in Nat /\ gifts[j] + 1 \in Nat /\ escrow[j] \in Job
  BY <1>1
<1> QED BY <1>3, <1>5, <1>6, OneJob

LEMMA EscrowStep ==
  ASSUME EscrowInv, [EsNext]_esVars
  PROVE  EscrowInv'
<1>1. ASSUME NEW j \in Jobs, NEW i \in Indices(j), ReleasePayment(j, i) \/ SlashPayment(j, i)
      PROVE  EscrowInv'
  <2>1. SettleEntry(j, i) /\ gifts' = gifts
    BY <1>1 DEF ReleasePayment, SlashPayment
  <2> QED BY <2>1, SettleKeeps
<1>2. CASE UNCHANGED esVars
  BY <1>2 DEF esVars, EscrowInv, EscrowSolvent, Unsettled, Indices
<1> QED BY <1>1, <1>2, CreateJobKeeps, CloseJobKeeps, GiftKeeps DEF EsNext

\* For any jobs, lists of workers and amounts an escrow vault holds the shares that are not
\* settled and what was sent to it: every release and slash can be paid, once
\* (solprobe-escrow: create_job, release_payment, slash_payment and close_job).
THEOREM EscrowAlwaysSolvent == EscrowSpec => []EscrowSolvent
<1>1. EsInit => EscrowInv
  BY EscrowInvInit
<1>2. EscrowInv /\ [EsNext]_esVars => EscrowInv'
  BY EscrowStep
<1>3. EscrowInv => EscrowSolvent
  BY DEF EscrowInv
<1> QED BY <1>1, <1>2, <1>3, PTL DEF EscrowSpec

-----------------------------------------------------------------------------
(* The escrow implements the settlement: lamports are shares of the jobs they are from. *)

\* What was paid and returned are whole shares, and none before a job is funded.
SharesInv ==
  /\ received \in [Jobs -> [Workers -> Nat]] /\ returned \in [Jobs -> Nat]
  /\ \A j \in Jobs :
       /\ escrow[j].status = "none" => escrow[j] = NoJob
       /\ escrow[j] = NoJob => returned[j] = 0 /\ \A w \in Workers : received[j][w] = 0
       /\ escrow[j] # NoJob =>
            /\ escrow[j].share > 0
            /\ \E k \in Nat : returned[j] = k * escrow[j].share
            /\ \A w \in Workers : \E k \in Nat : received[j][w] = k * escrow[j].share

OwedTo(j, w) == Cardinality({i \in Unsettled(j) : escrow[j].workers[i].worker = w})
StageOf(j) == CASE escrow[j].status = "none"      -> "unknown"
                [] escrow[j].status = "active"    -> "funded"
                [] escrow[j].status = "completed" -> "closed"

Owed  == [j \in Jobs |-> [w \in Workers |-> OwedTo(j, w)]]
Paid  == [j \in Jobs |-> [w \in Workers |-> Shares(j, received[j][w])]]
Back  == [j \in Jobs |-> Shares(j, returned[j])]
Stage == [j \in Jobs |-> StageOf(j)]

\* k shares are k shares, and one share more is one more.
LEMMA WholeShares ==
  ASSUME NEW share \in Nat \ {0}, NEW k \in Nat
  PROVE  /\ k * share \in Nat
         /\ (k * share) \div share = k
         /\ k * share + share = (k + 1) * share
         /\ (k * share + share) \div share = k + 1
<1> DEFINE a == k * share
           d == a \div share
           m == a % share
<1>1. a \in Nat /\ k * share + share = (k + 1) * share
  OBVIOUS
<1>2. d \in Nat /\ m \in 0..(share - 1) /\ a = (d * share) + m
  BY <1>1
<1>3. \A x \in Nat : (x * share) \div share = x
  <2> TAKE x \in Nat
  <2> DEFINE b == x * share
             q == b \div share
             r == b % share
  <2>1. b \in Nat /\ q \in Nat /\ r \in 0..(share - 1) /\ b = (q * share) + r
    OBVIOUS
  <2> HIDE DEF q, r
  <2>2. ~(q + 1 <= x)
    <3>1. SUFFICES ASSUME q + 1 <= x PROVE FALSE
      OBVIOUS
    <3>2. (q + 1) * share <= x * share
      BY <2>1, <3>1
    <3>3. (q + 1) * share = q * share + share
      BY <2>1
    <3> QED BY <2>1, <3>2, <3>3
  <2>3. ~(x + 1 <= q)
    <3>1. SUFFICES ASSUME x + 1 <= q PROVE FALSE
      OBVIOUS
    <3>2. (x + 1) * share <= q * share
      BY <2>1, <3>1
    <3>3. (x + 1) * share = x * share + share
      OBVIOUS
    <3> QED BY <2>1, <3>2, <3>3
  <2> QED BY <2>1, <2>2, <2>3 DEF q
<1> QED BY <1>1, <1>3

\* The jobs that an instruction is not about.
LEMMA OtherJob ==
  ASSUME NEW j \in Jobs, escrow'[j] = escrow[j], received'[j] = received[j],
         returned'[j] = returned[j]
  PROVE  /\ \A w : OwedTo(j, w)' = OwedTo(j, w)
         /\ \A w : Shares(j, received[j][w])' = Shares(j, received[j][w])
         /\ Shares(j, returned[j])' = Shares(j, returned[j])
         /\ StageOf(j)' = StageOf(j)
<1>1. Unsettled(j)' = Unsettled(j)
  BY DEF Unsettled, Indices
<1> QED BY <1>1 DEF OwedTo, Shares, StageOf

LEMMA OwedType ==
  ASSUME EscrowInv
  PROVE  Owed \in [Jobs -> [Workers -> Nat]]
<1> SUFFICES ASSUME NEW j \in Jobs, NEW w \in Workers PROVE OwedTo(j, w) \in Nat
  BY DEF Owed
<1>1. escrow[j].workers \in Seq(Entry) /\ Unsettled(j) = Open(escrow[j].workers)
  BY DEF EscrowInv, Job, Unsettled, Indices, Open
<1>2. IsFiniteSet(Unsettled(j))
  BY <1>1, OpenFinite
<1> QED BY <1>2, FS_Subset, FS_CardinalityType DEF OwedTo

LEMMA SharesStart == EsInit => SharesInv /\ Settled!Init
<1> SUFFICES ASSUME EsInit PROVE SharesInv /\ Settled!Init
  OBVIOUS
<1>1. \A j \in Jobs : /\ escrow[j] = NoJob /\ returned[j] = 0
                      /\ \A w \in Workers : received[j][w] = 0
  BY DEF EsInit
<1>2. SharesInv
  BY <1>1 DEF EsInit, SharesInv
<1>3. \A j \in Jobs : \A w \in Workers : OwedTo(j, w) = 0
  <2> TAKE j \in Jobs
  <2> TAKE w \in Workers
  <2>1. DOMAIN escrow[j].workers = {}
    BY <1>1 DEF NoJob
  <2>2. {i \in Unsettled(j) : escrow[j].workers[i].worker = w} = {}
    BY <2>1 DEF Unsettled, Indices
  <2> QED BY <2>2, FS_EmptySet DEF OwedTo
<1>4. /\ Owed = [j \in Jobs |-> [w \in Workers |-> 0]]
      /\ Paid = [j \in Jobs |-> [w \in Workers |-> 0]]
      /\ Back = [j \in Jobs |-> 0]
      /\ Stage = [j \in Jobs |-> "unknown"]
  BY <1>1, <1>3 DEF Owed, Paid, Back, Stage, Shares, StageOf, NoJob
<1> QED BY <1>2, <1>4, Zenon DEF Settled!Init, Owed, Paid, Back, Stage, OwedTo, StageOf

\* A job is funded: its entries are owed.
LEMMA FundStep ==
  ASSUME EscrowInv, SharesInv, EscrowInv', NEW j \in Jobs, NEW n \in 1..MaxWorkers,
         NEW share \in Allocations, NEW list \in [1..n -> Workers], CreateJob(j, n, list, share)
  PROVE  SharesInv' /\ Settled!Fund(j)
<1>1. /\ escrow[j] = NoJob /\ received' = received /\ returned' = returned
      /\ share \in Nat /\ share > 0 /\ n \in Nat
  BY EscrowAssumption DEF CreateJob
<1>2. /\ escrow'[j].status = "active" /\ escrow'[j].share = share /\ escrow'[j] # NoJob
      /\ \A k \in Jobs : k # j => escrow'[k] = escrow[k]
  BY DEF CreateJob, EscrowInv, NoJob
<1>3. returned[j] = 0 /\ \A w \in Workers : received[j][w] = 0
  BY <1>1 DEF SharesInv
<1>4. SharesInv'
  <2>1. 0 = 0 * share
    BY <1>1
  <2> QED BY <1>1, <1>2, <1>3, <2>1, ZenonT(30) DEF SharesInv
<1>5. \A k \in Jobs : k # j => /\ \A w : OwedTo(k, w)' = OwedTo(k, w)
                               /\ \A w : Shares(k, received[k][w])' = Shares(k, received[k][w])
                               /\ Shares(k, returned[k])' = Shares(k, returned[k])
                               /\ StageOf(k)' = StageOf(k)
  BY <1>1, <1>2, OtherJob
<1>6. /\ \A w \in Workers : Shares(j, received[j][w])' = Shares(j, received[j][w])
      /\ Shares(j, returned[j])' = Shares(j, returned[j])
  <2>1. 0 \div share = 0
    BY <1>1
  <2> QED BY <1>1, <1>2, <1>3, <2>1 DEF Shares
<1>7. StageOf(j) = "unknown" /\ StageOf(j)' = "funded"
  BY <1>1, <1>2 DEF StageOf, NoJob
<1>8. Paid' = Paid /\ Back' = Back
  BY <1>5, <1>6 DEF Paid, Back
<1>9. Stage[j] = "unknown" /\ Stage' = [Stage EXCEPT ![j] = "funded"]
  BY <1>5, <1>7 DEF Stage
<1>10. Owed' \in [Jobs -> [Workers -> Nat]] /\ \A k \in Jobs \ {j} : Owed'[k] = Owed[k]
  <2>1. Owed' \in [Jobs -> [Workers -> Nat]]
    <3> SUFFICES ASSUME NEW k \in Jobs, NEW w \in Workers PROVE OwedTo(k, w)' \in Nat
      BY DEF Owed
    <3>1. escrow'[k].workers \in Seq(Entry) /\ Unsettled(k)' = Open(escrow'[k].workers)
      BY DEF EscrowInv, Job, Unsettled, Indices, Open
    <3>2. IsFiniteSet(Unsettled(k)')
      BY <3>1, OpenFinite
    <3> QED BY <3>2, FS_Subset, FS_CardinalityType DEF OwedTo
  <2>2. \A k \in Jobs \ {j} : Owed'[k] = Owed[k]
    BY <1>5 DEF Owed
  <2> QED BY <2>1, <2>2
<1> QED BY <1>4, <1>8, <1>9, <1>10, Zenon
        DEF Settled!Fund, Owed, Paid, Back, Stage, OwedTo, StageOf

\* A job is closed: none of its entries is owed.
LEMMA CloseStep ==
  ASSUME EscrowInv, SharesInv, NEW j \in Jobs, CloseJob(j)
  PROVE  SharesInv' /\ Settled!Close(j)
<1>1. /\ escrow[j].status = "active" /\ Unsettled(j) = {}
      /\ received' = received /\ returned' = returned
      /\ escrow' = [escrow EXCEPT ![j].status = "completed"]
  BY DEF CloseJob, AllSettled
<1>2. /\ escrow'[j].status = "completed" /\ escrow'[j].share = escrow[j].share
      /\ escrow'[j].workers = escrow[j].workers /\ escrow'[j] # NoJob /\ escrow[j] # NoJob
      /\ \A k \in Jobs : k # j => escrow'[k] = escrow[k]
  BY <1>1 DEF EscrowInv, Job, NoJob
<1>3. SharesInv'
  BY <1>1, <1>2 DEF SharesInv
<1>4. \A k \in Jobs : k # j => /\ \A w : OwedTo(k, w)' = OwedTo(k, w)
                               /\ \A w : Shares(k, received[k][w])' = Shares(k, received[k][w])
                               /\ Shares(k, returned[k])' = Shares(k, returned[k])
                               /\ StageOf(k)' = StageOf(k)
  BY <1>1, <1>2, OtherJob
<1>5. /\ \A w : OwedTo(j, w)' = OwedTo(j, w)
      /\ \A w : Shares(j, received[j][w])' = Shares(j, received[j][w])
      /\ Shares(j, returned[j])' = Shares(j, returned[j])
      /\ StageOf(j) = "funded" /\ StageOf(j)' = "closed"
  BY <1>1, <1>2 DEF OwedTo, Unsettled, Indices, Shares, StageOf
<1>6. \A w : OwedTo(j, w) = 0
  <2>1. \A w : {i \in Unsettled(j) : escrow[j].workers[i].worker = w} = {}
    BY <1>1
  <2> QED BY <2>1, FS_EmptySet DEF OwedTo
<1>7. Owed' = Owed /\ Paid' = Paid /\ Back' = Back
  BY <1>4, <1>5 DEF Owed, Paid, Back
<1>8. Stage[j] = "funded" /\ Stage' = [Stage EXCEPT ![j] = "closed"]
  BY <1>4, <1>5 DEF Stage
<1>9. \A w \in Workers : Owed[j][w] = 0
  BY <1>6 DEF Owed
<1> QED BY <1>3, <1>7, <1>8, <1>9, Zenon
        DEF Settled!Close, Owed, Paid, Back, Stage, OwedTo, StageOf

\* What the settlement of an entry does to the shares that are owed.
LEMMA OwedLess ==
  ASSUME EscrowInv, NEW j \in Jobs, NEW i \in Indices(j), SettleEntry(j, i),
         NEW w, w = escrow[j].workers[i].worker
  PROVE  /\ w \in Workers
         /\ escrow[j].status = "active" /\ escrow'[j].status = "active"
         /\ escrow'[j].share = escrow[j].share
         /\ \A k \in Jobs : k # j => escrow'[k] = escrow[k]
         /\ OwedTo(j, w) > 0 /\ OwedTo(j, w)' = OwedTo(j, w) - 1
         /\ \A v : v # w => OwedTo(j, v)' = OwedTo(j, v)
<1> DEFINE list == escrow[j].workers
           new == [list EXCEPT ![i] = [worker |-> w, released |-> TRUE]]
           job == [status |-> escrow[j].status, share |-> escrow[j].share, workers |-> new,
                   released |-> escrow[j].released + escrow[j].share]
<1>1. escrow' = [escrow EXCEPT ![j] = job]
  BY SettleWrites
<1>2. list \in Seq(Entry) /\ i \in DOMAIN list /\ i \in Unsettled(j) /\ escrow[j].status = "active"
  BY DEF EscrowInv, Job, Indices, SettleEntry
<1>3. w \in Workers /\ list[i].worker = w
  <2>1. list[i] \in Entry
    BY <1>2
  <2> QED BY <2>1 DEF Entry
<1>4. /\ escrow'[j] = job /\ \A k \in Jobs : k # j => escrow'[k] = escrow[k]
      /\ job.workers = new /\ job.status = escrow[j].status /\ job.share = escrow[j].share
  BY <1>1 DEF EscrowInv
<1>5. /\ DOMAIN new = DOMAIN list /\ new[i].worker = w /\ new[i].released
      /\ \A k \in DOMAIN list : k # i => new[k] = list[k]
  BY <1>2
<1> HIDE DEF new, job
<1>6. /\ Unsettled(j) = {k \in DOMAIN list : ~list[k].released}
      /\ Unsettled(j)' = {k \in DOMAIN new : ~new[k].released}
      /\ escrow'[j].workers = new
  BY <1>4 DEF Unsettled, Indices
<1> DEFINE Of(v) == {k \in Unsettled(j) : list[k].worker = v}
           Left(v) == {k \in {m \in DOMAIN new : ~new[m].released} : new[k].worker = v}
<1>7. \A v : OwedTo(j, v) = Cardinality(Of(v)) /\ OwedTo(j, v)' = Cardinality(Left(v))
  BY <1>6 DEF OwedTo
<1>8. \A v : v # w => Left(v) = Of(v)
  <2> SUFFICES ASSUME NEW v, v # w PROVE \A k : k \in Left(v) <=> k \in Of(v)
    OBVIOUS
  <2>1. ASSUME NEW k, k # i PROVE k \in Left(v) <=> k \in Of(v)
    BY <1>5, <1>6, <2>1
  <2>2. i \notin Left(v) /\ i \notin Of(v)
    BY <1>3, <1>5
  <2> QED BY <2>1, <2>2
<1>9. Left(w) = Of(w) \ {i} /\ i \in Of(w)
  BY <1>2, <1>3, <1>5, <1>6
<1>10. IsFiniteSet(Of(w))
  <2>1. Unsettled(j) = Open(list)
    BY <1>6 DEF Open
  <2>2. IsFiniteSet(Unsettled(j)) /\ Of(w) \in SUBSET Unsettled(j)
    BY <1>2, <2>1, OpenFinite
  <2> HIDE DEF Of
  <2> QED BY <2>2, FS_Subset
<1> HIDE DEF Of, Left
<1>11. Cardinality(Left(w)) = Cardinality(Of(w)) - 1 /\ Cardinality(Of(w)) \in Nat \ {0}
  <2>1. Cardinality(Of(w)) \in Nat /\ Cardinality(Of(w)) # 0
    BY <1>9, <1>10, FS_CardinalityType, FS_EmptySet
  <2> QED BY <1>9, <1>10, <2>1, FS_RemoveElement, ZenonT(30)
<1>12. OwedTo(j, w) > 0 /\ OwedTo(j, w)' = Cardinality(Left(w)) /\ OwedTo(j, w) = Cardinality(Of(w))
  BY <1>7, <1>11
<1>13. \A v : v # w => OwedTo(j, v)' = OwedTo(j, v)
  BY <1>7, <1>8
<1>14. escrow'[j].status = "active" /\ escrow'[j].share = escrow[j].share
  BY <1>2, <1>4
<1>15. OwedTo(j, w)' = OwedTo(j, w) - 1
  BY <1>11, <1>12
<1> QED BY <1>2, <1>3, <1>4, <1>12, <1>13, <1>14, <1>15

\* What the settlement of an entry does to what is owed and to the stages.
LEMMA OwedSettled ==
  ASSUME EscrowInv, NEW j \in Jobs, NEW i \in Indices(j), SettleEntry(j, i),
         NEW w, w = escrow[j].workers[i].worker
  PROVE  /\ w \in Workers /\ Stage[j] = "funded" /\ Stage' = Stage
         /\ Owed[j][w] > 0 /\ Owed' = [Owed EXCEPT ![j][w] = @ - 1]
<1>1. /\ w \in Workers
      /\ escrow[j].status = "active" /\ escrow'[j].status = "active"
      /\ \A k \in Jobs : k # j => escrow'[k] = escrow[k]
      /\ OwedTo(j, w) > 0 /\ OwedTo(j, w)' = OwedTo(j, w) - 1
      /\ \A v : v # w => OwedTo(j, v)' = OwedTo(j, v)
  BY OwedLess
<1>2. Stage[j] = "funded" /\ Stage' = Stage
  <2>1. \A k \in Jobs : escrow'[k].status = escrow[k].status
    BY <1>1
  <2>2. \A k \in Jobs : StageOf(k)' = StageOf(k)
    BY <2>1 DEF StageOf
  <2>3. StageOf(j) = "funded"
    BY <1>1 DEF StageOf
  <2> QED BY <2>2, <2>3 DEF Stage
<1>3. \A k \in Jobs : k # j => \A v : OwedTo(k, v)' = OwedTo(k, v)
  BY <1>1 DEF OwedTo, Unsettled, Indices
<1>4. Owed' = [Owed EXCEPT ![j] = [Owed[j] EXCEPT ![w] = Owed[j][w] - 1]]
  <2> SUFFICES ASSUME NEW k \in Jobs
               PROVE  Owed'[k] = IF k = j THEN [Owed[j] EXCEPT ![w] = Owed[j][w] - 1] ELSE Owed[k]
    BY DEF Owed
  <2>1. CASE k = j
    BY <1>1, <2>1 DEF Owed
  <2>2. CASE k # j
    BY <1>3, <2>2 DEF Owed
  <2> QED BY <2>1, <2>2
<1> QED BY <1>1, <1>2, <1>4 DEF Owed

\* An allocation that is released is one share more for its worker.
LEMMA PayStep ==
  ASSUME EscrowInv, SharesInv, NEW j \in Jobs, NEW i \in Indices(j), ReleasePayment(j, i)
  PROVE  SharesInv' /\ \E w \in Workers : Settled!Settle(j, w)
<1> DEFINE share == escrow[j].share
<1>1. PICK w : w = escrow[j].workers[i].worker
  OBVIOUS
<1>2. SettleEntry(j, i)
  BY DEF ReleasePayment
<1>3. /\ w \in Workers /\ Stage[j] = "funded" /\ Stage' = Stage
      /\ Owed[j][w] > 0 /\ Owed' = [Owed EXCEPT ![j][w] = @ - 1]
  BY <1>1, <1>2, OwedSettled
<1>4. /\ escrow[j].status = "active" /\ escrow'[j].status = "active" /\ escrow'[j].share = share
      /\ \A k \in Jobs : k # j => escrow'[k] = escrow[k]
  BY <1>1, <1>2, OwedLess
<1>5. escrow[j] # NoJob /\ escrow'[j] # NoJob /\ share \in Nat \ {0}
  BY <1>4 DEF NoJob, SharesInv, EscrowInv, Job
<1>6. /\ received' = [received EXCEPT ![j] = [received[j] EXCEPT ![w] = received[j][w] + share]]
      /\ returned' = returned
  BY <1>1, <1>3 DEF ReleasePayment, SharesInv
<1>7. PICK k \in Nat : received[j][w] = k * share
  BY <1>3, <1>5 DEF SharesInv
<1>8. /\ (k * share) \div share = k /\ (k * share + share) \div share = k + 1
      /\ k * share + share = (k + 1) * share /\ k * share \in Nat
  BY <1>5, WholeShares
<1>9. /\ received' \in [Jobs -> [Workers -> Nat]]
      /\ received'[j][w] = (k + 1) * share /\ k + 1 \in Nat
      /\ \A v \in Workers : v # w => received'[j][v] = received[j][v]
      /\ \A m \in Jobs : m # j => received'[m] = received[m]
  <2>1. received \in [Jobs -> [Workers -> Nat]] /\ received[j][w] + share \in Nat
    BY <1>3, <1>5 DEF SharesInv
  <2> HIDE DEF share
  <2> QED BY <1>3, <1>6, <1>7, <1>8, <2>1
<1> HIDE DEF share
<1>10. SharesInv'
  <2>1. ASSUME NEW v \in Workers PROVE \E x \in Nat : received'[j][v] = x * share
    <3>1. CASE v = w
      BY <1>9, <3>1
    <3>2. CASE v # w
      <4>1. \E x \in Nat : received[j][v] = x * share
        BY <1>5 DEF SharesInv, share
      <4> QED BY <1>9, <3>2, <4>1
    <3> QED BY <3>1, <3>2
  <2>2. \E x \in Nat : returned[j] = x * share
    BY <1>5 DEF SharesInv, share
  <2>3. /\ escrow'[j].status # "none" /\ escrow'[j].share > 0
        /\ \E x \in Nat : returned'[j] = x * escrow'[j].share
        /\ \A v \in Workers : \E x \in Nat : received'[j][v] = x * escrow'[j].share
    BY <1>4, <1>5, <1>6, <2>1, <2>2 DEF share
  <2> SUFFICES ASSUME NEW m \in Jobs
               PROVE  /\ escrow'[m].status = "none" => escrow'[m] = NoJob
                      /\ escrow'[m] = NoJob =>
                           returned'[m] = 0 /\ \A v \in Workers : received'[m][v] = 0
                      /\ escrow'[m] # NoJob =>
                           /\ escrow'[m].share > 0
                           /\ \E x \in Nat : returned'[m] = x * escrow'[m].share
                           /\ \A v \in Workers : \E x \in Nat : received'[m][v] = x * escrow'[m].share
    BY <1>6, <1>9 DEF SharesInv
  <2>4. CASE m = j
    BY <1>5, <2>3, <2>4
  <2>5. CASE m # j
    <3>1. escrow'[m] = escrow[m] /\ received'[m] = received[m] /\ returned'[m] = returned[m]
      BY <1>4, <1>6, <1>9, <2>5
    <3> QED BY <3>1 DEF SharesInv
  <2> QED BY <2>4, <2>5
<1>11. \A m \in Jobs : Shares(m, returned[m])' = Shares(m, returned[m])
  BY <1>4, <1>5, <1>6 DEF Shares, share
<1>12. Shares(j, received[j][w]) = k /\ Shares(j, received[j][w])' = k + 1
  <2>1. received'[j][w] = k * share + share
    BY <1>8, <1>9
  <2> QED BY <1>4, <1>5, <1>7, <1>8, <2>1 DEF Shares, share
<1>13. /\ \A v \in Workers : v # w => Shares(j, received[j][v])' = Shares(j, received[j][v])
       /\ \A m \in Jobs : m # j =>
            \A v \in Workers : Shares(m, received[m][v])' = Shares(m, received[m][v])
  BY <1>4, <1>5, <1>9 DEF Shares, share
<1>14. Paid' = [Paid EXCEPT ![j] = [Paid[j] EXCEPT ![w] = Paid[j][w] + 1]]
  BY <1>3, <1>12, <1>13 DEF Paid
<1>15. Paid' = [Paid EXCEPT ![j][w] = @ + 1] /\ Back' = Back
  BY <1>11, <1>14 DEF Back
<1> QED BY <1>3, <1>10, <1>15, Zenon
        DEF Settled!Settle, Owed, Paid, Back, Stage, OwedTo, StageOf

\* An allocation that is taken back is one share more for the creator.
LEMMA ReturnStep ==
  ASSUME EscrowInv, SharesInv, NEW j \in Jobs, NEW i \in Indices(j), SlashPayment(j, i)
  PROVE  SharesInv' /\ \E w \in Workers : Settled!Settle(j, w)
<1> DEFINE share == escrow[j].share
<1>1. PICK w : w = escrow[j].workers[i].worker
  OBVIOUS
<1>2. SettleEntry(j, i)
  BY DEF SlashPayment
<1>3. /\ w \in Workers /\ Stage[j] = "funded" /\ Stage' = Stage
      /\ Owed[j][w] > 0 /\ Owed' = [Owed EXCEPT ![j][w] = @ - 1]
  BY <1>1, <1>2, OwedSettled
<1>4. /\ escrow[j].status = "active" /\ escrow'[j].status = "active" /\ escrow'[j].share = share
      /\ \A k \in Jobs : k # j => escrow'[k] = escrow[k]
  BY <1>1, <1>2, OwedLess
<1>5. escrow[j] # NoJob /\ escrow'[j] # NoJob /\ share \in Nat \ {0}
  BY <1>4 DEF NoJob, SharesInv, EscrowInv, Job
<1>6. returned' = [returned EXCEPT ![j] = returned[j] + share] /\ received' = received
  BY DEF SlashPayment, SharesInv
<1>7. PICK k \in Nat : returned[j] = k * share
  BY <1>5 DEF SharesInv
<1>8. /\ (k * share) \div share = k /\ (k * share + share) \div share = k + 1
      /\ k * share + share = (k + 1) * share /\ k * share \in Nat
  BY <1>5, WholeShares
<1>9. /\ returned' \in [Jobs -> Nat] /\ returned'[j] = (k + 1) * share /\ k + 1 \in Nat
      /\ \A m \in Jobs : m # j => returned'[m] = returned[m]
  <2>1. returned \in [Jobs -> Nat] /\ returned[j] + share \in Nat
    BY <1>5 DEF SharesInv
  <2> HIDE DEF share
  <2> QED BY <1>6, <1>7, <1>8, <2>1
<1> HIDE DEF share
<1>10. SharesInv'
  <2>1. \A v \in Workers : \E x \in Nat : received[j][v] = x * share
    BY <1>5 DEF SharesInv, share
  <2>2. /\ escrow'[j].status # "none" /\ escrow'[j].share > 0
        /\ \E x \in Nat : returned'[j] = x * escrow'[j].share
        /\ \A v \in Workers : \E x \in Nat : received'[j][v] = x * escrow'[j].share
    BY <1>4, <1>5, <1>6, <1>9, <2>1 DEF share
  <2> QED BY <1>4, <1>5, <1>6, <1>9, <2>2 DEF SharesInv
<1>11. \A m \in Jobs : \A v \in Workers : Shares(m, received[m][v])' = Shares(m, received[m][v])
  BY <1>4, <1>5, <1>6 DEF Shares, share
<1>12. Shares(j, returned[j]) = k /\ Shares(j, returned[j])' = k + 1
  <2>1. returned'[j] = k * share + share
    BY <1>8, <1>9
  <2> QED BY <1>4, <1>5, <1>7, <1>8, <2>1 DEF Shares, share
<1>13. \A m \in Jobs : m # j => Shares(m, returned[m])' = Shares(m, returned[m])
  BY <1>4, <1>9 DEF Shares
<1>14. Back' = [Back EXCEPT ![j] = @ + 1] /\ Paid' = Paid
  BY <1>11, <1>12, <1>13 DEF Back, Paid
<1> QED BY <1>3, <1>10, <1>14, Zenon
        DEF Settled!Settle, Owed, Paid, Back, Stage, OwedTo, StageOf

\* Every instruction is a step of the settlement, or does not concern it.
LEMMA SharesStep ==
  ASSUME EscrowInv, EscrowInv', SharesInv, [EsNext]_esVars
  PROVE  SharesInv' /\ [Settled!Next]_(Settled!vars)
<1>1. ASSUME NEW j \in Jobs, NEW n \in 1..MaxWorkers, NEW share \in Allocations,
             NEW list \in [1..n -> Workers], CreateJob(j, n, list, share)
      PROVE  SharesInv' /\ Settled!Next
  BY <1>1, FundStep, Zenon DEF Settled!Next
<1>2. ASSUME NEW j \in Jobs, NEW i \in Indices(j), ReleasePayment(j, i) \/ SlashPayment(j, i)
      PROVE  SharesInv' /\ Settled!Next
  BY <1>2, PayStep, ReturnStep, Zenon DEF Settled!Next
<1>3. ASSUME NEW j \in Jobs, CloseJob(j)
      PROVE  SharesInv' /\ Settled!Next
  BY <1>3, CloseStep, Zenon DEF Settled!Next
<1>4. ASSUME UNCHANGED <<escrow, received, returned>>
      PROVE  SharesInv' /\ UNCHANGED Settled!vars
  <2>1. SharesInv'
    BY <1>4 DEF SharesInv
  <2>2. \A j \in Jobs : /\ \A w : OwedTo(j, w)' = OwedTo(j, w)
                        /\ \A w : Shares(j, received[j][w])' = Shares(j, received[j][w])
                        /\ Shares(j, returned[j])' = Shares(j, returned[j])
                        /\ StageOf(j)' = StageOf(j)
    BY <1>4, OtherJob
  <2>3. Owed' = Owed /\ Paid' = Paid /\ Back' = Back /\ Stage' = Stage
    BY <2>2 DEF Owed, Paid, Back, Stage
  <2> QED BY <2>1, <2>3, Zenon DEF Settled!vars, Owed, Paid, Back, Stage, OwedTo, StageOf
<1>5. ASSUME NEW j \in Jobs, Gift(j)
      PROVE  UNCHANGED <<escrow, received, returned>>
  BY <1>5 DEF Gift
<1>6. CASE EsNext
  BY <1>1, <1>2, <1>3, <1>4, <1>5, <1>6 DEF EsNext
<1>7. CASE UNCHANGED esVars
  BY <1>4, <1>7 DEF esVars
<1> QED BY <1>6, <1>7

\* For any jobs, lists of workers and amounts, lists that name a worker twice included: each
\* share of a funded job is paid to its worker or returned to the creator, once, and the job
\* closes when none is owed (solprobe-escrow: the instructions, seen as settlements).
THEOREM EscrowImplementsSettlement == EscrowSpec => ImplementsSettlement
<1>1. EsInit => EscrowInv /\ SharesInv /\ Settled!Init
  BY EscrowInvInit, SharesStart
<1>2. EscrowInv /\ [EsNext]_esVars => EscrowInv'
  BY EscrowStep
<1>3. EscrowInv /\ EscrowInv' /\ SharesInv /\ [EsNext]_esVars
        => SharesInv' /\ [Settled!Next]_(Settled!vars)
  BY SharesStep
<1> QED BY <1>1, <1>2, <1>3, PTL DEF EscrowSpec, ImplementsSettlement, Settled!Spec
=============================================================================
