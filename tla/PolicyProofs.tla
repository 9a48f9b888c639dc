---------------------------- MODULE PolicyProofs ----------------------------
(***************************************************************************)
(* Proofs about the policy engine, for any policies, edits, samples and    *)
(* cooldowns: the alerts of a key are spaced by the cooldown, and what the *)
(* store, the policies and the alerts say of the last trigger agrees.      *)
(*                                                                         *)
(* The inductive invariant adds to the two properties what ties a pass to  *)
(* the store: the copies it evaluates are of policies that exist, since no *)
(* handler runs during it, and no cooldown is later than its clock.        *)
(*                                                                         *)
(* What an evaluation reads is known by its places in the log: a reading   *)
(* is the end, in a strict order, of a set of places, and its scope a part *)
(* of it. From that follow the types, that a violation the windows reach   *)
(* is reported (VisitInv: what is due for a policy and node already        *)
(* visited has been told), and that what fires had been sustained.         *)
(***************************************************************************)
EXTENDS Policy, RankingProofs, TLAPS

IsConfig(c) == HasFields(c) /\ DOMAIN c = DOMAIN Fields

IsPolicy(q) ==
  /\ q = [lastTriggered |-> q.lastTriggered, config |-> q.config]
  /\ q.lastTriggered \in Nat \cup {None}
  /\ IsConfig(q.config)

ClocksInv == /\ now \in Nat /\ passNow \in Nat /\ passNow <= now
             /\ pass \in {"idle", "run"}

StoreInv ==
  /\ \A p \in DOMAIN policies : IsPolicy(policies[p])
  /\ \A k \in DOMAIN cooldowns : cooldowns[k] \in Nat /\ cooldowns[k] <= now
  /\ pass = "run" => \A k \in DOMAIN cooldowns : cooldowns[k] <= passNow

PassInv ==
  /\ DOMAIN listed \subseteq DOMAIN policies
  /\ \A p \in DOMAIN listed : IsConfig(listed[p])
  /\ current # None => current \in DOMAIN listed
  /\ pass = "idle" => current = None /\ DOMAIN listed = {}

PolicyInv == ClocksInv /\ StoreInv /\ PassInv /\ CooldownsAgree /\ FiringsSpaced

-----------------------------------------------------------------------------

LEMMA PolicyInvInit == Init => PolicyInv
  BY DEF Init, PolicyInv, ClocksInv, StoreInv, PassInv, CooldownsAgree, FiringsSpaced

LEMMA ConfigPatched ==
  ASSUME NEW c, IsConfig(c), NEW patch \in Patches
  PROVE  IsConfig(Patched(c, patch))
<1>1. HasFields(patch)
  BY PolicyAssumption
<1> HIDE DEF Fields
<1> QED BY <1>1 DEF IsConfig, HasFields, Patched

LEMMA ConfigToggled ==
  ASSUME NEW c, IsConfig(c)
  PROVE  IsConfig([c EXCEPT !.enabled = ~@])
<1>1. "enabled" \in DOMAIN Fields /\ Fields["enabled"] = BOOLEAN
  BY DEF Fields
<1>2. DOMAIN [c EXCEPT !.enabled = ~@] = DOMAIN c
  OBVIOUS
<1>3. \A f \in DOMAIN c : f # "enabled" => [c EXCEPT !.enabled = ~@][f] = c[f]
  OBVIOUS
<1>4. "enabled" \in DOMAIN c => [c EXCEPT !.enabled = ~@]["enabled"] = ~c["enabled"]
  OBVIOUS
<1>5. \A f \in DOMAIN c : [c EXCEPT !.enabled = ~@][f] \in Fields[f]
  BY <1>1, <1>3, <1>4 DEF IsConfig, HasFields
<1> QED BY <1>2, <1>5 DEF IsConfig, HasFields

\* Samples, and the clock.
LEMMA StoreKeeps ==
  ASSUME PolicyInv, UNCHANGED <<now, storeVars, passVars>>
  PROVE  PolicyInv'
  BY DEF PolicyInv, ClocksInv, StoreInv, PassInv, CooldownsAgree, FiringsSpaced, storeVars,
         passVars

LEMMA TickKeeps ==
  ASSUME PolicyInv, Tick
  PROVE  PolicyInv'
<1>1. now' = now + 1 /\ UNCHANGED <<storeVars, passVars>>
  BY DEF Tick
<1>2. ClocksInv'
  BY <1>1 DEF PolicyInv, ClocksInv, passVars
<1>3. StoreInv'
  BY <1>1 DEF PolicyInv, ClocksInv, StoreInv, storeVars, passVars
<1>4. PassInv' /\ CooldownsAgree' /\ FiringsSpaced'
  BY <1>1 DEF PolicyInv, PassInv, CooldownsAgree, FiringsSpaced, storeVars, passVars
<1> QED BY <1>2, <1>3, <1>4 DEF PolicyInv

\* No pass is under way when a handler runs.
LEMMA HandlerKeepsPass ==
  ASSUME PolicyInv, EventLoopFree, UNCHANGED <<now, passVars>>
  PROVE  ClocksInv' /\ PassInv'
  BY DEF PolicyInv, ClocksInv, PassInv, EventLoopFree, passVars

LEMMA CreateKeeps ==
  ASSUME PolicyInv, NEW p \in PolicyIds, CreatePolicy(p)
  PROVE  PolicyInv'
<1>1. PICK c \in Configs : policies' = With(policies, p, [lastTriggered |-> None, config |-> c])
  BY DEF CreatePolicy
<1>2. /\ EventLoopFree /\ p \notin DOMAIN policies
      /\ UNCHANGED <<now, cooldowns, raised, passVars>>
  BY DEF CreatePolicy
<1>3. ClocksInv' /\ PassInv'
  BY <1>2, HandlerKeepsPass
<1>4. /\ DOMAIN policies' = DOMAIN policies \cup {p}
      /\ policies'[p] = [lastTriggered |-> None, config |-> c]
      /\ \A q \in DOMAIN policies : policies'[q] = policies[q]
  <2> DEFINE new == [lastTriggered |-> None, config |-> c]
  <2> HIDE DEF new
  <2>1. /\ DOMAIN With(policies, p, new) = DOMAIN policies \cup {p}
        /\ With(policies, p, new)[p] = new
        /\ \A q \in DOMAIN policies \ {p} : With(policies, p, new)[q] = policies[q]
    BY DEF With
  <2>2. policies' = With(policies, p, new)
    BY <1>1 DEF new
  <2>3. /\ DOMAIN policies' = DOMAIN policies \cup {p} /\ policies'[p] = new
        /\ \A q \in DOMAIN policies : policies'[q] = policies[q]
    BY <1>2, <2>1, <2>2
  <2> QED BY <2>3 DEF new
<1>5. IsPolicy(policies'[p])
  <2>1. IsConfig(c)
    BY PolicyAssumption DEF IsConfig
  <2> QED BY <1>4, <2>1 DEF IsPolicy
<1>6. StoreInv'
  <2>1. \A q \in DOMAIN policies' : IsPolicy(policies'[q])
    BY <1>4, <1>5 DEF PolicyInv, StoreInv
  <2> QED BY <1>2, <2>1 DEF PolicyInv, StoreInv, passVars
<1>7. CooldownsAgree'
  BY <1>2, <1>4 DEF PolicyInv, CooldownsAgree
<1>8. FiringsSpaced'
  BY <1>2 DEF PolicyInv, FiringsSpaced
<1> QED BY <1>3, <1>6, <1>7, <1>8 DEF PolicyInv

\* An update writes the configuration of one policy, and nothing else of it.
LEMMA UpdateWrites ==
  ASSUME PolicyInv, NEW p \in PolicyIds, UpdatePolicy(p)
  PROVE  /\ DOMAIN policies' = DOMAIN policies
         /\ \A q \in DOMAIN policies : IsPolicy(policies'[q])
         /\ \A q \in DOMAIN policies : policies'[q].lastTriggered = policies[q].lastTriggered
<1>1. p \in DOMAIN policies /\ IsPolicy(policies[p])
  BY DEF UpdatePolicy, PolicyInv, StoreInv
<1>2. \A q \in DOMAIN policies : IsPolicy(policies[q])
  BY DEF PolicyInv, StoreInv
<1>3. ASSUME NEW c, IsConfig(c), policies' = [policies EXCEPT ![p].config = c]
      PROVE  /\ DOMAIN policies' = DOMAIN policies
             /\ \A q \in DOMAIN policies : IsPolicy(policies'[q])
             /\ \A q \in DOMAIN policies :
                  policies'[q].lastTriggered = policies[q].lastTriggered
  <2>1. /\ DOMAIN policies' = DOMAIN policies
        /\ policies'[p] = [policies[p] EXCEPT !.config = c]
        /\ \A q \in DOMAIN policies \ {p} : policies'[q] = policies[q]
    BY <1>1, <1>3
  <2>2. [policies[p] EXCEPT !.config = c]
          = [lastTriggered |-> policies[p].lastTriggered, config |-> c]
    BY <1>1 DEF IsPolicy
  <2>3. policies'[p].lastTriggered = policies[p].lastTriggered /\ policies'[p].config = c
    BY <2>1, <2>2
  <2>4. IsPolicy(policies'[p])
    BY <1>1, <1>3, <2>1, <2>2, <2>3 DEF IsPolicy
  <2> QED BY <1>2, <2>1, <2>3, <2>4
<1>4. CASE \E patch \in Patches :
             policies' = [policies EXCEPT ![p].config = Patched(@, patch)]
  <2>1. PICK patch \in Patches : policies' = [policies EXCEPT ![p].config = Patched(@, patch)]
    BY <1>4
  <2>2. IsConfig(Patched(policies[p].config, patch))
    BY <1>1, ConfigPatched DEF IsPolicy
  <2>3. policies' = [policies EXCEPT ![p].config = Patched(policies[p].config, patch)]
    BY <2>1
  <2> QED BY <1>3, <2>2, <2>3
<1>5. CASE policies' = [policies EXCEPT ![p].config.enabled = ~@]
  <2>1. policies' = [policies EXCEPT ![p].config = [policies[p].config EXCEPT !.enabled = ~@]]
    BY <1>5
  <2>2. IsConfig([policies[p].config EXCEPT !.enabled = ~@])
    BY <1>1, ConfigToggled DEF IsPolicy
  <2> QED BY <1>3, <2>1, <2>2
<1> QED BY <1>4, <1>5 DEF UpdatePolicy

LEMMA UpdateKeeps ==
  ASSUME PolicyInv, NEW p \in PolicyIds, UpdatePolicy(p)
  PROVE  PolicyInv'
<1>1. EventLoopFree /\ UNCHANGED <<now, cooldowns, raised, passVars>>
  BY DEF UpdatePolicy
<1>2. /\ DOMAIN policies' = DOMAIN policies
      /\ \A q \in DOMAIN policies : IsPolicy(policies'[q])
      /\ \A q \in DOMAIN policies : policies'[q].lastTriggered = policies[q].lastTriggered
  BY UpdateWrites
<1>3. ClocksInv' /\ PassInv'
  BY <1>1, HandlerKeepsPass
<1>4. StoreInv'
  BY <1>1, <1>2 DEF PolicyInv, StoreInv, passVars
<1>5. CooldownsAgree'
  BY <1>1, <1>2 DEF PolicyInv, CooldownsAgree
<1>6. FiringsSpaced'
  BY <1>1 DEF PolicyInv, FiringsSpaced
<1> QED BY <1>3, <1>4, <1>5, <1>6 DEF PolicyInv

LEMMA DeleteKeeps ==
  ASSUME PolicyInv, NEW p \in PolicyIds, DeletePolicy(p)
  PROVE  PolicyInv'
<1>1. EventLoopFree /\ UNCHANGED <<now, passVars>>
  BY DEF DeletePolicy
<1>2. ClocksInv' /\ PassInv'
  BY <1>1, HandlerKeepsPass
<1>3. /\ DOMAIN policies' = DOMAIN policies \ {p}
      /\ \A q \in DOMAIN policies \ {p} : policies'[q] = policies[q]
  BY DEF DeletePolicy
<1>4. /\ DOMAIN cooldowns' = {k \in DOMAIN cooldowns : k[1] # p}
      /\ \A k \in DOMAIN cooldowns' : cooldowns'[k] = cooldowns[k]
      /\ DOMAIN raised' = {k \in DOMAIN raised : k[1] # p}
      /\ \A k \in DOMAIN raised' : raised'[k] = raised[k]
  BY DEF DeletePolicy, Without
<1>5. StoreInv'
  BY <1>1, <1>3, <1>4 DEF PolicyInv, StoreInv, passVars
<1>6. CooldownsAgree'
  BY <1>3, <1>4 DEF PolicyInv, CooldownsAgree
<1>7. FiringsSpaced'
  BY <1>4 DEF PolicyInv, FiringsSpaced
<1> QED BY <1>2, <1>5, <1>6, <1>7 DEF PolicyInv

-----------------------------------------------------------------------------
(* The pass. *)

LEMMA StartPassKeeps ==
  ASSUME PolicyInv, StartPass
  PROVE  PolicyInv'
<1>1. /\ pass' = "run" /\ passNow' = now /\ now' = now
      /\ UNCHANGED <<policies, cooldowns, raised, current>>
      /\ pass = "idle"
  BY DEF StartPass, storeVars
<1>2. /\ DOMAIN listed' \subseteq DOMAIN policies
      /\ \A p \in DOMAIN listed' : listed'[p] = policies[p].config
  BY DEF StartPass
<1>3. ClocksInv'
  BY <1>1 DEF PolicyInv, ClocksInv
<1>4. StoreInv'
  BY <1>1 DEF PolicyInv, StoreInv
<1>5. PassInv'
  BY <1>1, <1>2 DEF PolicyInv, PassInv, StoreInv, IsPolicy
<1>6. CooldownsAgree' /\ FiringsSpaced'
  BY <1>1 DEF PolicyInv, CooldownsAgree, FiringsSpaced
<1> QED BY <1>3, <1>4, <1>5, <1>6 DEF PolicyInv

LEMMA NextPolicyKeeps ==
  ASSUME PolicyInv, NextPolicy
  PROVE  PolicyInv'
<1>1. UNCHANGED <<now, policies, cooldowns, raised, pass, passNow, listed>>
  BY DEF NextPolicy, storeVars
<1>2. current' \in DOMAIN listed /\ pass = "run"
  BY DEF NextPolicy
<1>3. PassInv'
  BY <1>1, <1>2 DEF PolicyInv, PassInv
<1> QED BY <1>1, <1>3 DEF PolicyInv, ClocksInv, StoreInv, CooldownsAgree, FiringsSpaced

LEMMA PolicyDoneKeeps ==
  ASSUME PolicyInv, PolicyDone
  PROVE  PolicyInv'
<1>1. UNCHANGED <<now, policies, cooldowns, raised, pass, passNow>> /\ current' = None
  BY DEF PolicyDone, storeVars
<1>2. /\ DOMAIN listed' = DOMAIN listed \ {current}
      /\ \A p \in DOMAIN listed' : listed'[p] = listed[p]
  BY DEF PolicyDone
<1>3. PassInv'
  BY <1>1, <1>2 DEF PolicyInv, PassInv
<1> QED BY <1>1, <1>3 DEF PolicyInv, ClocksInv, StoreInv, CooldownsAgree, FiringsSpaced

LEMMA EndPassKeeps ==
  ASSUME PolicyInv, EndPass
  PROVE  PolicyInv'
<1>1. /\ UNCHANGED <<now, policies, cooldowns, raised, listed, current>>
      /\ pass' = "idle" /\ passNow' = 0 /\ DOMAIN listed = {}
  BY DEF EndPass, Evaluated, storeVars
<1>2. PassInv'
  BY <1>1 DEF PolicyInv, PassInv
<1>3. ClocksInv' /\ StoreInv'
  BY <1>1 DEF PolicyInv, ClocksInv, StoreInv
<1> QED BY <1>1, <1>2, <1>3 DEF PolicyInv, CooldownsAgree, FiringsSpaced

\* An alert of a policy being evaluated, whose key is not in its cooldown.
LEMMA FireKeeps ==
  ASSUME PolicyInv, pass = "run", NEW n, NEW job, current # None,
         UNCHANGED <<now, pass, passNow, listed, current>>,
         NEW seconds, seconds = listed[current].cooldown,
         ~InCooldown(<<current, n, job>>, seconds), Fire(<<current, n, job>>, seconds)
  PROVE  PolicyInv'
<1> DEFINE key == <<current, n, job>>
           new == [at |-> passNow, cooldown |-> seconds,
                   gap |-> IF key \in DOMAIN raised THEN passNow - raised[key].at ELSE seconds]
<1>1. current \in DOMAIN listed /\ current \in DOMAIN policies /\ seconds \in Nat
  <2>1. current \in DOMAIN listed /\ current \in DOMAIN policies /\ IsConfig(listed[current])
    BY DEF PolicyInv, PassInv
  <2>2. "cooldown" \in DOMAIN Fields /\ Fields["cooldown"] = Nat
    BY DEF Fields
  <2> QED BY <2>1, <2>2 DEF IsConfig, HasFields
<1>2. passNow \in Nat /\ now \in Nat /\ passNow <= now
  BY DEF PolicyInv, ClocksInv
<1>3. key[1] = current
  OBVIOUS
<1>4. cooldowns' = With(cooldowns, key, passNow) /\ raised' = With(raised, key, new)
  BY DEF Fire, MarkTriggered
<1>5. policies' = [p \in DOMAIN policies |->
                     IF p = current THEN [policies[p] EXCEPT !.lastTriggered = passNow]
                                    ELSE policies[p]]
  BY <1>3 DEF Fire, MarkTriggered
<1>6. /\ DOMAIN policies' = DOMAIN policies
      /\ policies'[current].lastTriggered = passNow
      /\ IsPolicy(policies'[current])
      /\ \A p \in DOMAIN policies \ {current} : policies'[p] = policies[p]
  <2>1. IsPolicy(policies[current])
    BY <1>1 DEF PolicyInv, StoreInv
  <2>2. policies'[current] = [lastTriggered |-> passNow, config |-> policies[current].config]
    BY <1>1, <1>5, <2>1 DEF IsPolicy
  <2>3. IsPolicy(policies'[current])
    BY <1>2, <2>1, <2>2 DEF IsPolicy
  <2> QED BY <1>5, <2>2, <2>3
<1>7. new.at = passNow /\ new.cooldown = seconds /\ new.gap >= seconds
  <2>1. CASE key \in DOMAIN raised
    <3>1. /\ key \in DOMAIN cooldowns /\ cooldowns[key] = raised[key].at
          /\ cooldowns[key] \in Nat /\ cooldowns[key] <= passNow
      BY <2>1 DEF PolicyInv, CooldownsAgree, StoreInv
    <3>2. passNow - cooldowns[key] >= seconds
      BY <1>1, <1>2, <3>1 DEF InCooldown
    <3> QED BY <2>1, <3>1, <3>2
  <2>2. CASE key \notin DOMAIN raised
    BY <1>1, <2>2
  <2> QED BY <2>1, <2>2
<1> HIDE DEF key, new
<1>8. /\ DOMAIN cooldowns' = DOMAIN cooldowns \cup {key} /\ cooldowns'[key] = passNow
      /\ \A k \in DOMAIN cooldowns \ {key} : cooldowns'[k] = cooldowns[k]
      /\ DOMAIN raised' = DOMAIN raised \cup {key} /\ raised'[key] = new
      /\ \A k \in DOMAIN raised \ {key} : raised'[k] = raised[k]
  <2>1. /\ DOMAIN With(cooldowns, key, passNow) = DOMAIN cooldowns \cup {key}
        /\ With(cooldowns, key, passNow)[key] = passNow
        /\ \A k \in DOMAIN cooldowns \ {key} :
             With(cooldowns, key, passNow)[k] = cooldowns[k]
    BY DEF With
  <2>2. /\ DOMAIN With(raised, key, new) = DOMAIN raised \cup {key}
        /\ With(raised, key, new)[key] = new
        /\ \A k \in DOMAIN raised \ {key} : With(raised, key, new)[k] = raised[k]
    BY DEF With
  <2> QED BY <1>4, <2>1, <2>2
<1>9. \A k \in DOMAIN cooldowns : cooldowns[k] \in Nat /\ cooldowns[k] <= passNow
  BY DEF PolicyInv, StoreInv
<1>10. StoreInv'
  <2>1. \A p \in DOMAIN policies' : IsPolicy(policies'[p])
    BY <1>6 DEF PolicyInv, StoreInv
  <2>2. \A k \in DOMAIN cooldowns' : cooldowns'[k] \in Nat /\ cooldowns'[k] <= passNow
    BY <1>2, <1>8, <1>9
  <2> QED BY <1>2, <2>1, <2>2 DEF StoreInv
<1>11. CooldownsAgree'
  <2>1. passNow # None
    BY <1>2, PolicyAssumption
  <2>2. CooldownsAgree
    BY DEF PolicyInv
  <2>3. DOMAIN cooldowns' = DOMAIN raised'
    BY <1>8, <2>2 DEF CooldownsAgree
  <2>4. ASSUME NEW k \in DOMAIN cooldowns'
        PROVE  /\ k[1] \in DOMAIN policies'
               /\ cooldowns'[k] = raised'[k].at
               /\ policies'[k[1]].lastTriggered # None
               /\ policies'[k[1]].lastTriggered >= cooldowns'[k]
    <3>1. CASE k = key
      BY <1>1, <1>2, <1>3, <1>6, <1>7, <1>8, <2>1, <3>1
    <3>2. CASE k # key /\ k[1] = current
      <4>1. cooldowns'[k] = cooldowns[k] /\ raised'[k] = raised[k] /\ k \in DOMAIN cooldowns
        BY <1>8, <2>2, <3>2 DEF CooldownsAgree
      <4>2. cooldowns[k] \in Nat /\ cooldowns[k] <= passNow
        BY <1>9, <4>1
      <4> QED BY <1>1, <1>2, <1>6, <2>1, <2>2, <3>2, <4>1, <4>2 DEF CooldownsAgree
    <3>3. CASE k # key /\ k[1] # current
      <4>1. cooldowns'[k] = cooldowns[k] /\ raised'[k] = raised[k] /\ k \in DOMAIN cooldowns
        BY <1>8, <2>2, <3>3 DEF CooldownsAgree
      <4>2. k[1] \in DOMAIN policies /\ policies'[k[1]] = policies[k[1]]
        BY <1>6, <2>2, <3>3, <4>1 DEF CooldownsAgree
      <4> QED BY <1>6, <2>2, <4>1, <4>2 DEF CooldownsAgree
    <3> QED BY <3>1, <3>2, <3>3
  <2>5. ASSUME NEW p \in DOMAIN policies', policies'[p].lastTriggered # None
        PROVE  \E k \in DOMAIN cooldowns' :
                 k[1] = p /\ cooldowns'[k] = policies'[p].lastTriggered
    <3>1. CASE p = current
      BY <1>3, <1>6, <1>8, <3>1
    <3>2. CASE p # current
      <4>1. policies'[p] = policies[p] /\ p \in DOMAIN policies
        BY <1>6, <3>2
      <4>2. PICK k \in DOMAIN cooldowns :
              k[1] = p /\ cooldowns[k] = policies[p].lastTriggered
        BY <2>2, <2>5, <4>1 DEF CooldownsAgree
      <4>3. k # key
        BY <1>3, <3>2, <4>2
      <4> QED BY <1>8, <4>1, <4>2, <4>3
    <3> QED BY <3>1, <3>2
  <2> QED BY <2>3, <2>4, <2>5 DEF CooldownsAgree
<1>12. FiringsSpaced'
  BY <1>7, <1>8 DEF PolicyInv, FiringsSpaced
<1>13. PassInv'
  BY <1>6 DEF PolicyInv, PassInv
<1>14. ClocksInv'
  BY DEF PolicyInv, ClocksInv
<1> QED BY <1>10, <1>11, <1>12, <1>13, <1>14 DEF PolicyInv

LEMMA EvaluateNodeKeeps ==
  ASSUME PolicyInv, EvaluateNode
  PROVE  PolicyInv'
<1>1. /\ pass = "run" /\ current # None
      /\ UNCHANGED <<now, pass, passNow, listed, current>>
  BY DEF EvaluateNode
<1>2. CASE UNCHANGED storeVars
  <2>1. PassInv'
    BY <1>1, <1>2 DEF PolicyInv, PassInv, storeVars
  <2> QED BY <1>1, <1>2, <2>1
       DEF PolicyInv, ClocksInv, StoreInv, CooldownsAgree, FiringsSpaced, storeVars
<1>3. CASE ~UNCHANGED storeVars
  <2>1. \E n \in todo :
          LET c == listed[current]
              samples == Scoped(log, Read(log, c.source, n, WindowMinutes(c)), c)
          IN /\ ~InCooldown(KeyOf(current, n, samples), c.cooldown)
             /\ Fire(KeyOf(current, n, samples), c.cooldown)
    BY <1>3 DEF EvaluateNode
  <2>2. PICK n \in todo :
          LET c == listed[current]
              samples == Scoped(log, Read(log, c.source, n, WindowMinutes(c)), c)
          IN /\ ~InCooldown(KeyOf(current, n, samples), c.cooldown)
             /\ Fire(KeyOf(current, n, samples), c.cooldown)
    BY <2>1
  <2> DEFINE samples == Scoped(log, Read(log, listed[current].source, n,
                                         WindowMinutes(listed[current])), listed[current])
             job == IF listed[current].job # None THEN listed[current].job
                                                  ELSE samples[Len(samples)].job
             seconds == listed[current].cooldown
  <2>3. KeyOf(current, n, samples) = <<current, n, job>>
    BY DEF KeyOf
  <2>4. /\ ~InCooldown(KeyOf(current, n, samples), seconds)
        /\ Fire(KeyOf(current, n, samples), seconds)
    BY <2>2
  <2> HIDE DEF samples, job
  <2>5. ~InCooldown(<<current, n, job>>, seconds) /\ Fire(<<current, n, job>>, seconds)
    BY <2>3, <2>4
  <2> QED BY <1>1, <2>5, FireKeeps
<1> QED BY <1>2, <1>3

LEMMA PolicyStep ==
  ASSUME PolicyInv, [Next]_vars
  PROVE  PolicyInv'
<1>1. CASE IngestBatch \/ PostCustomMetrics
  <2>1. UNCHANGED <<now, storeVars, passVars>>
    BY <1>1 DEF IngestBatch, PostCustomMetrics, Store
  <2> QED BY <2>1, StoreKeeps
<1>2. CASE Handlers
  BY <1>2, CreateKeeps, UpdateKeeps, DeleteKeeps DEF Handlers
<1>3. CASE Pass
  BY <1>3, StartPassKeeps, NextPolicyKeeps, EvaluateNodeKeeps, PolicyDoneKeeps, EndPassKeeps
     DEF Pass
<1>4. CASE Tick
  BY <1>4, TickKeeps
<1>5. CASE UNCHANGED vars
  BY <1>5, StoreKeeps DEF vars
<1> QED BY <1>1, <1>2, <1>3, <1>4, <1>5 DEF Next

\* However passes of run_policy_evaluation, requests and samples interleave, a pass
\* evaluates policies that exist, against cooldowns no later than its clock.
THEOREM PolicyInvariant == Spec => []PolicyInv
<1>1. Init => PolicyInv
  BY PolicyInvInit
<1>2. PolicyInv /\ [Next]_vars => PolicyInv'
  BY PolicyStep
<1> QED BY <1>1, <1>2, PTL DEF Spec

\* Two alerts of a policy for one node and job are at least its cooldown apart, for any
\* policies, edits and samples (PolicyStore.is_in_cooldown and mark_triggered).
THEOREM FiringsAlwaysSpaced == Spec => []FiringsSpaced
<1>1. PolicyInv => FiringsSpaced
  BY DEF PolicyInv
<1> QED BY <1>1, PolicyInvariant, PTL

\* The cooldowns, last_triggered_at and the alerts raised always agree, and a deleted
\* policy leaves no cooldown (PolicyStore.delete and mark_triggered).
THEOREM CooldownsAlwaysAgree == Spec => []CooldownsAgree
<1>1. PolicyInv => CooldownsAgree
  BY DEF PolicyInv
<1> QED BY <1>1, PolicyInvariant, PTL

-----------------------------------------------------------------------------
(* Readings: what a pass reads of the log. *)

\* The end of a sequence.
LEMMA LastIs ==
  ASSUME NEW T, NEW s \in Seq(T), NEW k \in Nat
  PROVE  /\ Last(s, k) \in Seq(T)
         /\ Len(Last(s, k)) = Min2(k, Len(s))
         /\ \A p \in 1..Len(Last(s, k)) :
              /\ p + Len(s) - Len(Last(s, k)) \in 1..Len(s)
              /\ Last(s, k)[p] = s[p + Len(s) - Len(Last(s, k))]
<1> DEFINE from == Max2(1, Len(s) - k + 1)
<1> DEFINE m == Len(s)
<1>0. m \in Nat /\ Min2(k, m) \in 0..m
  BY DEF Min2
<1>1. from \in 1..(m + 1) /\ m - from + 1 = Min2(k, m)
  <2> HIDE DEF m
  <2>1. from = IF 1 >= m - k + 1 THEN 1 ELSE m - k + 1
    BY DEF Max2, m
  <2> QED BY <1>0, <2>1 DEF Min2
<1> HIDE DEF from
<1>2. /\ SubSeq(s, from, Len(s)) \in Seq(T)
      /\ Len(SubSeq(s, from, Len(s))) = Len(s) - from + 1
      /\ \A p \in 1..(Len(s) - from + 1) : SubSeq(s, from, Len(s))[p] = s[from + p - 1]
  BY <1>1
<1>3. Last(s, k) = SubSeq(s, from, Len(s))
  BY DEF Last, from
<1>4. /\ Last(s, k) \in Seq(T) /\ Len(Last(s, k)) = Min2(k, m)
      /\ \A p \in 1..Min2(k, m) : Last(s, k)[p] = s[from + p - 1]
  BY <1>1, <1>2, <1>3
<1>5. \A p \in 1..Min2(k, m) :
        /\ p + m - Min2(k, m) \in 1..m
        /\ from + p - 1 = p + m - Min2(k, m)
  <2> HIDE DEF m
  <2> QED BY <1>0, <1>1
<1> QED BY <1>4, <1>5

\* The places of a source and node.
Of(samples, source, n) ==
  {i \in 1..Len(samples) : samples[i].source = source /\ samples[i].node = n}

Held(samples, n) == {i \in 1..Len(samples) : IsHeld(samples, i) /\ samples[i].node = n}

\* The order of custom samples, as pairs.
Opened(samples, i) ==
  {k \in 1..i : samples[k].source = "custom" /\ samples[k].job = samples[i].job}
First(samples, i) == CHOOSE k \in Opened(samples, i) : \A x \in Opened(samples, i) : k <= x
Before(samples, a, b) ==
  \/ samples[a].ts < samples[b].ts
  \/ samples[a].ts = samples[b].ts /\ First(samples, a) > First(samples, b)
  \/ samples[a].ts = samples[b].ts /\ First(samples, a) = First(samples, b) /\ a > b
CustomOrder(samples, n) ==
  {e \in Held(samples, n) \X Held(samples, n) : Before(samples, e[1], e[2])}

LEMMA SampleAt ==
  ASSUME NEW samples \in Seq(Sample), NEW i \in 1..Len(samples)
  PROVE  /\ samples[i] \in Sample /\ samples[i].ts \in Nat /\ samples[i].node \in Nodes
         /\ samples[i].job \in Jobs \cup {None} /\ samples[i].bad \in BOOLEAN
         /\ samples[i].source \in Sources
<1>1. samples[i] \in Sample
  OBVIOUS
<1> QED BY <1>1 DEF Sample

LEMMA FirstIs ==
  ASSUME NEW samples \in Seq(Sample), NEW n, NEW i \in Held(samples, n)
  PROVE  First(samples, i) \in Nat
<1>1. i \in Opened(samples, i) /\ Opened(samples, i) \in SUBSET Nat
  BY DEF Opened, Held, IsHeld
<1>2. \E k \in Opened(samples, i) : \A x \in Opened(samples, i) : k <= x
  BY <1>1, Least
<1> QED BY <1>1, <1>2 DEF First

LEMMA CustomOrders ==
  ASSUME NEW samples \in Seq(Sample), NEW n
  PROVE  Orders(CustomOrder(samples, n), Held(samples, n))
<1> DEFINE S == Held(samples, n)
<1>1. \A i \in S : samples[i].ts \in Nat /\ First(samples, i) \in Nat /\ i \in Nat
  <2>1. \A i \in S : i \in 1..Len(samples)
    BY DEF Held
  <2>2. \A i \in S : samples[i].ts \in Nat
    BY <2>1, SampleAt
  <2>3. \A i \in S : First(samples, i) \in Nat
    BY FirstIs
  <2> QED BY <2>1, <2>2, <2>3
<1> HIDE DEF S
<1>2. \A a \in S : ~Before(samples, a, a)
  BY <1>1 DEF Before
<1>3. \A a, b \in S : a # b => Before(samples, a, b) \/ Before(samples, b, a)
  BY <1>1 DEF Before
<1>4. \A a, b, c \in S :
        Before(samples, a, b) /\ Before(samples, b, c) => Before(samples, a, c)
  BY <1>1 DEF Before
<1> QED BY <1>2, <1>3, <1>4 DEF Orders, CustomOrder, S

LEMMA CustomHistoryIs ==
  ASSUME NEW samples \in Seq(Sample), NEW n, NEW window
  PROVE  CustomHistory(samples, n, window)
           = Last(ByRank(RankIn(CustomOrder(samples, n), Held(samples, n))),
                  Max2(1, window * Minute))
<1> DEFINE S == Held(samples, n)
           rank == [i \in S |-> Cardinality({k \in S : k = i \/ Before(samples, k, i)})]
<1>1. DOMAIN samples = 1..Len(samples)
  OBVIOUS
<1>2. CustomHistory(samples, n, window) = Last(ByRank(rank), Max2(1, window * Minute))
  BY <1>1 DEF CustomHistory, Held, Before, First, Opened
<1>3. \A i \in S : {k \in S : k = i \/ Before(samples, k, i)}
                    = NotAfter(CustomOrder(samples, n), S, i)
  BY DEF NotAfter, CustomOrder
<1>4. rank = RankIn(CustomOrder(samples, n), S)
  BY <1>3 DEF RankIn
<1> QED BY <1>2, <1>4

\* The end of a ranked set: it is in order, and has every element after one it has.
Ranked(h, S, before, k) ==
  /\ h \in Seq(S)
  /\ \A p \in 1..Len(h) : h[p] \in S
  /\ \A p, q \in 1..Len(h) : p < q => <<h[p], h[q]>> \in before
  /\ \A i \in S : (\E p \in 1..Len(h) : h[p] = i) <=> RankIn(before, S)[i] > Cardinality(S) - k

LEMMA LastRanked ==
  ASSUME NEW S, IsFiniteSet(S), NEW before, Orders(before, S), NEW k \in Nat
  PROVE  Ranked(Last(ByRank(RankIn(before, S)), k), S, before, k)
<1> DEFINE rank == RankIn(before, S)
           all == ByRank(rank)
           h == Last(all, k)
           m == Cardinality(S)
<1>1. /\ m \in Nat /\ all \in Seq(S) /\ Len(all) = m
      /\ \A p \in 1..m : all[p] \in S /\ rank[all[p]] = p
      /\ \A a \in S : all[rank[a]] = a /\ rank[a] \in 1..m
  <2>1. IsRanking(rank, S)
    BY OrderRanks
  <2> QED BY <2>1, ByRankIs, FS_CardinalityType DEF IsRanking
<1>2. \A p, q \in 1..m : p < q => <<all[p], all[q]>> \in before
  BY <1>1, SortedByOrder
<1> HIDE DEF rank, all, m
<1>3. /\ h \in Seq(S) /\ Len(h) = Min2(k, m)
      /\ \A p \in 1..Len(h) : p + m - Len(h) \in 1..m /\ h[p] = all[p + m - Len(h)]
  BY <1>1, LastIs
<1> HIDE DEF h
<1>4. Len(h) \in 0..m /\ (Len(h) = k \/ (Len(h) = m /\ m <= k))
  <2> HIDE DEF IsRanking
  <2>1. Len(all) = m /\ m \in Nat /\ Len(h) = IF k <= m THEN k ELSE m
    BY <1>1, <1>3 DEF Min2
  <2> QED BY <2>1
<1>5. \A p \in 1..Len(h) : h[p] \in S
  BY <1>1, <1>3
<1>6. ASSUME NEW p \in 1..Len(h), NEW q \in 1..Len(h), p < q
      PROVE  <<h[p], h[q]>> \in before
  <2>1. p + m - Len(h) < q + m - Len(h)
    BY <1>1, <1>4, <1>6
  <2> QED BY <1>2, <1>3, <2>1
<1>7. ASSUME NEW i \in S
      PROVE  (\E p \in 1..Len(h) : h[p] = i) <=> rank[i] > m - k
  <2>1. ASSUME NEW p \in 1..Len(h), h[p] = i PROVE rank[i] > m - k
    <3>1. rank[i] = p + m - Len(h)
      BY <1>1, <1>3, <2>1
    <3> QED BY <1>1, <1>4, <3>1
  <2>2. ASSUME rank[i] > m - k PROVE \E p \in 1..Len(h) : h[p] = i
    <3>1. rank[i] \in 1..m
      BY <1>1
    <3>2. rank[i] - (m - Len(h)) \in 1..Len(h)
      BY <1>1, <1>4, <2>2, <3>1
    <3>3. (rank[i] - (m - Len(h))) + m - Len(h) = rank[i]
      BY <1>1, <1>4, <3>1
    <3>4. h[rank[i] - (m - Len(h))] = all[rank[i]]
      BY <1>3, <3>2, <3>3
    <3> QED BY <1>1, <3>2, <3>4
  <2> QED BY <2>1, <2>2
<1> QED BY <1>3, <1>5, <1>6, <1>7 DEF Ranked, rank, m, h, all

\* Whatever comes after an element of the end is in the end too.
LEMMA EndClosed ==
  ASSUME NEW S, IsFiniteSet(S), NEW before, Orders(before, S), NEW k \in Nat, NEW h,
         Ranked(h, S, before, k), NEW p \in 1..Len(h), NEW i \in S, <<h[p], i>> \in before
  PROVE  \E q \in 1..Len(h) : h[q] = i
<1> DEFINE rank == RankIn(before, S)
<1>1. h[p] \in S /\ rank[h[p]] > Cardinality(S) - k
  BY DEF Ranked
<1>2. rank[h[p]] < rank[i]
  BY <1>1, RankGrows
<1>3. rank[h[p]] \in 1..Cardinality(S) /\ rank[i] \in 1..Cardinality(S) /\ Cardinality(S) \in Nat
  BY <1>1, RankTyped, FS_CardinalityType
<1> HIDE DEF rank
<1>4. rank[i] > Cardinality(S) - k
  BY <1>1, <1>2, <1>3
<1> QED BY <1>4 DEF Ranked, rank

\* The two kinds of reading, alike.
Reachable(samples, source, n) ==
  IF source = "custom" THEN Held(samples, n) ELSE Of(samples, source, n)
ReadOrder(samples, source, n) ==
  IF source = "custom" THEN CustomOrder(samples, n) ELSE Less(Of(samples, source, n))
ReadLength(source, window) ==
  IF source = "custom" THEN Max2(1, window * Minute) ELSE Min2(RingSize, window * Minute)

LEMMA ReachableIs ==
  ASSUME NEW samples \in Seq(Sample), NEW source, NEW n
  PROVE  /\ Reachable(samples, source, n) \subseteq Of(samples, source, n)
         /\ Reachable(samples, source, n) \subseteq 1..Len(samples)
         /\ IsFiniteSet(Reachable(samples, source, n))
<1>1. Reachable(samples, source, n) \subseteq Of(samples, source, n)
  BY DEF Reachable, Held, Of, IsHeld
<1>2. Reachable(samples, source, n) \subseteq 1..Len(samples)
  BY <1>1 DEF Of
<1>3. Len(samples) \in Nat
  OBVIOUS
<1> QED BY <1>1, <1>2, <1>3, PlacesFinite

LEMMA ReadOrders ==
  ASSUME NEW samples \in Seq(Sample), NEW source, NEW n
  PROVE  Orders(ReadOrder(samples, source, n), Reachable(samples, source, n))
<1>1. CASE source = "custom"
  BY <1>1, CustomOrders DEF ReadOrder, Reachable
<1>2. CASE source # "custom"
  <2>1. Of(samples, source, n) \subseteq Int
    BY DEF Of
  <2> QED BY <1>2, <2>1, LessOrders DEF ReadOrder, Reachable
<1> QED BY <1>1, <1>2

\* A reading is the end of what is reachable, in the order of its kind.
LEMMA ReadIs ==
  ASSUME NEW samples \in Seq(Sample), NEW source, NEW n, NEW window \in Nat
  PROVE  Ranked(Read(samples, source, n, window), Reachable(samples, source, n),
                ReadOrder(samples, source, n), ReadLength(source, window))
<1> DEFINE S == Reachable(samples, source, n)
           k == ReadLength(source, window)
<1>1. IsFiniteSet(S) /\ Orders(ReadOrder(samples, source, n), S)
  BY ReachableIs, ReadOrders
<1>2. k \in Nat
  <2>1. window * Minute \in Nat /\ RingSize \in Nat
    BY PolicyAssumption
  <2> QED BY <2>1 DEF ReadLength, Max2, Min2
<1>3. Read(samples, source, n, window)
        = Last(ByRank(RankIn(ReadOrder(samples, source, n), S)), k)
  <2>1. CASE source = "custom"
    BY <2>1, CustomHistoryIs DEF Read, Reachable, ReadOrder, ReadLength
  <2>2. CASE source # "custom"
    <3>1. Of(samples, source, n)
            = {i \in DOMAIN samples : samples[i].source = source /\ samples[i].node = n}
      BY DEF Of
    <3>2. Read(samples, source, n, window)
            = Last(Ascending(Of(samples, source, n)), Min2(RingSize, window * Minute))
      BY <2>2, <3>1 DEF Read, History
    <3>3. Of(samples, source, n) \subseteq Int
      BY DEF Of
    <3> QED BY <2>2, <3>2, <3>3, AscendingByOrder DEF Reachable, ReadOrder, ReadLength
  <2> QED BY <2>1, <2>2
<1> HIDE DEF S, k
<1> QED BY <1>1, <1>2, <1>3, LastRanked DEF S, k

\* g lists the places of h that are in the scope of a policy, as h orders them.
Selects(g, samples, h, c) ==
  /\ g \in Seq(1..Len(samples))
  /\ Scoped(samples, h, c) = [q \in 1..Len(g) |-> samples[g[q]]]
  /\ \A q \in 1..Len(g) : InScope(samples[g[q]], c) /\ \E p \in 1..Len(h) : h[p] = g[q]
  /\ \A p \in 1..Len(h) : InScope(samples[h[p]], c) => \E q \in 1..Len(g) : g[q] = h[p]
  /\ \A q, r \in 1..Len(g) : q < r =>
       \E x, y \in 1..Len(h) : x < y /\ h[x] = g[q] /\ h[y] = g[r]

LEMMA ScopedIs ==
  ASSUME NEW samples \in Seq(Sample), NEW h \in Seq(1..Len(samples)), NEW c
  PROVE  \E g : Selects(g, samples, h, c)
<1> DEFINE S == {p \in 1..Len(h) : InScope(samples[h[p]], c)}
           fits == Ascending(S)
           g == [q \in 1..Len(fits) |-> h[fits[q]]]
<1>1. /\ fits \in Seq(S)
      /\ \A q \in 1..Len(fits) : fits[q] \in S
      /\ \A q, r \in 1..Len(fits) : q < r => fits[q] < fits[r]
      /\ \A p \in S : \E q \in 1..Len(fits) : fits[q] = p
  <2>1. S \subseteq 1..Len(h) /\ Len(h) \in Nat
    OBVIOUS
  <2>2. IsFiniteSet(S) /\ S \subseteq Int
    BY <2>1, PlacesFinite
  <2> HIDE DEF S
  <2> QED BY <2>2, AscendingIs
<1>2. DOMAIN h = 1..Len(h)
  OBVIOUS
<1>3. Scoped(samples, h, c) = [q \in DOMAIN fits |-> samples[h[fits[q]]]]
  BY <1>2 DEF Scoped
<1> HIDE DEF fits
<1>4. DOMAIN fits = 1..Len(fits) /\ Len(fits) \in Nat
  BY <1>1
<1>5. \A q \in 1..Len(fits) : fits[q] \in 1..Len(h) /\ InScope(samples[h[fits[q]]], c)
  BY <1>1
<1>6. g \in Seq(1..Len(samples)) /\ Len(g) = Len(fits)
  <2>1. \A q \in 1..Len(fits) : h[fits[q]] \in 1..Len(samples)
    BY <1>5
  <2> QED BY <1>4, <2>1
<1>7. \A q \in 1..Len(g) : g[q] = h[fits[q]]
  BY <1>6
<1>8. Scoped(samples, h, c) = [q \in 1..Len(g) |-> samples[g[q]]]
  BY <1>3, <1>4, <1>6
<1>9. \A q \in 1..Len(g) : InScope(samples[g[q]], c) /\ \E p \in 1..Len(h) : h[p] = g[q]
  BY <1>5, <1>6, <1>7
<1>10. \A p \in 1..Len(h) : InScope(samples[h[p]], c) => \E q \in 1..Len(g) : g[q] = h[p]
  BY <1>1, <1>6, <1>7
<1>11. ASSUME NEW q \in 1..Len(g), NEW r \in 1..Len(g), q < r
       PROVE  \E x, y \in 1..Len(h) : x < y /\ h[x] = g[q] /\ h[y] = g[r]
  <2>1. fits[q] < fits[r] /\ fits[q] \in 1..Len(h) /\ fits[r] \in 1..Len(h)
    BY <1>1, <1>5, <1>6, <1>11
  <2> QED BY <1>7, <2>1
<1> QED BY <1>6, <1>8, <1>9, <1>10, <1>11, ZenonT(30) DEF Selects

-----------------------------------------------------------------------------
(* The log and the types. *)

\* Telemetry arrives in the order of its times; a custom sample may come late.
LogInv ==
  /\ log \in Seq(Sample) /\ Len(log) <= MaxSamples
  /\ \A i \in 1..Len(log) : log[i].ts <= now
  /\ \A i, j \in 1..Len(log) :
       log[i].source # "custom" /\ log[j].source # "custom" /\ i < j => log[i].ts <= log[j].ts

\* A sample as it is stored.
LEMMA StoreAppends ==
  ASSUME LogInv, now \in Nat, NEW s \in Sample, NEW free, Store(s, free), s.ts <= now,
         s.source # "custom" => s.ts = now
  PROVE  LogInv'
<1> DEFINE m == Len(log)
<1>1. log' = Append(log, s) /\ now' = now /\ m < MaxSamples /\ log \in Seq(Sample)
  BY DEF Store, LogInv
<1>2. m \in Nat /\ MaxSamples \in Nat
  BY <1>1, PolicyAssumption
<1>3. /\ log' \in Seq(Sample) /\ Len(log') = m + 1
      /\ \A i \in 1..m : log'[i] = log[i]
      /\ log'[m + 1] = s
  BY <1>1
<1>4. \A i \in 1..m : log[i].ts \in Nat
  BY <1>1, SampleAt
<1>5. s.ts \in Nat
  BY DEF Sample
<1> HIDE DEF m
<1>7. \A i \in 1..(m + 1) : i \in 1..m \/ i = m + 1
  BY <1>2
<1>8. \A i \in 1..Len(log') : log'[i].ts <= now'
  <2>1. \A i \in 1..m : log[i].ts <= now
    BY DEF LogInv, m
  <2> QED BY <1>1, <1>3, <1>7, <2>1
<1>9. ASSUME NEW i \in 1..(m + 1), NEW j \in 1..(m + 1),
             log'[i].source # "custom", log'[j].source # "custom", i < j
      PROVE  log'[i].ts <= log'[j].ts
  <2>1. i \in 1..m
    BY <1>2, <1>9
  <2>2. CASE j \in 1..m
    BY <1>3, <1>9, <2>1, <2>2 DEF LogInv, m
  <2>3. CASE j = m + 1
    BY <1>3, <1>9, <2>1, <2>3 DEF LogInv, m
  <2> QED BY <1>7, <2>2, <2>3
<1>11. Len(log') <= MaxSamples
  BY <1>1, <1>2, <1>3
<1> QED BY <1>3, <1>8, <1>9, <1>11 DEF LogInv

LEMMA IngestKeepsLog ==
  ASSUME LogInv, now \in Nat, IngestBatch \/ PostCustomMetrics
  PROVE  LogInv'
<1>1. CASE IngestBatch
  <2>1. PICK source \in Sources \ {"custom"}, n \in Nodes, bad \in BOOLEAN,
             j \in Jobs \cup {None} :
          Store([source |-> source, node |-> n, job |-> j, ts |-> now, bad |-> bad], TRUE)
    BY <1>1 DEF IngestBatch
  <2> DEFINE s == [source |-> source, node |-> n, job |-> j, ts |-> now, bad |-> bad]
  <2>2. s \in Sample /\ s.ts = now
    BY DEF Sample
  <2> HIDE DEF s
  <2>3. Store(s, TRUE)
    BY <2>1 DEF s
  <2>4. now <= now
    OBVIOUS
  <2>5. s.ts <= now
    BY <2>2, <2>4
  <2> QED BY <2>2, <2>3, <2>5, StoreAppends
<1>2. CASE PostCustomMetrics
  <2>1. PICK n \in Nodes, j \in Jobs, bad \in BOOLEAN, age \in 0..Min2(MaxDelay, now) :
          Store([source |-> "custom", node |-> n, job |-> j, ts |-> now - age, bad |-> bad],
                EventLoopFree)
    BY <1>2 DEF PostCustomMetrics
  <2> DEFINE s == [source |-> "custom", node |-> n, job |-> j, ts |-> now - age, bad |-> bad]
  <2>2. age \in Nat /\ age <= now
    BY PolicyAssumption DEF Min2
  <2>3. s \in Sample /\ s.ts <= now /\ s.source = "custom"
    BY <1>2, <2>2 DEF Sample, PostCustomMetrics
  <2> HIDE DEF s
  <2>4. Store(s, EventLoopFree)
    BY <2>1 DEF s
  <2> QED BY <2>3, <2>4, StoreAppends
<1> QED BY <1>1, <1>2

LEMMA LogStep ==
  ASSUME LogInv, PolicyInv, [Next]_vars
  PROVE  LogInv'
<1>0. now \in Nat
  BY DEF PolicyInv, ClocksInv
<1>1. CASE IngestBatch \/ PostCustomMetrics
  BY <1>0, <1>1, IngestKeepsLog
<1>2. CASE UNCHANGED log /\ now' \in Nat /\ now <= now'
  <2>1. \A i \in 1..Len(log) : log[i].ts \in Nat
    BY SampleAt DEF LogInv
  <2>2. \A i \in 1..Len(log') : log'[i].ts <= now'
    BY <1>0, <1>2, <2>1 DEF LogInv
  <2> QED BY <1>2, <2>2 DEF LogInv
<1>3. CASE Handlers \/ Pass \/ Tick \/ UNCHANGED vars
  <2>1. UNCHANGED log /\ (now' = now \/ now' = now + 1)
    BY <1>3 DEF Handlers, CreatePolicy, UpdatePolicy, DeletePolicy, Pass, StartPass, NextPolicy,
                EvaluateNode, PolicyDone, EndPass, Tick, vars
  <2> QED BY <1>0, <1>2, <2>1
<1> QED BY <1>1, <1>3 DEF Next

LEMMA LogInvariant == Spec => []LogInv
<1>1. Init => LogInv
  BY PolicyAssumption DEF Init, LogInv
<1>2. LogInv /\ PolicyInv /\ [Next]_vars => LogInv'
  BY LogStep
<1> QED BY <1>1, <1>2, PolicyInvariant, PTL DEF Spec

\* What a pass reads for a policy and a node.
ReadFor(c, n) == Read(log, c.source, n, WindowMinutes(c))

LEMMA ConfigTyped ==
  ASSUME NEW c, IsConfig(c)
  PROVE  /\ c.for \in Nat /\ c.cooldown \in Nat /\ c.job \in Jobs \cup {None}
         /\ c.node \in Nodes \cup {None} /\ c.stale \in BOOLEAN /\ c.enabled \in BOOLEAN
         /\ WindowMinutes(c) \in Nat
<1>1. /\ {"for", "cooldown", "job", "node", "stale", "enabled"} \subseteq DOMAIN Fields
      /\ Fields["for"] = Nat /\ Fields["cooldown"] = Nat /\ Fields["job"] = Jobs \cup {None}
      /\ Fields["node"] = Nodes \cup {None} /\ Fields["stale"] = BOOLEAN
      /\ Fields["enabled"] = BOOLEAN
  BY DEF Fields
<1>2. \A f \in DOMAIN Fields : c[f] \in Fields[f]
  BY DEF IsConfig, HasFields
<1>3. /\ c.for \in Nat /\ c.cooldown \in Nat /\ c.job \in Jobs \cup {None}
      /\ c.node \in Nodes \cup {None} /\ c.stale \in BOOLEAN /\ c.enabled \in BOOLEAN
  BY <1>1, <1>2
<1>4. Minute \in Nat \ {0} /\ DefaultMinutes \in Nat
  BY PolicyAssumption
<1>5. c.for \div Minute + 2 \in Nat
  BY <1>3, <1>4
<1>6. WindowMinutes(c) \in Nat
  BY <1>4, <1>5 DEF WindowMinutes, Max2
<1> QED BY <1>3, <1>6

\* The samples that a pass judges.
LEMMA ReadForIs ==
  ASSUME LogInv, NEW c, IsConfig(c), NEW n
  PROVE  \E g : /\ Selects(g, log, ReadFor(c, n), c)
                /\ Ranked(ReadFor(c, n), Reachable(log, c.source, n),
                          ReadOrder(log, c.source, n), ReadLength(c.source, WindowMinutes(c)))
<1>1. log \in Seq(Sample) /\ WindowMinutes(c) \in Nat
  BY ConfigTyped DEF LogInv
<1>2. Ranked(ReadFor(c, n), Reachable(log, c.source, n), ReadOrder(log, c.source, n),
             ReadLength(c.source, WindowMinutes(c)))
  BY <1>1, ReadIs DEF ReadFor
<1>3. ReadFor(c, n) \in Seq(1..Len(log))
  <2>1. Reachable(log, c.source, n) \subseteq 1..Len(log)
    BY <1>1, ReachableIs
  <2>2. ReadFor(c, n) \in Seq(Reachable(log, c.source, n))
    BY <1>2 DEF Ranked
  <2> QED BY <2>1, <2>2
<1> QED BY <1>1, <1>2, <1>3, ScopedIs

LEMMA ScopedTyped ==
  ASSUME NEW samples \in Seq(Sample), NEW h, NEW c, NEW g, Selects(g, samples, h, c)
  PROVE  /\ Scoped(samples, h, c) \in Seq(Sample) /\ Len(Scoped(samples, h, c)) = Len(g)
         /\ \A q \in 1..Len(g) : Scoped(samples, h, c)[q] = samples[g[q]]
         /\ Scoped(samples, h, c) # <<>> => Len(g) # 0
<1>1. /\ Scoped(samples, h, c) = [q \in 1..Len(g) |-> samples[g[q]]]
      /\ g \in Seq(1..Len(samples))
  BY DEF Selects
<1>2. Len(g) \in Nat /\ \A q \in 1..Len(g) : samples[g[q]] \in Sample
  BY <1>1
<1> QED BY <1>1, <1>2

LEMMA KeyTyped ==
  ASSUME LogInv, PolicyInv, current \in PolicyIds, current \in DOMAIN listed, NEW n \in Nodes,
         NEW samples, samples = Scoped(log, ReadFor(listed[current], n), listed[current]),
         Violated(samples, listed[current])
  PROVE  KeyOf(current, n, samples) \in Keys
<1> DEFINE c == listed[current]
<1>1. IsConfig(c)
  BY DEF PolicyInv, PassInv
<1>2. log \in Seq(Sample)
  BY DEF LogInv
<1>3. samples \in Seq(Sample)
  BY <1>1, <1>2, ReadForIs, ScopedTyped
<1>4. samples # <<>>
  BY DEF Violated
<1>5. samples[Len(samples)].job \in Jobs \cup {None}
  <2>1. Len(samples) \in 1..Len(samples)
    BY <1>3, <1>4
  <2> QED BY <1>3, <2>1, SampleAt
<1>6. c.job \in Jobs \cup {None}
  BY <1>1, ConfigTyped
<1> QED BY <1>5, <1>6 DEF KeyOf, Keys

-----------------------------------------------------------------------------

\* Of what the pass holds, the part that TypeOK is about: the empty function, when idle,
\* is what is left of the copies.
PassTyped ==
  /\ listed = [p \in DOMAIN listed |-> listed[p]]
  /\ current = None => todo = {}

TypeInv == TypeOK /\ PassTyped

LEMMA TypeHandlers ==
  ASSUME TypeInv, PolicyInv, Handlers
  PROVE  TypeInv'
<1>1. PICK p \in PolicyIds : CreatePolicy(p) \/ UpdatePolicy(p) \/ DeletePolicy(p)
  BY DEF Handlers
<1>2. UNCHANGED <<now, log, passVars>>
  BY <1>1 DEF CreatePolicy, UpdatePolicy, DeletePolicy
<1>3. DOMAIN policies' \subseteq PolicyIds
  <2>1. CASE CreatePolicy(p)
    BY <2>1 DEF CreatePolicy, With, TypeInv, TypeOK
  <2>2. CASE UpdatePolicy(p)
    BY <2>2, UpdateWrites DEF TypeInv, TypeOK
  <2>3. CASE DeletePolicy(p)
    BY <2>3 DEF DeletePolicy, TypeInv, TypeOK
  <2> QED BY <1>1, <2>1, <2>2, <2>3
<1>4. /\ DOMAIN cooldowns' \subseteq DOMAIN cooldowns
      /\ \A k \in DOMAIN cooldowns' : cooldowns'[k] = cooldowns[k]
  BY <1>1 DEF CreatePolicy, UpdatePolicy, DeletePolicy, Without
<1> QED BY <1>2, <1>3, <1>4 DEF TypeInv, TypeOK, PassTyped, passVars

LEMMA TypeStart ==
  ASSUME TypeInv, StartPass
  PROVE  TypeInv'
<1>1. /\ UNCHANGED <<now, log, policies, cooldowns, current, todo>>
      /\ pass' = "run" /\ passNow' = now
  BY DEF StartPass, storeVars
<1>2. listed' = [p \in DOMAIN listed' |-> listed'[p]] /\ DOMAIN listed' \subseteq DOMAIN policies
  BY DEF StartPass
<1> QED BY <1>1, <1>2 DEF TypeInv, TypeOK, PassTyped

LEMMA TypeNext ==
  ASSUME TypeInv, PolicyInv, NextPolicy
  PROVE  TypeInv'
<1>1. UNCHANGED <<now, log, policies, cooldowns, listed, pass, passNow>> /\ pass = "run"
  BY DEF NextPolicy, storeVars
<1>2. PICK p \in DOMAIN listed :
        /\ current' = p
        /\ todo' = IF listed[p].node = None THEN KnownNodes(log) ELSE {listed[p].node}
  BY DEF NextPolicy
<1>3. p \in PolicyIds /\ p # None
  BY PolicyAssumption DEF TypeInv, TypeOK
<1>4. KnownNodes(log) \subseteq Nodes
  <2>1. \A i \in DOMAIN log : log[i].node \in Nodes
    BY SampleAt DEF TypeInv, TypeOK
  <2> QED BY <2>1 DEF KnownNodes
<1>5. listed[p].node \in Nodes \cup {None}
  BY ConfigTyped DEF PolicyInv, PassInv
<1>6. todo' \subseteq Nodes
  BY <1>2, <1>4, <1>5
<1> QED BY <1>1, <1>2, <1>3, <1>6 DEF TypeInv, TypeOK, PassTyped

LEMMA TypeEvaluate ==
  ASSUME TypeInv, PolicyInv, LogInv, EvaluateNode
  PROVE  TypeInv'
<1>1. /\ pass = "run" /\ current # None
      /\ UNCHANGED <<now, log, pass, passNow, listed, current>>
  BY DEF EvaluateNode
<1>2. PICK n \in todo :
        LET samples == Scoped(log, ReadFor(listed[current], n), listed[current])
            key == KeyOf(current, n, samples)
        IN /\ todo' = todo \ {n}
           /\ \/ /\ Violated(samples, listed[current])
                 /\ Fire(key, listed[current].cooldown)
              \/ UNCHANGED storeVars
  BY DEF EvaluateNode, ReadFor
<1>3. n \in Nodes /\ todo' \subseteq Nodes /\ current \in PolicyIds /\ current \in DOMAIN listed
  BY <1>1, <1>2 DEF TypeInv, TypeOK, PolicyInv, PassInv
<1>4. /\ DOMAIN policies' \subseteq PolicyIds /\ DOMAIN cooldowns' \subseteq Keys
      /\ \A k \in DOMAIN cooldowns' : cooldowns'[k] \in 0..now
  <2>1. CASE UNCHANGED storeVars
    BY <2>1 DEF storeVars, TypeInv, TypeOK
  <2>2. CASE ~UNCHANGED storeVars
    <3> DEFINE samples == Scoped(log, ReadFor(listed[current], n), listed[current])
               key == KeyOf(current, n, samples)
    <3>1. Violated(samples, listed[current]) /\ Fire(key, listed[current].cooldown)
      BY <1>2, <2>2
    <3>2. key \in Keys
      BY <1>3, <3>1, KeyTyped
    <3>3. passNow \in 0..now
      BY DEF PolicyInv, ClocksInv
    <3> HIDE DEF key, samples
    <3>4. cooldowns' = With(cooldowns, key, passNow) /\ DOMAIN policies' = DOMAIN policies
      BY <3>1 DEF Fire, MarkTriggered
    <3> QED BY <3>2, <3>3, <3>4 DEF With, TypeInv, TypeOK
  <2> QED BY <2>1, <2>2
<1> QED BY <1>1, <1>3, <1>4 DEF TypeInv, TypeOK, PassTyped

LEMMA TypeDone ==
  ASSUME TypeInv, PolicyInv, PolicyDone
  PROVE  TypeInv'
<1>1. /\ UNCHANGED <<now, log, policies, cooldowns, pass, passNow, todo>>
      /\ current' = None /\ todo = {} /\ current # None
  BY DEF PolicyDone, storeVars
<1>2. listed' = [p \in DOMAIN listed' |-> listed'[p]] /\ DOMAIN listed' \subseteq DOMAIN listed
  BY DEF PolicyDone
<1>3. pass # "idle"
  BY <1>1 DEF PolicyInv, PassInv
<1> QED BY <1>1, <1>2, <1>3 DEF TypeInv, TypeOK, PassTyped

LEMMA TypeEnd ==
  ASSUME TypeInv, PolicyInv, EndPass
  PROVE  TypeInv'
<1>1. /\ UNCHANGED <<now, log, policies, cooldowns, listed, current, todo>>
      /\ pass' = "idle" /\ passNow' = 0 /\ DOMAIN listed = {}
  BY DEF EndPass, Evaluated, storeVars
<1>2. current = None /\ todo = {}
  BY <1>1 DEF PolicyInv, PassInv, TypeInv, PassTyped
<1>3. listed = <<>>
  BY <1>1 DEF TypeInv, PassTyped
<1> QED BY <1>1, <1>2, <1>3 DEF TypeInv, TypeOK, PassTyped

LEMMA TypeStep ==
  ASSUME TypeInv, PolicyInv, LogInv, LogInv', [Next]_vars
  PROVE  TypeInv'
<1>1. CASE IngestBatch \/ PostCustomMetrics
  <2>1. UNCHANGED <<now, storeVars, passVars>>
    BY <1>1 DEF IngestBatch, PostCustomMetrics, Store
  <2> QED BY <2>1 DEF LogInv, TypeInv, TypeOK, PassTyped, storeVars, passVars
<1>2. CASE Handlers
  BY <1>2, TypeHandlers
<1>3. CASE Pass
  BY <1>3, TypeStart, TypeNext, TypeEvaluate, TypeDone, TypeEnd DEF Pass
<1>4. CASE Tick
  <2>1. now' = now + 1 /\ UNCHANGED <<log, storeVars, passVars>>
    BY <1>4 DEF Tick
  <2>2. \A k \in DOMAIN cooldowns : cooldowns[k] \in 0..(now + 1)
    BY DEF TypeInv, TypeOK
  <2> QED BY <2>1, <2>2 DEF TypeInv, TypeOK, PassTyped, storeVars, passVars
<1>5. CASE UNCHANGED vars
  BY <1>5 DEF vars, TypeInv, TypeOK, PassTyped, storeVars, passVars
<1> QED BY <1>1, <1>2, <1>3, <1>4, <1>5 DEF Next

LEMMA TypeInvariant == Spec => []TypeInv
<1>1. Init => TypeInv
  BY DEF Init, TypeInv, TypeOK, PassTyped
<1>2. TypeInv /\ PolicyInv /\ LogInv /\ LogInv' /\ [Next]_vars => TypeInv'
  BY TypeStep
<1> QED BY <1>1, <1>2, PolicyInvariant, LogInvariant, PTL DEF Spec

\* Whatever is requested, stored and evaluated, the store keeps policies under ids,
\* cooldowns under a policy, a node and a job, none of them in the future, and a pass
\* leaves nothing behind.
THEOREM PolicyTypeInvariant == Spec => []TypeOK
<1>1. TypeInv => TypeOK
  BY DEF TypeInv
<1> QED BY <1>1, TypeInvariant, PTL

-----------------------------------------------------------------------------
(* The trailing run of samples that agree. *)

AgreesAt(s, c, i) == IF c.stale THEN s[i].bad = s[Len(s)].bad ELSE s[i].bad
IsStart(s, c, i) == /\ \A k \in i..Len(s) : AgreesAt(s, c, k)
                    /\ i = 1 \/ ~AgreesAt(s, c, i - 1)
StartOf(s, c) == CHOOSE i \in DOMAIN s : IsStart(s, c, i)

LEMMA ViolatedIs ==
  ASSUME NEW s, NEW c
  PROVE  Violated(s, c) <=>
           /\ s # <<>> /\ AgreesAt(s, c, Len(s))
           /\ s[Len(s)].ts - s[StartOf(s, c)].ts >= c.for \/ (~c.stale /\ c.for = 0)
  BY Zenon DEF Violated, AgreesAt, IsStart, StartOf

LEMMA StartIs ==
  ASSUME NEW s \in Seq(Sample), NEW c, s # <<>>, AgreesAt(s, c, Len(s))
  PROVE  StartOf(s, c) \in 1..Len(s) /\ IsStart(s, c, StartOf(s, c))
<1> DEFINE m == Len(s)
           T == {i \in 1..m : \A k \in i..m : AgreesAt(s, c, k)}
<1>1. m \in Nat \ {0} /\ DOMAIN s = 1..m
  OBVIOUS
<1> HIDE DEF m
<1>2. T \in SUBSET Nat
  OBVIOUS
<1>3. m \in T
  <2>1. \A k \in m..m : k = m
    BY <1>1
  <2>2. \A k \in m..m : AgreesAt(s, c, k)
    BY <2>1 DEF m
  <2> QED BY <1>1, <2>2
<1>4. PICK i \in T : \A j \in T : i <= j
  BY <1>2, <1>3, Least
<1>5. i = 1 \/ ~AgreesAt(s, c, i - 1)
  <2> SUFFICES ASSUME i # 1, AgreesAt(s, c, i - 1) PROVE FALSE
    OBVIOUS
  <2>1. i - 1 \in 1..m /\ ~(i <= i - 1)
    BY <1>1
  <2>2. \A k \in (i - 1)..m : k = i - 1 \/ k \in i..m
    BY <1>1
  <2>3. \A k \in (i - 1)..m : AgreesAt(s, c, k)
    BY <2>2
  <2> QED BY <1>4, <2>1, <2>3
<1>6. i \in DOMAIN s /\ IsStart(s, c, i)
  BY <1>1, <1>5 DEF IsStart, m
<1>7. StartOf(s, c) \in DOMAIN s /\ IsStart(s, c, StartOf(s, c))
  BY <1>6 DEF StartOf
<1> QED BY <1>1, <1>7 DEF m

\* The order of a reading is one of times.
LEMMA ReadByTime ==
  ASSUME LogInv, NEW source, NEW n, NEW a \in Reachable(log, source, n),
         NEW b \in Reachable(log, source, n), <<a, b>> \in ReadOrder(log, source, n)
  PROVE  log[a].ts <= log[b].ts
<1>1. log \in Seq(Sample)
  BY DEF LogInv
<1>2. a \in Of(log, source, n) /\ b \in Of(log, source, n)
  BY <1>1, ReachableIs
<1>3. /\ a \in 1..Len(log) /\ log[a].source = source
      /\ b \in 1..Len(log) /\ log[b].source = source
  BY <1>2 DEF Of
<1>4. log[a].ts \in Nat /\ log[b].ts \in Nat
  BY <1>1, <1>3, SampleAt
<1>5. CASE source = "custom"
  <2>1. Before(log, a, b)
    BY <1>5 DEF ReadOrder, CustomOrder
  <2> QED BY <1>4, <2>1 DEF Before
<1>6. CASE source # "custom"
  <2>1. a < b
    BY <1>6 DEF ReadOrder, Less
  <2> QED BY <1>3, <1>6, <2>1 DEF LogInv
<1> QED BY <1>5, <1>6

\* What a pass reads is in the order of its times, and about the policy and the node.
LEMMA ReadSorted ==
  ASSUME LogInv, NEW c, IsConfig(c), NEW n, NEW g, Selects(g, log, ReadFor(c, n), c),
         Ranked(ReadFor(c, n), Reachable(log, c.source, n), ReadOrder(log, c.source, n),
                ReadLength(c.source, WindowMinutes(c)))
  PROVE  /\ \A q \in 1..Len(g) : g[q] \in About(c, n, Len(log)) /\ g[q] \in 1..Len(log)
         /\ \A q, r \in 1..Len(g) : q < r => log[g[q]].ts <= log[g[r]].ts
<1> DEFINE h == ReadFor(c, n)
<1>1. log \in Seq(Sample)
  BY DEF LogInv
<1>2. Reachable(log, c.source, n) \subseteq Of(log, c.source, n)
  BY <1>1, ReachableIs
<1>3. \A p \in 1..Len(h) : h[p] \in 1..Len(log) /\ log[h[p]].source = c.source
                                             /\ log[h[p]].node = n
  BY <1>2 DEF Ranked, Of
<1>4. ASSUME NEW x \in 1..Len(h), NEW y \in 1..Len(h), x < y
      PROVE  log[h[x]].ts <= log[h[y]].ts
  <2>1. /\ <<h[x], h[y]>> \in ReadOrder(log, c.source, n)
        /\ h[x] \in Reachable(log, c.source, n) /\ h[y] \in Reachable(log, c.source, n)
    BY <1>4 DEF Ranked
  <2> QED BY <2>1, ReadByTime
<1>5. \A q \in 1..Len(g) : g[q] \in About(c, n, Len(log)) /\ g[q] \in 1..Len(log)
  BY <1>3 DEF Selects, About
<1>6. ASSUME NEW q \in 1..Len(g), NEW r \in 1..Len(g), q < r
      PROVE  log[g[q]].ts <= log[g[r]].ts
  <2>1. PICK x, y \in 1..Len(h) : x < y /\ h[x] = g[q] /\ h[y] = g[r]
    BY <1>6 DEF Selects
  <2>2. log[h[x]].ts <= log[h[y]].ts
    BY <1>4, <2>1
  <2> HIDE DEF h
  <2> QED BY <2>1, <2>2
<1> QED BY <1>5, <1>6

-----------------------------------------------------------------------------
(* A sustained violation is reported. *)

\* The samples about a policy and a node that its window reaches.
Reached(c, n) ==
  {i \in 1..Len(log) : InScope(log[i], c) /\ \E p \in 1..Len(ReadFor(c, n)) : ReadFor(c, n)[p] = i}

\* A violation holds from a sample a on, for long enough by a sample z.
Holds(c, n, a, z) ==
  /\ log[z].ts - log[a].ts >= c.for
  /\ \A b \in About(c, n, Len(log)) : log[b].ts >= log[a].ts => log[b].bad

LEMMA HoldsViolated ==
  ASSUME LogInv, NEW c, IsConfig(c), ~c.stale, NEW n, NEW a \in Reached(c, n),
         NEW z \in Reached(c, n), Holds(c, n, a, z)
  PROVE  Violated(Scoped(log, ReadFor(c, n), c), c)
<1> DEFINE h == ReadFor(c, n)
           s == Scoped(log, h, c)
<1>1. PICK g : /\ Selects(g, log, h, c)
               /\ Ranked(h, Reachable(log, c.source, n), ReadOrder(log, c.source, n),
                         ReadLength(c.source, WindowMinutes(c)))
  BY ReadForIs
<1>2. /\ \A q \in 1..Len(g) : g[q] \in About(c, n, Len(log)) /\ g[q] \in 1..Len(log)
      /\ \A q, r \in 1..Len(g) : q < r => log[g[q]].ts <= log[g[r]].ts
  BY <1>1, ReadSorted
<1>3. log \in Seq(Sample) /\ c.for \in Nat
  BY ConfigTyped DEF LogInv
<1>4. /\ s \in Seq(Sample) /\ Len(s) = Len(g)
      /\ \A q \in 1..Len(g) : s[q] = log[g[q]]
  BY <1>1, <1>3, ScopedTyped
<1>0. \A i \in Reached(c, n) : \E x \in 1..Len(g) : g[x] = i
  <2>1. \A i \in Reached(c, n) : InScope(log[i], c) /\ \E p \in 1..Len(h) : h[p] = i
    BY DEF Reached
  <2>2. \A p \in 1..Len(h) : InScope(log[h[p]], c) => \E x \in 1..Len(g) : g[x] = h[p]
    BY <1>1 DEF Selects
  <2> HIDE DEF h
  <2> QED BY <2>1, <2>2
<1>5. PICK x \in 1..Len(g) : g[x] = a
  BY <1>0
<1>6. PICK y \in 1..Len(g) : g[y] = z
  BY <1>0
<1> HIDE DEF h, s
<1> DEFINE m == Len(s)
<1>7. /\ m \in Nat \ {0} /\ x \in 1..m /\ y \in 1..m /\ m \in 1..m
      /\ \A q \in 1..m : s[q].ts \in Nat
      /\ s[x].ts = log[a].ts /\ s[y].ts = log[z].ts
  <2>1. \A q \in 1..Len(s) : s[q].ts \in Nat
    BY <1>4, SampleAt
  <2> QED BY <1>4, <1>5, <1>6, <2>1
<1>8. /\ \A q, r \in 1..m : q <= r => s[q].ts <= s[r].ts
      /\ s[y].ts - s[x].ts >= c.for
      /\ \A q \in 1..m : s[q].ts >= s[x].ts => s[q].bad
  <2>0. m = Len(g) /\ \A q \in 1..m : s[q].ts = log[g[q]].ts
    BY <1>4
  <2>1. \A q, r \in 1..m : q < r => s[q].ts <= s[r].ts
    <3> HIDE DEF m
    <3> QED BY <1>2, <2>0
  <2>2. \A q, r \in 1..m : q <= r => s[q].ts <= s[r].ts
    BY <1>7, <2>1
  <2>3. \A q \in 1..m : s[q].ts >= s[x].ts => s[q].bad
    BY <1>2, <1>4, <1>7 DEF Holds
  <2> QED BY <1>7, <2>2, <2>3 DEF Holds
<1>9. \A i \in 1..m : AgreesAt(s, c, i) <=> s[i].bad
  BY Zenon DEF AgreesAt
<1>10. AgreesAt(s, c, m)
  <2>1. s[x].ts <= s[m].ts
    BY <1>7, <1>8
  <2>2. s[m].bad
    BY <1>7, <1>8, <2>1
  <2> QED BY <1>7, <1>9, <2>2
<1> DEFINE start == StartOf(s, c)
<1>11. start \in 1..m /\ IsStart(s, c, start)
  BY <1>4, <1>7, <1>10, StartIs
<1> HIDE DEF start, m
<1>12. start <= x
  <2> SUFFICES ASSUME start > x PROVE FALSE
    BY <1>7, <1>11
  <2>1. start # 1 /\ start - 1 \in 1..m /\ x <= start - 1
    BY <1>7, <1>11
  <2>2. ~s[start - 1].bad
    BY <1>9, <1>11, <2>1 DEF IsStart
  <2>3. s[x].ts <= s[start - 1].ts
    BY <1>7, <1>8, <2>1
  <2> QED BY <1>7, <1>8, <2>1, <2>2, <2>3
<1>13. s[start].ts <= s[x].ts /\ s[y].ts <= s[m].ts
  BY <1>7, <1>8, <1>11, <1>12
<1>14. s[m].ts - s[start].ts >= c.for
  <2>1. s[start].ts \in Nat /\ s[x].ts \in Nat /\ s[y].ts \in Nat /\ s[m].ts \in Nat
    BY <1>7, <1>11
  <2> QED BY <1>3, <1>8, <1>13, <2>1, SMTT(30)
<1> QED BY <1>4, <1>7, <1>10, <1>14, ViolatedIs DEF m, start, s, h

Has(h, i) == \E p \in 1..Len(h) : h[p] = i

\* A sample of telemetry that arrives makes nothing that was stored before it reachable.
LEMMA HeldKept ==
  ASSUME NEW samples \in Seq(Sample), NEW s \in Sample, s.source # "custom", NEW n,
         NEW all, all = Append(samples, s)
  PROVE  Held(all, n) = Held(samples, n) /\ CustomOrder(all, n) = CustomOrder(samples, n)
<1> DEFINE m == Len(samples)
<1>1. /\ m \in Nat /\ Len(all) = m + 1
      /\ \A i \in 1..m : all[i] = samples[i]
      /\ all[m + 1] = s
  OBVIOUS
<1> HIDE DEF m
<1>2. ASSUME NEW i \in 1..m
      PROVE  IsHeld(all, i) <=> IsHeld(samples, i)
  <2>1. \A k \in i..(m + 1) : k \in i..m \/ k = m + 1
    BY <1>1
  <2>2. \A k \in i..m : k \in i..(m + 1) /\ k \in 1..m
    BY <1>1
  <2>3. {k \in i..Len(all) : all[k].source = "custom" /\ all[k].job = all[i].job}
          = {k \in i..m : samples[k].source = "custom" /\ samples[k].job = samples[i].job}
    BY <1>1, <2>1, <2>2
  <2> QED BY <1>1, <2>3 DEF IsHeld, m
<1>3. ~IsHeld(all, m + 1)
  BY <1>1 DEF IsHeld
<1>4. \A i \in 1..(m + 1) : i \in 1..m \/ i = m + 1
  BY <1>1
<1>5. \A i \in 1..m : i \in 1..(m + 1)
  BY <1>1
<1>6. Held(all, n) = Held(samples, n)
  BY <1>1, <1>2, <1>3, <1>4, <1>5 DEF Held, m
<1>7. \A i \in Held(samples, n) : i \in 1..m
  BY DEF Held, m
<1>8. ASSUME NEW i \in 1..m
      PROVE  First(all, i) = First(samples, i)
  <2>1. \A k \in 1..i : k \in 1..m
    BY <1>1
  <2>2. Opened(all, i) = Opened(samples, i)
    BY <1>1, <2>1 DEF Opened
  <2> QED BY <2>2 DEF First
<1>9. \A a, b \in Held(samples, n) : Before(all, a, b) <=> Before(samples, a, b)
  BY <1>1, <1>7, <1>8 DEF Before
<1>10. CustomOrder(all, n) = CustomOrder(samples, n)
  BY <1>6, <1>9 DEF CustomOrder
<1> QED BY <1>6, <1>10

LEMMA ReadShrinks ==
  ASSUME NEW samples \in Seq(Sample), NEW s \in Sample, s.source # "custom", NEW source, NEW n,
         NEW window \in Nat, NEW all, all = Append(samples, s), NEW i \in 1..Len(samples),
         Has(Read(all, source, n, window), i)
  PROVE  Has(Read(samples, source, n, window), i)
<1> DEFINE m == Len(samples)
           S == Reachable(samples, source, n)
           T == Reachable(all, source, n)
           k == ReadLength(source, window)
           before == ReadOrder(samples, source, n)
           after == ReadOrder(all, source, n)
<1>1. /\ all \in Seq(Sample) /\ m \in Nat /\ Len(all) = m + 1
      /\ \A x \in 1..m : all[x] = samples[x]
  OBVIOUS
<1>2. /\ Ranked(Read(all, source, n, window), T, after, k)
      /\ Ranked(Read(samples, source, n, window), S, before, k)
      /\ IsFiniteSet(S) /\ IsFiniteSet(T)
  BY <1>1, ReadIs, ReachableIs
<1>3. i \in T /\ RankIn(after, T)[i] > Cardinality(T) - k
  BY <1>2 DEF Ranked, Has
<1>4. i \in S /\ S \subseteq T /\ NotAfter(after, T, i) = NotAfter(before, S, i)
  <2>1. CASE source = "custom"
    <3>1. T = S /\ after = before
      BY <2>1, HeldKept DEF Reachable, ReadOrder
    <3> QED BY <1>3, <3>1
  <2>2. CASE source # "custom"
    <3>1. \A x \in 1..(m + 1) : x \in 1..m \/ x = m + 1
      BY <1>1
    <3>2. \A x \in 1..m : x \in 1..(m + 1) /\ ~(m + 1 <= x) /\ ~(m + 1 < x) /\ m + 1 # x
      BY <1>1
    <3> HIDE DEF m
    <3>3. S = {x \in T : x \in 1..m} /\ \A x \in T : x \in 1..m \/ x = m + 1
      BY <1>1, <2>2, <3>1, <3>2 DEF Reachable, Of, m
    <3>4. i \in 1..m
      BY DEF m
    <3>5. NotAfter(after, T, i) = NotAfter(before, S, i)
      BY <1>3, <2>2, <3>2, <3>3, <3>4 DEF NotAfter, ReadOrder, Less, Reachable
    <3> QED BY <1>3, <3>3, <3>4, <3>5
  <2> QED BY <2>1, <2>2
<1>5. RankIn(before, S)[i] = RankIn(after, T)[i]
  BY <1>3, <1>4 DEF RankIn
<1>6. Cardinality(S) <= Cardinality(T) /\ Cardinality(S) \in Nat /\ Cardinality(T) \in Nat
  BY <1>2, <1>4, FS_Subset, FS_CardinalityType
<1>7. k \in Nat
  <2>1. window * Minute \in Nat /\ RingSize \in Nat
    BY PolicyAssumption
  <2> QED BY <2>1 DEF ReadLength, Max2, Min2
<1>8. RankIn(before, S)[i] \in Int
  BY <1>2, <1>4, RankTyped, <1>6
<1> HIDE DEF S, T, k, before, after
<1>9. RankIn(before, S)[i] > Cardinality(S) - k
  BY <1>3, <1>5, <1>6, <1>7, <1>8
<1> QED BY <1>2, <1>4, <1>9 DEF Ranked, Has

\* A violation is due at a policy and a node when it holds, from samples stored before the
\* pass began that the window still reaches.
Due(p, n) ==
  LET c == policies[p].config IN
    /\ c.enabled /\ ~c.stale
    /\ c.node = n \/ (c.node = None /\ n \in KnownNodes(SubSeq(log, 1, begin)))
    /\ \E a, z \in Reached(c, n) \cap 1..begin : Holds(c, n, a, z)

\* The pass is past a policy and a node.
Visited(p, n) == p \notin DOMAIN listed \/ (p = current /\ n \notin todo)

\* During a pass: the copies are still what the store has, and of what the pass is past,
\* everything that is due was told.
VisitInv ==
  pass = "run" =>
    /\ begin \in 0..Len(log)
    /\ \A p \in DOMAIN listed : listed[p] = policies[p].config
    /\ \A p \in DOMAIN policies, n \in Nodes : Visited(p, n) /\ Due(p, n) => Told(p, n)

LEMMA VisitStart ==
  ASSUME VisitInv, PolicyInv, LogInv, TypeInv, StartPass
  PROVE  VisitInv'
<1>1. /\ UNCHANGED <<policies, log>> /\ begin' = Len(log) /\ current' = None
      /\ Len(log) \in Nat
  BY DEF StartPass, storeVars, LogInv, PolicyInv, PassInv
<1>2. /\ DOMAIN listed' = {q \in DOMAIN policies : policies[q].config.enabled}
      /\ \A p \in DOMAIN listed' : listed'[p] = policies[p].config
  BY DEF StartPass
<1>3. ASSUME NEW p \in DOMAIN policies, NEW n \in Nodes, Visited(p, n)', Due(p, n)'
      PROVE  FALSE
  <2>1. p # None
    BY PolicyAssumption DEF TypeInv, TypeOK
  <2> QED BY <1>1, <1>2, <1>3, <2>1 DEF Visited, Due
<1> QED BY <1>1, <1>2, <1>3 DEF VisitInv

\* What is due once a sample of telemetry is stored was due before.
LEMMA ReachedEarlier ==
  ASSUME LogInv, NEW s \in Sample, s.source # "custom", log' = Append(log, s),
         NEW c, IsConfig(c), NEW n, NEW i \in Reached(c, n)', i \in 1..Len(log)
  PROVE  i \in Reached(c, n)
<1>1. log \in Seq(Sample) /\ log'[i] = log[i]
  BY DEF LogInv
<1>2. InScope(log[i], c)
  BY <1>1 DEF Reached
<1> DEFINE w == WindowMinutes(c)
<1>3. w \in Nat
  BY ConfigTyped
<1>4. Has(Read(log', c.source, n, w), i)
  BY DEF Reached, ReadFor, Has
<1> HIDE DEF w
<1>5. Has(Read(log, c.source, n, w), i)
  <2>1. PICK all : all = log'
    OBVIOUS
  <2>2. Has(Read(all, c.source, n, w), i) /\ all = Append(log, s)
    BY <1>4, <2>1
  <2> QED BY <1>1, <1>3, <2>2, ReadShrinks
<1> QED BY <1>2, <1>5 DEF Reached, ReadFor, Has, w

LEMMA HeldEarlier ==
  ASSUME LogInv, NEW s, log' = Append(log, s), NEW c, NEW n, NEW a \in 1..Len(log),
         NEW z \in 1..Len(log), Holds(c, n, a, z)'
  PROVE  Holds(c, n, a, z)
<1>1. Len(log) \in Nat /\ Len(log') = Len(log) + 1 /\ \A i \in 1..Len(log) : log'[i] = log[i]
  BY DEF LogInv
<1>2. \A i \in 1..Len(log) : i \in 1..Len(log')
  BY <1>1
<1>3. log'[z].ts - log'[a].ts >= c.for
  BY DEF Holds
<1>4. \A b \in About(c, n, Len(log))' : log'[b].ts >= log'[a].ts => log'[b].bad
  BY DEF Holds
<1>5. \A b \in About(c, n, Len(log)) : b \in About(c, n, Len(log))' /\ b \in 1..Len(log)
  BY <1>1, <1>2 DEF About
<1>6. \A b \in About(c, n, Len(log)) : log[b].ts >= log[a].ts => log[b].bad
  BY <1>1, <1>4, <1>5
<1>7. log[z].ts - log[a].ts >= c.for
  BY <1>1, <1>3
<1> QED BY <1>6, <1>7 DEF Holds

LEMMA VisitIngest ==
  ASSUME VisitInv, PolicyInv, LogInv, IngestBatch
  PROVE  VisitInv'
<1>1. PICK source \in Sources \ {"custom"}, n \in Nodes, bad \in BOOLEAN, j \in Jobs \cup {None} :
        Store([source |-> source, node |-> n, job |-> j, ts |-> now, bad |-> bad], TRUE)
  BY DEF IngestBatch
<1> DEFINE s == [source |-> source, node |-> n, job |-> j, ts |-> now, bad |-> bad]
<1>2. s \in Sample /\ s.source # "custom"
  BY DEF Sample, PolicyInv, ClocksInv
<1> HIDE DEF s
<1>3. Store(s, TRUE)
  BY <1>1 DEF s
<1>4. log' = Append(log, s) /\ UNCHANGED <<storeVars, passVars>> /\ log \in Seq(Sample)
  BY <1>3 DEF Store, LogInv
<1>5. Len(log) \in Nat /\ Len(log') = Len(log) + 1
  BY <1>4
<1> SUFFICES ASSUME pass = "run" PROVE VisitInv'
  BY <1>4 DEF VisitInv, passVars
<1>6. begin \in 0..Len(log)
  BY DEF VisitInv
<1>7. KnownNodes(SubSeq(log', 1, begin)) = KnownNodes(SubSeq(log, 1, begin))
  <2>1. SubSeq(log', 1, begin) = SubSeq(log, 1, begin)
    BY <1>2, <1>4, <1>6
  <2> QED BY <2>1
<1>8. ASSUME NEW p \in DOMAIN policies, NEW v \in Nodes, Due(p, v)'
      PROVE  Due(p, v)
  <2>1. PICK c : c = policies[p].config
    OBVIOUS
  <2>2. policies'[p].config = c /\ begin' = begin
    BY <1>4, <2>1 DEF storeVars, passVars
  <2>3. /\ c.enabled /\ ~c.stale
        /\ c.node = v \/ (c.node = None /\ v \in KnownNodes(SubSeq(log, 1, begin)))
    BY <1>7, <1>8, <2>2 DEF Due
  <2>4. PICK a \in Reached(c, v)' \cap 1..begin : \E z \in Reached(c, v)' \cap 1..begin :
               Holds(c, v, a, z)'
    BY <1>8, <2>2 DEF Due
  <2>5. PICK z \in Reached(c, v)' \cap 1..begin : Holds(c, v, a, z)'
    BY <2>4
  <2>6. a \in 1..Len(log) /\ z \in 1..Len(log)
    BY <1>5, <1>6
  <2>7. IsConfig(c)
    BY <2>1 DEF PolicyInv, StoreInv, IsPolicy
  <2>8. a \in Reached(c, v) /\ z \in Reached(c, v)
    BY <1>2, <1>4, <2>6, <2>7, ReachedEarlier
  <2>9. Holds(c, v, a, z)
    BY <1>4, <2>5, <2>6, HeldEarlier
  <2>10. \E x, y \in Reached(c, v) \cap 1..begin : Holds(c, v, x, y)
    BY <2>8, <2>9
  <2> HIDE DEF Holds, Reached
  <2> QED BY <2>1, <2>3, <2>10 DEF Due
<1>9. \A p \in DOMAIN policies, v \in Nodes :
        (Visited(p, v)' <=> Visited(p, v)) /\ (Told(p, v)' <=> Told(p, v))
  BY <1>4 DEF Visited, Told, storeVars, passVars
<1> QED BY <1>4, <1>5, <1>6, <1>8, <1>9 DEF VisitInv, storeVars, passVars

\* Nothing that decides what is due has changed.
LEMMA DueSame ==
  ASSUME UNCHANGED <<log, begin>>, NEW p, policies'[p].config = policies[p].config, NEW n
  PROVE  Due(p, n)' <=> Due(p, n)
  BY DEF Due, Reached, ReadFor, Holds, About

LEMMA VisitNext ==
  ASSUME VisitInv, PolicyInv, LogInv, NextPolicy
  PROVE  VisitInv'
<1>1. /\ UNCHANGED <<now, log, storeVars, pass, passNow, listed, begin>>
      /\ pass = "run" /\ current = None
  BY DEF NextPolicy
<1>2. PICK q \in DOMAIN listed :
        /\ current' = q
        /\ todo' = IF listed[q].node = None THEN KnownNodes(log) ELSE {listed[q].node}
  BY DEF NextPolicy
<1>3. begin \in 0..Len(log) /\ log \in Seq(Sample) /\ listed[q] = policies[q].config
  BY <1>1 DEF VisitInv, LogInv
<1>4. KnownNodes(SubSeq(log, 1, begin)) \subseteq KnownNodes(log)
  <2>1. Len(SubSeq(log, 1, begin)) = begin /\ \A i \in 1..begin : SubSeq(log, 1, begin)[i] = log[i]
    BY <1>3
  <2>2. \A i \in 1..begin : i \in DOMAIN log
    BY <1>3
  <2>3. DOMAIN SubSeq(log, 1, begin) = 1..begin
    BY <1>3, <2>1
  <2> QED BY <2>1, <2>2, <2>3 DEF KnownNodes
<1>5. ASSUME NEW p \in DOMAIN policies, NEW n \in Nodes, Visited(p, n)', Due(p, n)
      PROVE  Visited(p, n)
  <2>1. CASE p \notin DOMAIN listed
    BY <2>1 DEF Visited
  <2>2. CASE p \in DOMAIN listed
    <3>1. p = q /\ n \notin todo'
      BY <1>1, <1>2, <1>5, <2>2 DEF Visited
    <3>2. n # None
      BY PolicyAssumption
    <3>3. \/ listed[q].node = n
          \/ (listed[q].node = None /\ n \in KnownNodes(SubSeq(log, 1, begin)))
      BY <1>3, <1>5, <3>1 DEF Due
    <3> QED BY <1>2, <1>4, <3>1, <3>2, <3>3
  <2> QED BY <2>1, <2>2
<1>6. ASSUME NEW p \in DOMAIN policies, NEW n \in Nodes
      PROVE  (Due(p, n)' <=> Due(p, n)) /\ (Told(p, n)' <=> Told(p, n))
  <2>1. policies' = policies /\ raised' = raised /\ passNow' = passNow
    BY <1>1 DEF storeVars
  <2> QED BY <1>1, <2>1, DueSame DEF Told
<1>7. DOMAIN policies' = DOMAIN policies
  BY <1>1 DEF storeVars
<1>8. \A p \in DOMAIN policies, n \in Nodes : Visited(p, n)' /\ Due(p, n)' => Told(p, n)'
  BY <1>1, <1>5, <1>6 DEF VisitInv
<1> QED BY <1>1, <1>7, <1>8 DEF VisitInv, storeVars

LEMMA VisitDone ==
  ASSUME VisitInv, PolicyInv, TypeInv, PolicyDone
  PROVE  VisitInv'
<1>1. /\ UNCHANGED <<log, policies, raised, pass, passNow, begin>>
      /\ current' = None /\ todo = {} /\ current # None
  BY DEF PolicyDone, storeVars
<1>2. /\ DOMAIN listed' = DOMAIN listed \ {current}
      /\ \A p \in DOMAIN listed' : listed'[p] = listed[p]
  BY DEF PolicyDone
<1>3. current \in DOMAIN listed
  BY <1>1 DEF PolicyInv, PassInv
<1>4. ASSUME NEW p \in DOMAIN policies, NEW n \in Nodes, Visited(p, n)'
      PROVE  Visited(p, n)
  <2>1. p # None
    BY PolicyAssumption DEF TypeInv, TypeOK
  <2> QED BY <1>1, <1>2, <1>4, <2>1 DEF Visited
<1>5. \A p \in DOMAIN policies, n \in Nodes :
        (Due(p, n)' <=> Due(p, n)) /\ (Told(p, n)' <=> Told(p, n))
  BY <1>1, DueSame DEF Told
<1>6. \A p \in DOMAIN policies, n \in Nodes :
        pass = "run" /\ Visited(p, n)' /\ Due(p, n)' => Told(p, n)'
  BY <1>4, <1>5 DEF VisitInv
<1> QED BY <1>1, <1>2, <1>6 DEF VisitInv

\* The node just visited: what is due there is raised, or was within the cooldown.
LEMMA VisitedTold ==
  ASSUME PolicyInv, LogInv, VisitInv, pass = "run", current # None, NEW n,
         UNCHANGED <<log, begin, passNow>>,
         LET samples == Scoped(log, ReadFor(listed[current], n), listed[current])
             key == KeyOf(current, n, samples)
         IN IF /\ Violated(samples, listed[current])
               /\ ~InCooldown(key, listed[current].cooldown)
              THEN Fire(key, listed[current].cooldown)
              ELSE UNCHANGED storeVars,
         NEW q, q = current, policies'[q].config = policies[q].config,
         Due(q, n)
  PROVE  Told(q, n)'
<1>1. PICK c : c = listed[current]
  OBVIOUS
<1>2. current \in DOMAIN listed /\ IsConfig(c) /\ c = policies[q].config
  BY <1>1 DEF PolicyInv, PassInv, VisitInv
<1>3. PICK samples : samples = Scoped(log, ReadFor(c, n), c)
  OBVIOUS
<1>4. PICK key : key = KeyOf(current, n, samples)
  OBVIOUS
<1>5. key[1] = q /\ key[2] = n
  BY <1>4 DEF KeyOf
<1>6. IF Violated(samples, c) /\ ~InCooldown(key, c.cooldown)
        THEN Fire(key, c.cooldown) ELSE UNCHANGED storeVars
  BY <1>1, <1>3, <1>4
<1>7. Violated(samples, c)
  <2>1. ~c.stale /\ \E a, z \in Reached(c, n) \cap 1..begin : Holds(c, n, a, z)
    BY <1>2 DEF Due
  <2>2. PICK a, z \in Reached(c, n) : Holds(c, n, a, z)
    BY <2>1
  <2> QED BY <1>2, <1>3, <2>1, <2>2, HoldsViolated
<1>8. CASE InCooldown(key, c.cooldown)
  <2>1. UNCHANGED storeVars
    BY <1>6, <1>8
  <2>2. key \in DOMAIN raised /\ passNow - raised[key].at < c.cooldown
    BY <1>8 DEF InCooldown, PolicyInv, CooldownsAgree
  <2>3. raised' = raised /\ passNow' = passNow /\ policies'[q].config.cooldown = c.cooldown
    BY <1>2, <2>1 DEF storeVars
  <2>4. /\ key \in DOMAIN raised' /\ key[1] = q /\ key[2] = n
        /\ passNow' - raised'[key].at < policies'[q].config.cooldown
    BY <1>5, <2>2, <2>3
  <2> QED BY <2>4 DEF Told
<1>9. CASE ~InCooldown(key, c.cooldown)
  <2>1. Fire(key, c.cooldown)
    BY <1>6, <1>7, <1>9
  <2> DEFINE new == [at |-> passNow, cooldown |-> c.cooldown,
                     gap |-> IF key \in DOMAIN raised THEN passNow - raised[key].at
                                                      ELSE c.cooldown]
  <2>2. raised' = With(raised, key, new) /\ new.at = passNow
    BY <2>1 DEF Fire
  <2> HIDE DEF new
  <2>3. key \in DOMAIN raised' /\ raised'[key] = new
    BY <2>2 DEF With
  <2>4. /\ key \in DOMAIN raised' /\ key[1] = q /\ key[2] = n
        /\ raised'[key].at = passNow'
    BY <1>5, <2>2, <2>3
  <2> QED BY <2>4 DEF Told
<1> QED BY <1>8, <1>9

\* An alert makes nothing that was told untold.
LEMMA ToldStays ==
  ASSUME NEW p, NEW n, Told(p, n), policies'[p].config = policies[p].config,
         UNCHANGED passNow, NEW key, NEW seconds, Fire(key, seconds)
  PROVE  Told(p, n)'
<1> DEFINE new == [at |-> passNow, cooldown |-> seconds,
                   gap |-> IF key \in DOMAIN raised THEN passNow - raised[key].at ELSE seconds]
<1>1. raised' = With(raised, key, new) /\ new.at = passNow
  BY DEF Fire
<1> HIDE DEF new
<1>2. /\ DOMAIN raised' = DOMAIN raised \cup {key} /\ raised'[key] = new
      /\ \A k \in DOMAIN raised : k # key => raised'[k] = raised[k]
  BY <1>1 DEF With
<1>3. PICK k \in DOMAIN raised :
        /\ k[1] = p /\ k[2] = n
        /\ raised[k].at = passNow \/ passNow - raised[k].at < policies[p].config.cooldown
  BY DEF Told
<1>4. raised'[k].at = raised[k].at \/ raised'[k].at = passNow
  BY <1>1, <1>2
<1> QED BY <1>2, <1>3, <1>4 DEF Told

LEMMA VisitEvaluate ==
  ASSUME VisitInv, PolicyInv, LogInv, EvaluateNode
  PROVE  VisitInv'
<1>1. /\ pass = "run" /\ current # None
      /\ UNCHANGED <<now, log, pass, passNow, listed, current, begin>>
  BY DEF EvaluateNode
<1>2. PICK n \in todo :
        /\ todo' = todo \ {n}
        /\ LET samples == Scoped(log, ReadFor(listed[current], n), listed[current])
               key == KeyOf(current, n, samples)
           IN IF /\ Violated(samples, listed[current])
                 /\ ~InCooldown(key, listed[current].cooldown)
                THEN Fire(key, listed[current].cooldown)
                ELSE UNCHANGED storeVars
  BY DEF EvaluateNode, ReadFor
<1>3. UNCHANGED storeVars \/ \E key : Fire(key, listed[current].cooldown)
  BY <1>2
<1>4. /\ DOMAIN policies' = DOMAIN policies
      /\ \A p \in DOMAIN policies : policies'[p].config = policies[p].config
  <2>1. CASE UNCHANGED storeVars
    BY <2>1 DEF storeVars
  <2>2. CASE \E key : Fire(key, listed[current].cooldown)
    <3>1. PICK key : Fire(key, listed[current].cooldown)
      BY <2>2
    <3>2. policies' = [p \in DOMAIN policies |->
                         IF p = key[1] THEN [policies[p] EXCEPT !.lastTriggered = passNow]
                                       ELSE policies[p]]
      BY <3>1 DEF Fire, MarkTriggered
    <3> QED BY <3>2
  <2> QED BY <1>3, <2>1, <2>2
<1>5. ASSUME NEW p \in DOMAIN policies, NEW v \in Nodes, Told(p, v)
      PROVE  Told(p, v)'
  <2>1. CASE UNCHANGED storeVars
    BY <1>1, <1>5, <2>1 DEF Told, storeVars
  <2>2. CASE \E key : Fire(key, listed[current].cooldown)
    BY <1>1, <1>4, <1>5, <2>2, ToldStays
  <2> QED BY <1>3, <2>1, <2>2
<1>6. \A p \in DOMAIN policies, v \in Nodes : Due(p, v)' <=> Due(p, v)
  BY <1>1, <1>4, DueSame
<1>7. current \in DOMAIN policies
  BY <1>1 DEF PolicyInv, PassInv
<1> PICK q : q = current
  OBVIOUS
<1>8. Due(q, n) => Told(q, n)'
  BY <1>1, <1>2, <1>4, <1>7, VisitedTold
<1>9. \A p \in DOMAIN policies, v \in Nodes :
        Visited(p, v)' => Visited(p, v) \/ (p = q /\ v = n)
  BY <1>1, <1>2 DEF Visited
<1>10. \A p \in DOMAIN policies, v \in Nodes : Visited(p, v)' /\ Due(p, v)' => Told(p, v)'
  BY <1>1, <1>5, <1>6, <1>8, <1>9 DEF VisitInv
<1>11. \A p \in DOMAIN listed : p \in DOMAIN policies
  BY DEF PolicyInv, PassInv
<1> QED BY <1>1, <1>4, <1>10, <1>11 DEF VisitInv

LEMMA VisitStep ==
  ASSUME VisitInv, PolicyInv, LogInv, TypeInv, [Next]_vars
  PROVE  VisitInv'
<1>1. CASE IngestBatch
  BY <1>1, VisitIngest
<1>2. CASE PostCustomMetrics \/ Handlers
  <2>1. pass' = "idle"
    BY <1>2 DEF PostCustomMetrics, Store, Handlers, CreatePolicy, UpdatePolicy, DeletePolicy,
                EventLoopFree, passVars
  <2> QED BY <2>1 DEF VisitInv
<1>3. CASE EndPass
  BY <1>3 DEF EndPass, VisitInv
<1>4. CASE StartPass \/ NextPolicy \/ EvaluateNode \/ PolicyDone
  BY <1>4, VisitStart, VisitNext, VisitEvaluate, VisitDone
<1>5. CASE Tick \/ UNCHANGED vars
  <2>1. UNCHANGED <<log, storeVars, passVars>>
    BY <1>5 DEF Tick, vars
  <2>2. UNCHANGED <<log, policies, raised, passNow, listed, current, todo, begin, pass>>
    BY <2>1 DEF storeVars, passVars
  <2>3. \A p \in DOMAIN policies, n \in Nodes :
          /\ (Due(p, n)' <=> Due(p, n)) /\ (Told(p, n)' <=> Told(p, n))
          /\ (Visited(p, n)' <=> Visited(p, n))
    BY <2>2, DueSame DEF Told, Visited
  <2> QED BY <2>2, <2>3 DEF VisitInv
<1> QED BY <1>1, <1>2, <1>3, <1>4, <1>5 DEF Next, Pass

LEMMA VisitInvariant == Spec => []VisitInv
<1>1. Init => VisitInv
  BY DEF Init, VisitInv
<1>2. VisitInv /\ PolicyInv /\ LogInv /\ TypeInv /\ [Next]_vars => VisitInv'
  BY VisitStep
<1> QED BY <1>1, <1>2, PolicyInvariant, LogInvariant, TypeInvariant, PTL DEF Spec

\* By the end of a pass, every violation that has lasted its duration, from samples that
\* were stored when the pass began and that the window still reaches, was reported
\* (policy_evaluator.py, _evaluate_one): no sample that arrives meanwhile, no cooldown of
\* another node or job and no order of the policies hides it.
ReachedReported ==
  Evaluated => \A p \in DOMAIN policies, n \in Nodes : Due(p, n) => Told(p, n)

THEOREM ReachedAlwaysReported == Spec => []ReachedReported
<1>1. VisitInv => ReachedReported
  BY DEF VisitInv, ReachedReported, Evaluated, Visited
<1> QED BY <1>1, VisitInvariant, PTL

-----------------------------------------------------------------------------
(* What a window spans. *)

\* What has few elements from some time on is within the end.
LEMMA EndReaches ==
  ASSUME NEW S, IsFiniteSet(S), NEW before, Orders(before, S), NEW k \in Nat, NEW h,
         Ranked(h, S, before, k), NEW F, F \subseteq S, Cardinality(F) <= k,
         \A i \in F, j \in S : <<i, j>> \in before => j \in F,
         NEW i \in F
  PROVE  Has(h, i)
<1> DEFINE N == NotAfter(before, S, i)
<1>1. N \subseteq S /\ i \in N /\ i \in S
  BY DEF NotAfter
<1>2. S \ N \subseteq F \ {i}
  BY <1>1 DEF NotAfter, Orders
<1>3. RankIn(before, S)[i] = Cardinality(N)
  BY <1>1 DEF RankIn
<1> HIDE DEF N
<1>4. /\ IsFiniteSet(F) /\ IsFiniteSet(F \ {i}) /\ IsFiniteSet(N) /\ IsFiniteSet(S \ N)
      /\ Cardinality(F \ {i}) = Cardinality(F) - 1
      /\ S \cap N = N /\ Cardinality(S \ N) = Cardinality(S) - Cardinality(S \cap N)
  BY <1>1, FS_Subset, FS_RemoveElement, FS_Difference
<1>5. Cardinality(S \ N) <= Cardinality(F \ {i})
  BY <1>2, <1>4, FS_Subset
<1>6. /\ Cardinality(S) \in Nat /\ Cardinality(N) \in Nat /\ Cardinality(F) \in Nat
      /\ Cardinality(S \ N) \in Nat /\ Cardinality(F \ {i}) \in Nat
  BY <1>4, FS_CardinalityType
<1>7. Cardinality(S \ N) = Cardinality(S) - Cardinality(N)
  BY <1>4
<1>8. Cardinality(N) > Cardinality(S) - k
  BY <1>4, <1>5, <1>6, <1>7
<1> QED BY <1>1, <1>3, <1>8 DEF Ranked, Has

\* The window has as many samples as the duration has seconds, and a minute more.
LEMMA WindowIsWide ==
  ASSUME NEW c, IsConfig(c)
  PROVE  c.for + Minute <= WindowMinutes(c) * Minute
<1>1. PICK f, m, q : f = c.for /\ m = Minute /\ q = f \div m
  OBVIOUS
<1>2. f \in Nat /\ m \in Nat \ {0} /\ DefaultMinutes \in Nat
  BY <1>1, ConfigTyped, PolicyAssumption
<1>3. q \in Nat /\ f < m * q + m
  BY <1>1, <1>2
<1>4. PICK w : w = WindowMinutes(c)
  OBVIOUS
<1>5. w \in Nat /\ w >= q + 2
  BY <1>1, <1>2, <1>3, <1>4 DEF WindowMinutes, Max2
<1>6. w * m >= (q + 2) * m
  BY <1>2, <1>3, <1>5
<1>7. (q + 2) * m = m * q + m + m /\ m * q \in Nat /\ w * m \in Nat
  BY <1>2, <1>3, <1>5
<1>8. f + m <= w * m
  BY <1>2, <1>3, <1>6, <1>7
<1> QED BY <1>1, <1>4, <1>8

LEMMA RetainedIs ==
  ASSUME NEW c, NEW n
  PROVE  Retained(c, n) = Reachable(log, c.source, n)
BY DEF Retained, Reachable, Held, Of, IsHeld

\* What spans a violation is read.
LEMMA SpannedRead ==
  ASSUME LogInv, NEW c, IsConfig(c), NEW n, NEW a, Spanned(c, n, a),
         NEW i \in Retained(c, n), log[i].ts >= log[a].ts
  PROVE  Has(ReadFor(c, n), i)
<1> DEFINE S == Reachable(log, c.source, n)
           F == {x \in S : log[x].ts >= log[a].ts}
           k == ReadLength(c.source, WindowMinutes(c))
           before == ReadOrder(log, c.source, n)
<1>1. log \in Seq(Sample) /\ WindowMinutes(c) \in Nat /\ c.for \in Nat /\ Minute \in Nat
      /\ RingSize \in Nat
  BY ConfigTyped, PolicyAssumption DEF LogInv
<1>2. IsFiniteSet(S) /\ Orders(before, S) /\ S \subseteq 1..Len(log)
  BY <1>1, ReachableIs, ReadOrders
<1>3. Ranked(ReadFor(c, n), S, before, k)
  BY <1>1, ReadIs DEF ReadFor
<1>4. /\ i \in F /\ a \in S /\ Cardinality(F) <= c.for + Minute
      /\ c.source # "custom" => Cardinality(F) <= RingSize
  BY RetainedIs DEF Spanned
<1>5. \A x \in S : log[x].ts \in Nat
  BY <1>1, <1>2, SampleAt
<1>6. \A x \in F, y \in S : <<x, y>> \in before => y \in F
  <2> SUFFICES ASSUME NEW x \in F, NEW y \in S, <<x, y>> \in before PROVE y \in F
    OBVIOUS
  <2>1. log[x].ts <= log[y].ts
    BY ReadByTime
  <2>2. log[x].ts >= log[a].ts
    OBVIOUS
  <2> QED BY <1>4, <1>5, <2>1, <2>2
<1>7. F \subseteq S /\ IsFiniteSet(F)
  BY <1>2, FS_Subset
<1> HIDE DEF S, F, before
<1>8. k \in Nat /\ Cardinality(F) <= k
  <2>1. PICK w : w = WindowMinutes(c) * Minute
    OBVIOUS
  <2>2. w \in Nat /\ c.for + Minute <= w
    BY <1>1, <2>1, WindowIsWide
  <2>3. Cardinality(F) \in Nat
    BY <1>7, FS_CardinalityType
  <2>4. Cardinality(F) <= w
    BY <1>1, <1>4, <2>2, <2>3
  <2>5. k = IF c.source = "custom" THEN Max2(1, w) ELSE Min2(RingSize, w)
    BY <2>1 DEF ReadLength
  <2> HIDE DEF k
  <2> QED BY <1>1, <1>4, <2>2, <2>3, <2>4, <2>5 DEF Max2, Min2
<1> HIDE DEF k
<1> QED BY <1>2, <1>3, <1>4, <1>6, <1>7, <1>8, EndReaches

\* A violation is reported whose samples came at most once a second, with a minute of
\* headroom, and are still held: the window counts samples, but enough of them
\* (policy_evaluator.py:218).
THEOREM SpannedAlwaysReported == Spec => []SpannedReported
<1>1. VisitInv /\ LogInv /\ PolicyInv => SpannedReported
  <2> SUFFICES ASSUME VisitInv, LogInv, PolicyInv, Evaluated,
                      NEW p \in DOMAIN policies, NEW n \in Nodes, Untold(p, n),
                      NEW a \in Lasting(policies[p].config, n),
                      Spanned(policies[p].config, n, a)
               PROVE  FALSE
    BY DEF SpannedReported
  <2>1. PICK c : c = policies[p].config
    OBVIOUS
  <2>2. IsConfig(c)
    BY <2>1 DEF PolicyInv, StoreInv, IsPolicy
  <2>3. PICK z \in About(c, n, begin) : /\ z \in Retained(c, n) /\ log[z].ts >= log[a].ts
                                        /\ log[z].ts - log[a].ts >= c.for
    BY <2>1 DEF Spanned
  <2>4. a \in About(c, n, begin) /\ a \in Retained(c, n) /\ log[a].ts >= log[a].ts
    BY <2>1 DEF Lasting, Spanned
  <2>5. Has(ReadFor(c, n), a) /\ Has(ReadFor(c, n), z)
    BY <2>1, <2>2, <2>3, <2>4, SpannedRead
  <2>6. \A i \in {a, z} : /\ i \in 1..begin /\ i \in 1..Len(log) /\ InScope(log[i], c)
                          /\ Has(ReadFor(c, n), i)
    BY <2>3, <2>4, <2>5 DEF About, Retained
  <2>7. a \in Reached(c, n) \cap 1..begin /\ z \in Reached(c, n) \cap 1..begin
    BY <2>6 DEF Reached, Has
  <2>8. Holds(c, n, a, z)
    BY <2>1, <2>3 DEF Holds, Lasting
  <2>9. Due(p, n)
    BY <2>1, <2>7, <2>8 DEF Due, Untold
  <2> QED BY <2>9 DEF VisitInv, Evaluated, Visited, Untold
<1> QED BY <1>1, VisitInvariant, LogInvariant, PolicyInvariant, PTL

-----------------------------------------------------------------------------
(* What fires had been sustained. *)

\* What is later than a sample that a pass reads, it reads too.
LEMMA LaterRead ==
  ASSUME LogInv, NEW c, IsConfig(c), NEW n, NEW g,
         Selects(g, log, ReadFor(c, n), c),
         Ranked(ReadFor(c, n), Reachable(log, c.source, n), ReadOrder(log, c.source, n),
                ReadLength(c.source, WindowMinutes(c))),
         NEW q \in 1..Len(g), NEW b \in About(c, n, Len(log)) \cap Retained(c, n),
         log[b].ts > log[g[q]].ts
  PROVE  \E r \in 1..Len(g) : g[r] = b
<1> DEFINE h == ReadFor(c, n)
           S == Reachable(log, c.source, n)
           before == ReadOrder(log, c.source, n)
           k == ReadLength(c.source, WindowMinutes(c))
<1>1. log \in Seq(Sample) /\ WindowMinutes(c) \in Nat
  BY ConfigTyped DEF LogInv
<1>2. PICK p \in 1..Len(h) : h[p] = g[q]
  BY DEF Selects
<1>3. /\ S = Retained(c, n) /\ S \subseteq Of(log, c.source, n)
      /\ IsFiniteSet(S) /\ Orders(before, S)
  BY <1>1, RetainedIs, ReachableIs, ReadOrders
<1>4. b \in S /\ h[p] \in S /\ b \in 1..Len(log) /\ h[p] \in 1..Len(log) /\ InScope(log[b], c)
  <2>1. b \in S /\ b \in 1..Len(log) /\ InScope(log[b], c)
    BY <1>3 DEF About
  <2>2. h[p] \in S
    BY DEF Ranked
  <2> QED BY <1>3, <2>1, <2>2 DEF Of
<1>5. log[b].ts > log[h[p]].ts
  BY <1>2
<1>6. <<h[p], b>> \in before
  <2>1. log[b].ts \in Nat /\ log[h[p]].ts \in Nat
    BY <1>1, <1>4, SampleAt
  <2>2. CASE c.source = "custom"
    <3>1. Before(log, h[p], b)
      BY <1>5, <2>1 DEF Before
    <3> QED BY <1>4, <2>2, <3>1 DEF Reachable, ReadOrder, CustomOrder
  <2>3. CASE c.source # "custom"
    <3>1. log[b].source # "custom" /\ log[h[p]].source # "custom"
      BY <1>3, <1>4, <2>3 DEF Of
    <3> HIDE DEF h
    <3>2. PICK i : i = h[p]
      OBVIOUS
    <3>3. ~(b <= i)
      BY <1>4, <1>5, <2>1, <3>1, <3>2, SMTT(30) DEF LogInv
    <3>4. i < b
      BY <1>4, <3>2, <3>3
    <3> QED BY <1>4, <2>3, <3>2, <3>4 DEF Reachable, ReadOrder, Less
  <2> QED BY <2>2, <2>3
<1>7. k \in Nat
  <2>1. WindowMinutes(c) * Minute \in Nat /\ RingSize \in Nat
    BY <1>1, PolicyAssumption, SMTT(30)
  <2> QED BY <2>1 DEF ReadLength, Max2, Min2
<1>8. Ranked(h, S, before, k)
  OBVIOUS
<1> HIDE DEF h, S, before, k
<1>9. PICK x \in 1..Len(h) : h[x] = b
  BY <1>3, <1>4, <1>6, <1>7, <1>8, EndClosed, SMTT(30)
<1> QED BY <1>4, <1>9 DEF Selects, h

LEMMA ViolatedSustained ==
  ASSUME LogInv, NEW c, IsConfig(c), NEW n,
         Violated(Scoped(log, ReadFor(c, n), c), c)
  PROVE  Sustained(About(c, n, Len(log)) \cap Retained(c, n), c)
<1> DEFINE h == ReadFor(c, n)
           s == Scoped(log, h, c)
           all == About(c, n, Len(log)) \cap Retained(c, n)
<1>1. PICK g : /\ Selects(g, log, h, c)
               /\ Ranked(h, Reachable(log, c.source, n), ReadOrder(log, c.source, n),
                         ReadLength(c.source, WindowMinutes(c)))
  BY ReadForIs
<1>2. /\ \A q \in 1..Len(g) : g[q] \in all /\ g[q] \in 1..Len(log)
      /\ \A q, r \in 1..Len(g) : q < r => log[g[q]].ts <= log[g[r]].ts
  <2>1. \A q \in 1..Len(g) : g[q] \in Retained(c, n)
    BY <1>1, RetainedIs DEF Selects, Ranked
  <2> QED BY <1>1, <2>1, ReadSorted
<1>3. log \in Seq(Sample) /\ c.for \in Nat
  BY ConfigTyped DEF LogInv
<1>4. /\ s \in Seq(Sample) /\ Len(s) = Len(g)
      /\ \A q \in 1..Len(g) : s[q] = log[g[q]]
  BY <1>1, <1>3, ScopedTyped
<1>5. \A q \in 1..Len(g), b \in all :
        log[b].ts > log[g[q]].ts => \E r \in 1..Len(g) : g[r] = b
  BY <1>1, LaterRead
<1>6. \A b \in all : /\ b \in 1..Len(log) /\ log[b].ts \in Nat
                     /\ log[b].node = n /\ log[b].source = c.source
  BY <1>3, SampleAt DEF About
<1> DEFINE m == Len(s)
           start == StartOf(s, c)
<1>7. /\ s # <<>> /\ AgreesAt(s, c, m)
      /\ s[m].ts - s[start].ts >= c.for \/ (~c.stale /\ c.for = 0)
  BY ViolatedIs DEF h
<1>8. start \in 1..m /\ IsStart(s, c, start) /\ m \in Nat \ {0} /\ m \in 1..m
  BY <1>4, <1>7, StartIs
<1> HIDE DEF h, s, all, start, m
<1>9. m = Len(g) /\ \A q \in 1..m : s[q] = log[g[q]] /\ log[g[q]].ts \in Nat
  BY <1>2, <1>4, <1>6 DEF m
<1> DEFINE a == g[start]
           z == g[m]
<1>10. a \in all /\ z \in all /\ s[start] = log[a] /\ s[m] = log[z]
  BY <1>2, <1>8, <1>9
<1>11. \A q, r \in 1..m : q <= r => log[g[q]].ts <= log[g[r]].ts
  BY <1>2, <1>8, <1>9
<1>12. ASSUME NEW b \in all PROVE log[b].ts <= log[z].ts
  <2> SUFFICES ASSUME log[b].ts > log[z].ts PROVE FALSE
    BY <1>6, <1>10
  <2>1. PICK r \in 1..m : g[r] = b
    BY <1>5, <1>8, <1>9
  <2>2. log[g[r]].ts <= log[z].ts
    BY <1>8, <1>11
  <2> QED BY <1>6, <1>10, <2>1, <2>2
<1>13. log[z].ts - log[a].ts >= c.for
  <2>1. log[a].ts <= log[z].ts
    BY <1>10, <1>12
  <2>2. log[a].ts \in Nat /\ log[z].ts \in Nat
    BY <1>6, <1>10
  <2> QED BY <1>3, <1>7, <1>10, <2>1, <2>2
<1>14. ASSUME NEW b \in all, b = a \/ log[b].ts > log[a].ts
       PROVE  IF c.stale THEN log[b].bad = log[z].bad ELSE log[b].bad
  <2>1. PICK r \in start..m : g[r] = b
    <3>1. CASE b = a
      <4>1. start \in start..m
        BY <1>8
      <4> QED BY <3>1, <4>1
    <3>2. CASE log[b].ts > log[a].ts
      <4>1. PICK r \in 1..m : g[r] = b
        BY <1>5, <1>8, <1>9, <3>2
      <4>2. ~(r <= start)
        BY <1>6, <1>8, <1>9, <1>10, <1>11, <3>2, <4>1
      <4>3. r \in start..m
        BY <1>8, <4>1, <4>2
      <4> QED BY <4>1, <4>3
    <3> QED BY <1>14, <3>1, <3>2
  <2>2. AgreesAt(s, c, r)
    BY <1>8, <2>1 DEF IsStart, m
  <2>3. s[r] = log[b] /\ s[m] = log[z]
    <3>1. r \in 1..m
      BY <1>8, <2>1
    <3> QED BY <1>9, <1>10, <2>1, <3>1
  <2> QED BY <2>2, <2>3, Zenon DEF AgreesAt, m
<1> HIDE DEF a, z
<1> QED BY <1>10, <1>12, <1>13, <1>14 DEF Sustained, all

\* An alert is raised only for a condition that every sample still held of the policy's
\* node and job bears out, from one of the duration before the latest on, whatever the
\* rings, the windows, the filter by job and late samples do (policy_evaluator.py,
\* _sustained_violation and _stale_for).
THEOREM FiresAlwaysSustained == Spec => FiresSustained
<1>1. PolicyInv /\ LogInv /\ [Next]_vars =>
        [\A n \in todo : raised' # raised /\ n \notin todo' =>
           LET c == listed[current] IN
             Sustained(About(c, n, Len(log)) \cap Retained(c, n), c)]_vars
  <2> SUFFICES ASSUME PolicyInv, LogInv, [Next]_vars
               PROVE  [\A n \in todo : raised' # raised /\ n \notin todo' =>
                         LET c == listed[current] IN
                           Sustained(About(c, n, Len(log)) \cap Retained(c, n), c)]_vars
    OBVIOUS
  <2> SUFFICES ASSUME NEW n \in todo, raised' # raised, n \notin todo'
               PROVE  Sustained(About(listed[current], n, Len(log))
                                  \cap Retained(listed[current], n), listed[current])
    OBVIOUS
  <2>1. EvaluateNode
    BY DEF Next, IngestBatch, PostCustomMetrics, Store, Handlers, CreatePolicy,
         UpdatePolicy, DeletePolicy, Pass, StartPass, NextPolicy, PolicyDone, EndPass, Tick,
         vars, storeVars, passVars
  <2>2. PICK v \in todo :
          /\ todo' = todo \ {v}
          /\ LET samples == Scoped(log, ReadFor(listed[current], v), listed[current])
                 key == KeyOf(current, v, samples)
             IN \/ /\ Violated(samples, listed[current])
                   /\ Fire(key, listed[current].cooldown)
                \/ UNCHANGED storeVars
    BY <2>1 DEF EvaluateNode, ReadFor
  <2>3. v = n
    BY <2>2
  <2>4. Violated(Scoped(log, ReadFor(listed[current], n), listed[current]), listed[current])
    BY <2>2, <2>3 DEF storeVars
  <2>5. IsConfig(listed[current])
    <3>1. current # None
      BY <2>1 DEF EvaluateNode
    <3> QED BY <3>1 DEF PolicyInv, PassInv
  <2> QED BY <2>4, <2>5, ViolatedSustained
<1> QED BY <1>1, PolicyInvariant, LogInvariant, PTL DEF Spec, FiresSustained
=============================================================================
