--------------------------- MODULE ClientsProofs ---------------------------
(***************************************************************************)
(* Proofs about the backend's two clients: the sidecar, for any messages,  *)
(* any time between two attempts to connect and any fields of the page it  *)
(* reads, and the dashboard, for any keys, sockets and delays, any jobs,   *)
(* alerts and requests under way. Each of the four modules has its own     *)
(* inductive invariant:                                                    *)
(*   - TransportInv says how old the last attempt is when the sidecar has  *)
(*     no use of the backend: unless it is connected or about to be, there *)
(*     was a fault since the last attempt began, whether the attempt       *)
(*     failed, the connection broke or a call ended in an error;           *)
(*   - WriteInv and ReadInv say that every field of the page is at least   *)
(*     as new as every completed write, and what a read has found;         *)
(*   - SocketInv, that a signed-in dashboard has either one live socket or *)
(*     one timer;                                                          *)
(*   - PaneInv, that a request not aborted is about the present subject.   *)
(* The types of all four follow, with what little they need beside these.  *)
(***************************************************************************)
EXTENDS MCOutside, RankingProofs, SequenceTheorems, TLAPS

-----------------------------------------------------------------------------
(* The transport. *)

\* An attempt to connect is made without a client.
ConnectsOnce == phase \in {"connect", "refused"} => client = "none"

\* An attempt that has not met a backend down still finds it up.
AttemptLives == phase = "connect" => up

FaultSinceAttempt == client # "connected" /\ phase # "connect" => faultAge <= attempt

TransportInv ==
  /\ SideTypeOK
  /\ ConnectsOnce /\ AttemptLives
  /\ attempt = sinceTry
  /\ ~up => faultAge = 0
  /\ loop = "ticking" => FaultSinceAttempt
  /\ loop = "stopped" => holder = None /\ spawned = {} /\ queue = <<>>
  /\ OutageBounded

USE SidecarAssumption

-----------------------------------------------------------------------------

\* Ages do not leave their bounds, and keep their order.
LEMMA OlderAge ==
  ASSUME NEW a \in 0..AgeCap, NEW b \in 0..AgeCap, a <= b
  PROVE  Older(a) \in 0..AgeCap /\ Older(a) <= Older(b)
BY DEF Older, AgeCap

LEMMA TransportInit == SideInit => TransportInv
BY DEF SideInit, TransportInv, SideTypeOK, ConnectsOnce, AttemptLives, FaultSinceAttempt,
       OutageBounded, AgeCap, None

LEMMA CollectStep ==
  ASSUME TransportInv, CollectionTick PROVE TransportInv'
<1>1. PICK batch \in SUBSET (Messages \ InFlight) : Collect(batch)
  BY DEF CollectionTick
<1>2. /\ attempt \in 0..AgeCap /\ faultAge \in 0..AgeCap /\ sinceTry = attempt
  BY DEF TransportInv, SideTypeOK
<1>3. /\ attempt' = Older(attempt) /\ sinceTry' = attempt'
      /\ faultAge' = IF up THEN Older(faultAge) ELSE 0
      /\ dropped' = None
      /\ UNCHANGED <<loop, queue, holder, phase, client, up>>
  BY <1>1, <1>2 DEF Collect
<1>4. attempt' \in 0..AgeCap /\ faultAge' \in 0..AgeCap
  BY <1>2, <1>3, OlderAge DEF AgeCap
<1>5. faultAge <= attempt => faultAge' <= attempt'
  BY <1>2, <1>3, <1>4, OlderAge DEF AgeCap
<1>6. spawned' \subseteq Messages /\ loop = "ticking"
  BY <1>1 DEF Collect, TransportInv, SideTypeOK
<1>7. SideTypeOK'
  BY <1>3, <1>4, <1>6 DEF TransportInv, SideTypeOK
<1> QED
  BY <1>3, <1>5, <1>6, <1>7
  DEF TransportInv, ConnectsOnce, AttemptLives, FaultSinceAttempt, OutageBounded, None

\* The tasks' way to the lock.
LEMMA LockStep ==
  ASSUME TransportInv, TakeLock \/ \E m \in Messages : AskForLock(m)
  PROVE  TransportInv'
<1>1. queue \in Seq(Messages)
  BY DEF TransportInv, SideTypeOK
<1>2. CASE TakeLock
  <2>1. Head(queue) \in Messages /\ Tail(queue) \in Seq(Messages)
    BY <1>1, <1>2, HeadTailProperties DEF TakeLock
  <2>2. loop # "stopped"
    BY <1>2 DEF TakeLock, TransportInv
  <2> QED
    BY <1>2, <2>1, <2>2
    DEF TakeLock, netVars, TransportInv, SideTypeOK, ConnectsOnce, AttemptLives,
        FaultSinceAttempt, OutageBounded, None
<1>3. ASSUME NEW m \in Messages, AskForLock(m) PROVE TransportInv'
  <2>1. Append(queue, m) \in Seq(Messages)
    BY <1>1, AppendProperties
  <2>2. loop # "stopped"
    BY <1>3 DEF AskForLock, TransportInv
  <2> QED
    BY <1>3, <2>1, <2>2
    DEF AskForLock, netVars, TransportInv, SideTypeOK, ConnectsOnce, AttemptLives,
        FaultSinceAttempt, OutageBounded, None
<1> QED
  BY <1>2, <1>3

\* The holder of the lock: in each case the task was not stopped.
LEMMA ConnectStep ==
  ASSUME TransportInv,
         \/ holder # None /\ (Throttle \/ StartConnect)
         \/ Connected \/ ConnectFails
  PROVE  TransportInv'
<1>1. loop = "ticking" /\ holder # None
  BY DEF TransportInv, SideTypeOK, Connected, ConnectFails
<1>2. CASE Throttle
  <2>1. faultAge < ReconnectAfter
    BY <1>1, <1>2 DEF Throttle, TransportInv, SideTypeOK, FaultSinceAttempt, AgeCap
  <2> QED
    BY <1>1, <1>2, <2>1
    DEF Throttle, Settle, netVars, TransportInv, SideTypeOK, ConnectsOnce, AttemptLives,
        FaultSinceAttempt, OutageBounded, None
<1>3. CASE StartConnect
  BY <1>1, <1>3
  DEF StartConnect, Attempted, TransportInv, SideTypeOK, ConnectsOnce, AttemptLives,
      FaultSinceAttempt, OutageBounded, None, AgeCap
<1>4. CASE Connected
  BY <1>1, <1>4
  DEF Connected, TransportInv, SideTypeOK, ConnectsOnce, AttemptLives,
      FaultSinceAttempt, OutageBounded, None
<1>5. CASE ConnectFails
  BY <1>1, <1>5
  DEF ConnectFails, Settle, netVars, TransportInv, SideTypeOK, ConnectsOnce, AttemptLives,
      FaultSinceAttempt, OutageBounded, None
<1> QED
  BY <1>2, <1>3, <1>4, <1>5

LEMMA CallStep ==
  ASSUME TransportInv, StartCall \/ BackendProcesses \/ CallReturns \/ CallFails
  PROVE  TransportInv'
<1>1. loop = "ticking" /\ holder # None
  BY DEF TransportInv, SideTypeOK, StartCall, BackendProcesses, CallReturns, CallFails,
         CallEndsInError
<1>2. CASE StartCall
  BY <1>1, <1>2
  DEF StartCall, netVars, TransportInv, SideTypeOK, ConnectsOnce, AttemptLives,
      FaultSinceAttempt, OutageBounded, None
<1>3. CASE BackendProcesses
  BY <1>1, <1>3
  DEF BackendProcesses, TransportInv, SideTypeOK, ConnectsOnce, AttemptLives,
      FaultSinceAttempt, OutageBounded, None
<1>4. CASE CallReturns
  BY <1>1, <1>4
  DEF CallReturns, Settle, netVars, TransportInv, SideTypeOK, ConnectsOnce, AttemptLives,
      FaultSinceAttempt, OutageBounded, None
<1>5. CASE CallFails
  <2>1. phase \in {"call", "processed"} /\ client # "none"
    BY <1>5 DEF CallFails, CallEndsInError
  <2>2. /\ client' = "none" /\ holder' = None /\ phase' = "start"
        /\ dropped' \in {None, "failed"}
        /\ faultAge' = IF client = "connected" THEN 0 ELSE faultAge
        /\ UNCHANGED <<loop, spawned, queue, attempt, sinceTry, up>>
    BY <1>5 DEF CallFails, CallEndsInError, Settle
  <2>3. /\ attempt \in 0..AgeCap /\ faultAge \in 0..AgeCap /\ 0 \in 0..AgeCap
        /\ ~up => faultAge = 0
        /\ client # "connected" => faultAge <= attempt
    BY <1>1, <2>1 DEF TransportInv, SideTypeOK, FaultSinceAttempt, AgeCap
  <2>4. faultAge' \in 0..AgeCap /\ faultAge' <= attempt' /\ (~up' => faultAge' = 0)
    BY <2>2, <2>3
  <2> QED
    BY <1>1, <2>2, <2>4
    DEF TransportInv, SideTypeOK, ConnectsOnce, AttemptLives, FaultSinceAttempt,
        OutageBounded, None
<1> QED
  BY <1>2, <1>3, <1>4, <1>5

LEMMA BackendStep ==
  ASSUME TransportInv, BackendDown \/ BackendUp \/ Shutdown
  PROVE  TransportInv'
<1>1. CASE BackendDown
  <2>1. 0 \in 0..AgeCap /\ attempt \in 0..AgeCap
    BY DEF TransportInv, SideTypeOK, AgeCap
  <2>2. SideTypeOK'
    BY <1>1, <2>1 DEF BackendDown, TransportInv, SideTypeOK
  <2>3. faultAge' = 0 /\ faultAge' <= attempt' /\ phase' # "connect" /\ dropped' = None
    BY <1>1, <2>1 DEF BackendDown
  <2>4. ConnectsOnce'
    BY <1>1 DEF BackendDown, TransportInv, ConnectsOnce
  <2> QED
    BY <1>1, <2>2, <2>3, <2>4
    DEF BackendDown, TransportInv, AttemptLives, FaultSinceAttempt, OutageBounded, None
<1>2. CASE BackendUp
  BY <1>2
  DEF BackendUp, TransportInv, SideTypeOK, ConnectsOnce, AttemptLives,
      FaultSinceAttempt, OutageBounded, None
<1>3. CASE Shutdown
  <2>1. <<>> \in Seq(Messages)
    BY EmptySeq
  <2> QED
    BY <1>3, <2>1
    DEF Shutdown, TransportInv, SideTypeOK, ConnectsOnce, AttemptLives,
        FaultSinceAttempt, OutageBounded, None
<1> QED
  BY <1>1, <1>2, <1>3

LEMMA TransportStep == TransportInv /\ [SideNext]_sideVars => TransportInv'
<1> SUFFICES ASSUME TransportInv, [SideNext]_sideVars PROVE TransportInv'
  OBVIOUS
<1>1. CASE UNCHANGED sideVars
  BY <1>1
  DEF sideVars, netVars, TransportInv, SideTypeOK, ConnectsOnce, AttemptLives,
      FaultSinceAttempt, OutageBounded
<1>2. CASE Task
  BY <1>2, LockStep, ConnectStep, CallStep DEF Task
<1> QED
  BY <1>1, <1>2, CollectStep, BackendStep DEF SideNext

LEMMA TransportInvariant == SideSpec => []TransportInv
BY TransportInit, TransportStep, PTL DEF SideSpec

\* The transport keeps its types, and its lock has one holder that calls on a client only.
THEOREM TransportTypeCorrect == SideSpec => []SideTypeOK
<1>1. TransportInv => SideTypeOK
  BY DEF TransportInv
<1> QED
  BY <1>1, TransportInvariant, PTL

\* A message is given up without a call only if the backend was down, or answered a call
\* with an error, less than the time between two attempts ago, whatever the tasks, their
\* order, the outages and the errors (grpc.rs, try_connect and its callers).
THEOREM OutageAlwaysBounded == SideSpec => []OutageBounded
<1>1. TransportInv => OutageBounded
  BY DEF TransportInv
<1> QED
  BY <1>1, TransportInvariant, PTL

-----------------------------------------------------------------------------
(* The attempts to connect implement Throttle. *)

\* What the refinement gives for the variable of Throttle.
QuietTime == [k \in {"connect"} |-> IF sinceTry < ReconnectAfter THEN sinceTry
                                                               ELSE ReconnectAfter]

\* Only the tick of the loop and an attempt change the time since the last attempt.
LEMMA SinceTryKept ==
  ASSUME TransportInv, [SideNext]_sideVars, ~CollectionTick, ~StartConnect
  PROVE  sinceTry' = sinceTry
BY DEF SideNext, Task, sideVars, netVars, AskForLock, TakeLock, Throttle, Connected,
       ConnectFails, StartCall, BackendProcesses, CallReturns, CallFails,
       CallEndsInError, BackendDown, BackendUp, Shutdown

LEMMA AttemptsStep == TransportInv /\ [SideNext]_sideVars => [Attempts!Next]_QuietTime
<1> SUFFICES ASSUME TransportInv, [SideNext]_sideVars
             PROVE  [Attempts!Next]_QuietTime
  OBVIOUS
<1>1. sinceTry \in 0..AgeCap /\ sinceTry = attempt
  BY DEF TransportInv, SideTypeOK
<1>2. CASE CollectionTick
  <2>1. sinceTry' = Older(sinceTry)
    BY <1>2 DEF CollectionTick, Collect
  <2>2. Attempts!Tick
    BY <1>1, <2>1 DEF Attempts!Tick, Older, AgeCap
  <2> QED
    BY <2>2 DEF Attempts!Next
<1>3. CASE StartConnect
  <2>1. sinceTry >= ReconnectAfter /\ sinceTry' = 0
    BY <1>1, <1>3 DEF StartConnect
  <2>2. Attempts!Raise({"connect"})
    BY <1>1, <2>1 DEF Attempts!Raise, AgeCap
  <2> QED
    BY <2>2 DEF Attempts!Next
<1>4. CASE ~CollectionTick /\ ~StartConnect
  BY <1>4, SinceTryKept DEF QuietTime
<1> QED
  BY <1>2, <1>3, <1>4

\* Two attempts to connect are ReconnectAfter apart, whichever tasks make them and
\* however the ones before ended (grpc.rs, try_connect).
THEOREM AttemptsAlwaysSpaced == SideSpec => AttemptsSpaced
<1>1. SideInit => Attempts!Init
  BY DEF SideInit, Attempts!Init, AgeCap
<1> QED
  BY <1>1, AttemptsStep, TransportInvariant, PTL
  DEF SideSpec, AttemptsSpaced, Attempts!Spec, QuietTime

-----------------------------------------------------------------------------
(* The shared page. *)

\* A bounded set of numbers has a greatest one.
LEMMA Greatest ==
  ASSUME NEW n \in Nat, NEW T \in SUBSET (0..n), T # {}
  PROVE  \E x \in T : \A y \in T : y <= x
<1> DEFINE Below == {n - y : y \in T}
<1>1. \A y \in T : y \in 0..n
  OBVIOUS
<1>2. Below \in SUBSET Nat /\ Below # {}
  <2>1. \A y \in T : n - y \in Nat
    BY <1>1
  <2>2. PICK y \in T : TRUE
    OBVIOUS
  <2>3. n - y \in Below
    BY <2>2
  <2> QED
    BY <2>1, <2>3
<1>3. PICK b \in Below : \A a \in Below : b <= a
  BY <1>2, Least
<1>4. PICK x \in T : b = n - x
  BY <1>3
<1>5. \A y \in T : n - x <= n - y
  BY <1>3, <1>4
<1> QED
  BY <1>1, <1>4, <1>5

\* The history of writes, and what the page holds of it: each field is at least as new as
\* every write completed, and those the current write has copied are of that write.
WriteInv ==
  /\ clock \in Int
  /\ Latest \in Nat
  /\ writes \in [0..Latest -> [time : Int, done : BOOLEAN]]
  /\ writes[0].done
  /\ page \in [Fields -> 0..Latest]
  /\ copying \subseteq Fields
  /\ \A f \in Fields, w \in Completed : w <= page[f]
  /\ copying # {} => \A f \in Fields \ copying : page[f] = Latest

\* A training has written lately.
Lately == \E w \in DOMAIN writes : Written(w) /\ clock - writes[w].time <= StaleAfter

\* What a read has found so far.
ReadInv ==
  /\ reader \in {"idle", "dead"} \cup Fields
  /\ base \in 0..Latest /\ \A f \in Fields : base <= page[f]
  /\ reader \in Fields =>
       sample = NoSample /\ \A f \in DOMAIN got : got[f] \in base..Latest
  /\ reader = "time" => "flag" \in DOMAIN got
  /\ reader \in Payload => {"flag", "time"} \subseteq DOMAIN got /\ Lately
  /\ SampleRegular

\* The writers only add writes, and replace a field by a newer one.
Extends ==
  /\ Latest' >= Latest
  /\ \A w \in DOMAIN writes : w \in DOMAIN writes' /\ writes'[w].time = writes[w].time
  /\ \A f \in Fields : page'[f] >= page[f]

USE ChannelAssumption

LEMMA PageInit == ChInit => WriteInv /\ ReadInv
<1> SUFFICES ASSUME ChInit PROVE WriteInv /\ ReadInv
  OBVIOUS
<1>1. DOMAIN writes = {0} /\ writes[0] = [time |-> 0, done |-> TRUE]
  BY DEF ChInit
<1>2. Latest = 0
  <2>1. Cardinality({0}) = 1
    BY FS_Singleton
  <2> QED
    BY <1>1, <2>1 DEF Latest
<1>3. 0..0 = {0}
  OBVIOUS
<1>4. writes \in [0..Latest -> [time : Int, done : BOOLEAN]]
  BY <1>1, <1>2, <1>3 DEF ChInit
<1>5. Completed = {0}
  BY <1>1 DEF Completed
<1>6. WriteInv
  BY <1>1, <1>2, <1>3, <1>4, <1>5 DEF ChInit, WriteInv
<1>7. ReadInv
  BY <1>2, <1>3 DEF ChInit, ReadInv, Fields, SampleRegular
<1> QED
  BY <1>6, <1>7

\* A new write comes after those there are.
LEMMA StartedWrite ==
  ASSUME WriteInv, NEW time \in Int, NEW done \in BOOLEAN, writes' = Started(time, done)
  PROVE  /\ Latest' = Latest + 1
         /\ writes' \in [0..Latest' -> [time : Int, done : BOOLEAN]]
         /\ writes'[Latest'] = [time |-> time, done |-> done]
         /\ \A w \in DOMAIN writes : w \in DOMAIN writes' /\ writes'[w] = writes[w]
<1>1. Latest \in Nat /\ writes \in [0..Latest -> [time : Int, done : BOOLEAN]]
  BY DEF WriteInv
<1>2. /\ DOMAIN writes' = 0..(Latest + 1)
      /\ \A w \in 0..(Latest + 1) :
           writes'[w] = IF w = Latest + 1 THEN [time |-> time, done |-> done] ELSE writes[w]
  BY DEF Started
<1>3. Latest' = Latest + 1
  <2>1. Cardinality(0..(Latest + 1)) = Latest + 2
    BY <1>1, FS_Interval
  <2> QED
    BY <1>1, <1>2, <2>1 DEF Latest
<1>4. \A w \in DOMAIN writes : w \in DOMAIN writes' /\ writes'[w] = writes[w]
  BY <1>1, <1>2, SMTT(30)
<1>5. \A w \in 0..(Latest + 1) : writes'[w] \in [time : Int, done : BOOLEAN]
  <2> TAKE w \in 0..(Latest + 1)
  <2>1. CASE w = Latest + 1
    BY <1>2, <2>1
  <2>2. CASE w # Latest + 1
    BY <1>1, <1>2, <2>2
  <2> QED
    BY <2>1, <2>2
<1>6. writes' = [w \in 0..(Latest + 1) |-> writes'[w]]
  BY DEF Started
<1> QED
  BY <1>1, <1>2, <1>3, <1>4, <1>5, <1>6

LEMMA DoneField ==
  ASSUME NEW r \in [time : Int, done : BOOLEAN], NEW d
  PROVE  [r EXCEPT !.done = d] = [time |-> r.time, done |-> d]
OBVIOUS

\* A copied field is of the current write, and the last one completes it.
LEMMA CopyStep ==
  ASSUME WriteInv, CopyField
  PROVE  WriteInv' /\ Extends
<1>1. PICK f \in copying :
        /\ page' = [page EXCEPT ![f] = Latest]
        /\ copying' = copying \ {f}
        /\ writes' = IF copying = {f} THEN Finished ELSE writes
  BY DEF CopyField
<1>2. /\ Latest \in Nat /\ writes \in [0..Latest -> [time : Int, done : BOOLEAN]]
      /\ page \in [Fields -> 0..Latest] /\ copying \subseteq Fields /\ f \in Fields
      /\ clock' = clock
  BY <1>1 DEF WriteInv, CopyField
<1>3. /\ writes' \in [0..Latest -> [time : Int, done : BOOLEAN]]
      /\ \A w \in 0..Latest : writes'[w].time = writes[w].time
      /\ \A w \in 0..Latest : writes[w].done => writes'[w].done
      /\ \A w \in 0..Latest : writes'[w].done => writes[w].done \/ (w = Latest /\ copying = {f})
  <2>1. CASE copying # {f}
    <3>1. writes' = writes
      BY <1>1, <2>1
    <3> QED
      BY <1>2, <3>1, Zenon
  <2>2. CASE copying = {f}
    <3>1. writes' = [writes EXCEPT ![Latest].done = TRUE]
      BY <1>1, <2>2 DEF Finished
    <3>2. Latest \in 0..Latest
      BY <1>2
    <3>3. writes[Latest] \in [time : Int, done : BOOLEAN]
      BY <1>2, <3>2
    <3>4. writes' = [writes EXCEPT ![Latest] = [writes[Latest] EXCEPT !.done = TRUE]]
      BY <3>1
    <3>5. [writes[Latest] EXCEPT !.done = TRUE] = [time |-> writes[Latest].time, done |-> TRUE]
      BY <3>3, DoneField, Zenon
    <3>6. writes' = [writes EXCEPT ![Latest] = [time |-> writes[Latest].time, done |-> TRUE]]
      BY <3>4, <3>5
    <3> QED
      BY <1>2, <2>2, <3>2, <3>3, <3>6
  <2> QED
    BY <2>1, <2>2
<1>4. Latest' = Latest
  BY <1>2, <1>3 DEF Latest
<1>5. page' \in [Fields -> 0..Latest] /\ \A g \in Fields : page'[g] >= page[g]
  BY <1>1, <1>2
<1>6. \A g \in Fields, w \in Completed' : w <= page'[g]
  <2> SUFFICES ASSUME NEW g \in Fields, NEW w \in 0..Latest, writes'[w].done
               PROVE  w <= page'[g]
    BY <1>3 DEF Completed
  <2>1. CASE writes[w].done
    <3>1. w <= page[g]
      BY <1>2, <2>1 DEF WriteInv, Completed
    <3> QED
      BY <1>2, <1>5, <3>1
  <2>2. CASE w = Latest /\ copying = {f}
    <3>1. page'[g] = Latest
      BY <1>1, <1>2, <2>2 DEF WriteInv
    <3> QED
      BY <1>2, <2>2, <3>1
  <2> QED
    BY <1>3, <2>1, <2>2
<1>7. \A g \in Fields \ copying' : copying' # {} => page'[g] = Latest
  BY <1>1, <1>2 DEF WriteInv
<1>8. writes'[0].done
  BY <1>2, <1>3 DEF WriteInv
<1>9. copying' \subseteq Fields /\ clock' \in Int
  BY <1>1, <1>2 DEF WriteInv
<1>10. WriteInv'
  BY <1>2, <1>3, <1>4, <1>5, <1>6, <1>7, <1>8, <1>9 DEF WriteInv
<1> QED
  BY <1>2, <1>3, <1>4, <1>5, <1>10 DEF Extends

\* What the page holds after a new write: it fills the page, or has all of it to copy.
LEMMA NewWrite ==
  ASSUME WriteInv, clock' = clock,
         Latest' = Latest + 1,
         writes' \in [0..Latest' -> [time : Int, done : BOOLEAN]],
         \A w \in DOMAIN writes : w \in DOMAIN writes' /\ writes'[w] = writes[w],
         \/ page' = [f \in Fields |-> Latest + 1] /\ copying' = copying
         \/ page' = page /\ copying' = Fields /\ ~writes'[Latest'].done
  PROVE  WriteInv' /\ Extends
<1>1. /\ Latest \in Nat /\ writes \in [0..Latest -> [time : Int, done : BOOLEAN]]
      /\ page \in [Fields -> 0..Latest] /\ clock \in Int
  BY DEF WriteInv
<1>2. page' \in [Fields -> 0..Latest'] /\ \A f \in Fields : page'[f] >= page[f]
  <2>1. \A f \in Fields : page[f] \in 0..Latest /\ page[f] \in 0..(Latest + 1) /\ Latest + 1 >= page[f]
    BY <1>1
  <2>2. CASE page' = [f \in Fields |-> Latest + 1]
    <3>1. page' \in [Fields -> 0..(Latest + 1)]
      BY <1>1, <2>2
    <3>2. \A f \in Fields : page'[f] >= page[f]
      BY <2>1, <2>2
    <3> QED
      BY <3>1, <3>2
  <2>3. CASE page' = page
    <3>1. page \in [Fields -> 0..(Latest + 1)]
      BY <1>1, <2>1
    <3>2. \A f \in Fields : page'[f] >= page[f]
      BY <2>1, <2>3
    <3> QED
      BY <2>3, <3>1, <3>2
  <2> QED
    BY <2>2, <2>3
<1>3. ASSUME NEW f \in Fields, NEW w \in 0..Latest', writes'[w].done
      PROVE  w <= page'[f]
  <2>1. CASE page' = [g \in Fields |-> Latest + 1]
    BY <1>1, <1>3, <2>1
  <2>2. CASE page' = page /\ ~writes'[Latest'].done
    <3>1. w # Latest'
      BY <1>3, <2>2
    <3>2. w \in 0..Latest /\ writes[w].done
      BY <1>1, <1>3, <3>1
    <3> QED
      BY <1>1, <2>2, <3>2 DEF WriteInv, Completed
  <2> QED
    BY <2>1, <2>2
<1>4. \A f \in Fields, w \in Completed' : w <= page'[f]
  BY <1>3 DEF Completed
<1>5. writes'[0].done
  BY <1>1 DEF WriteInv
<1>6. /\ copying' \subseteq Fields
      /\ copying' # {} => \A f \in Fields \ copying' : page'[f] = Latest'
  BY <1>1 DEF WriteInv
<1>7. WriteInv'
  BY <1>1, <1>2, <1>4, <1>5, <1>6, SMTT(30) DEF WriteInv
<1>8. Latest' >= Latest
  BY <1>1
<1>9. \A w \in DOMAIN writes : w \in DOMAIN writes' /\ writes'[w].time = writes[w].time
  OBVIOUS
<1> QED
  BY <1>2, <1>7, <1>8, <1>9, Zenon DEF Extends

\* The steps of the writers.
LEMMA WriteStep ==
  ASSUME WriteInv,
         \/ Truncate \/ FillZeros \/ WriteRecord \/ CopyField \/ OnTrainEnd \/ Close \/ Crash
         \/ \E configured \in BOOLEAN : LogMetric(configured)
         \/ PostEnds
  PROVE  WriteInv' /\ Extends
<1>1. /\ Latest \in Nat /\ writes \in [0..Latest -> [time : Int, done : BOOLEAN]]
      /\ page \in [Fields -> 0..Latest] /\ clock \in Int
  BY DEF WriteInv
<1>2. CASE FillZeros
  <2>1. writes' = Started(0, TRUE)
    BY <1>2 DEF FillZeros
  <2>2. /\ page' = [f \in Fields |-> Latest + 1]
        /\ UNCHANGED <<clock, copying>>
    BY <1>2 DEF FillZeros
  <2>3. /\ Latest' = Latest + 1
        /\ writes' \in [0..Latest' -> [time : Int, done : BOOLEAN]]
        /\ \A w \in DOMAIN writes : w \in DOMAIN writes' /\ writes'[w] = writes[w]
    <3>1. 0 \in Int /\ TRUE \in BOOLEAN
      OBVIOUS
    <3> QED
      BY <2>1, <3>1, StartedWrite, Zenon
  <2> QED
    BY <1>1, <2>2, <2>3, NewWrite
<1>3. CASE WriteRecord
  <2>1. writes' = Started(clock, FALSE)
    BY <1>3 DEF WriteRecord
  <2>2. page' = page /\ copying' = Fields /\ clock' = clock
    BY <1>3 DEF WriteRecord, Record
  <2>3. /\ Latest' = Latest + 1
        /\ writes' \in [0..Latest' -> [time : Int, done : BOOLEAN]]
        /\ writes'[Latest'] = [time |-> clock, done |-> FALSE]
        /\ \A w \in DOMAIN writes : w \in DOMAIN writes' /\ writes'[w] = writes[w]
    <3>1. FALSE \in BOOLEAN
      OBVIOUS
    <3> QED
      BY <1>1, <2>1, <3>1, StartedWrite, Zenon
  <2>4. ~writes'[Latest'].done
    BY <2>3
  <2> QED
    BY <1>1, <2>2, <2>3, <2>4, NewWrite
<1>4. CASE CopyField
  BY <1>4, CopyStep
<1>5. ASSUME UNCHANGED <<clock, writes, page>>, copying' = copying \/ copying' = {}
      PROVE  WriteInv' /\ Extends
  BY <1>1, <1>5 DEF WriteInv, Extends, Latest, Completed
<1> QED
  BY <1>2, <1>3, <1>4, <1>5
  DEF Truncate, OnTrainEnd, Close, End, Crash, LogMetric, PostEnds, fileVars

\* A step of the writers keeps what the reader has found, and the page it has yet to read.
LEMMA ReadKept ==
  ASSUME WriteInv, WriteInv', ReadInv, Extends, UNCHANGED <<clock, readerVars>>
  PROVE  ReadInv'
<1>1. /\ Latest \in Nat /\ Latest' \in Nat /\ Latest <= Latest' /\ base' = base /\ clock' = clock
      /\ UNCHANGED <<reader, got, sample>>
  BY DEF WriteInv, Extends, readerVars
<1>2. base' \in 0..Latest'
  BY <1>1 DEF ReadInv
<1>3. \A f \in Fields : base' <= page'[f]
  <2> TAKE f \in Fields
  <2>1. page[f] \in 0..Latest /\ page'[f] \in 0..Latest'
    BY DEF WriteInv
  <2>2. base <= page[f] /\ page[f] <= page'[f]
    BY DEF ReadInv, Extends
  <2> QED
    BY <1>1, <1>2, <2>1, <2>2
<1>4. base..Latest \subseteq base'..Latest'
  BY <1>1, <1>2
<1>5. Lately => Lately'
  BY <1>1 DEF Lately, Written, Extends
<1>6. SampleRegular'
  <2>1. CASE sample # NoSample
    <3>1. \A f \in Fields : sample'[f] \in base'..Latest'
      BY <1>1, <1>4, <2>1 DEF ReadInv, SampleRegular
    <3>2. Lately'
      BY <1>5, <2>1 DEF ReadInv, SampleRegular, Lately
    <3> QED
      BY <3>1, <3>2 DEF SampleRegular, Lately
  <2>2. CASE sample = NoSample
    BY <1>1, <2>2 DEF SampleRegular, NoSample
  <2> QED
    BY <2>1, <2>2
<1>7. reader' \in Fields => \A f \in DOMAIN got' : got'[f] \in base'..Latest'
  BY <1>1, <1>4 DEF ReadInv
<1> QED
  BY <1>1, <1>2, <1>3, <1>5, <1>6, <1>7 DEF ReadInv, NoSample

\* The file is mapped: every field is at least as new as the last write completed.
LEMMA MapStep ==
  ASSUME WriteInv, ReadInv, MapFile
  PROVE  ReadInv'
<1>1. /\ Latest \in Nat /\ page \in [Fields -> 0..Latest] /\ DOMAIN writes = 0..Latest
      /\ writes[0].done
  BY DEF WriteInv
<1>2. Completed \in SUBSET (0..Latest) /\ Completed # {}
  BY <1>1 DEF Completed
<1>3. LastCompleted \in Completed
  <2>1. \E w \in Completed : \A x \in Completed : x <= w
    BY <1>1, <1>2, Greatest
  <2> QED
    BY <2>1 DEF LastCompleted
<1>4. LastCompleted \in 0..Latest /\ \A f \in Fields : LastCompleted <= page[f]
  BY <1>2, <1>3 DEF WriteInv
<1>5. /\ base' = LastCompleted /\ sample' = NoSample /\ got' = <<>> /\ reader' \in {"idle", "flag"}
      /\ UNCHANGED <<clock, page, writes>>
  BY DEF MapFile, NothingRead, fileVars
<1>6. Latest' = Latest /\ NoSample' = NoSample
  BY <1>5 DEF Latest, NoSample
<1>7. "flag" \notin Payload /\ "idle" \notin Payload
  OBVIOUS
<1> QED
  BY <1>4, <1>5, <1>6, <1>7 DEF ReadInv, Fields, SampleRegular

\* A field kept is at least as new as the last write completed when the read began.
LEMMA KeepStep ==
  ASSUME WriteInv, ReadInv, NEW f \in Fields, reader \in Fields, Keep(f),
         UNCHANGED <<clock, page, writes, base>>
  PROVE  /\ DOMAIN got' = DOMAIN got \cup {f}
         /\ \A g \in DOMAIN got' : got'[g] \in base'..Latest'
         /\ base' \in 0..Latest' /\ \A g \in Fields : base' <= page'[g]
<1>1. /\ Latest' = Latest /\ Latest \in Nat /\ page[f] \in 0..Latest
  BY DEF Latest, WriteInv
<1>2. base \in 0..Latest /\ base <= page[f] /\ \A g \in DOMAIN got : got[g] \in base..Latest
  BY DEF ReadInv
<1>3. page[f] \in base..Latest
  BY <1>1, <1>2
<1>4. /\ DOMAIN got' = DOMAIN got \cup {f}
      /\ \A g \in DOMAIN got' : got'[g] = IF g = f THEN page[f] ELSE got[g]
  BY DEF Keep
<1> QED
  BY <1>1, <1>2, <1>3, <1>4 DEF ReadInv

\* A read given up finds nothing.
LEMMA NothingStep ==
  ASSUME WriteInv, ReadInv, NothingRead, UNCHANGED <<clock, page, writes, base>>
  PROVE  ReadInv'
<1>1. /\ reader' = "idle" /\ sample' = NoSample' /\ Latest' = Latest
  BY DEF NothingRead, Latest, NoSample
<1>2. "idle" \notin Fields
  BY DEF Fields
<1> QED
  BY <1>1, <1>2 DEF ReadInv, Fields, SampleRegular

LEMMA FlagStep ==
  ASSUME WriteInv, ReadInv, ReadFlag
  PROVE  ReadInv'
<1>1. UNCHANGED <<clock, page, writes, base>> /\ reader = "flag" /\ reader \in Fields
  BY DEF ReadFlag, fileVars, Fields
<1>2. CASE NothingRead
  BY <1>1, <1>2, NothingStep
<1>3. CASE Keep("flag") /\ reader' = "time" /\ sample' = sample
  <2>1. /\ DOMAIN got' = DOMAIN got \cup {"flag"}
        /\ \A g \in DOMAIN got' : got'[g] \in base'..Latest'
        /\ base' \in 0..Latest' /\ \A g \in Fields : base' <= page'[g]
    BY <1>1, <1>3, KeepStep
  <2>2. sample' = NoSample' /\ "time" \notin Payload
    BY <1>1, <1>3 DEF ReadInv, NoSample
  <2> QED
    BY <1>3, <2>1, <2>2 DEF ReadInv, Fields, SampleRegular
<1> QED
  BY <1>2, <1>3 DEF ReadFlag

\* The time read is of a write a reader may still show.
LEMMA TimeStep ==
  ASSUME WriteInv, ReadInv, ReadTime
  PROVE  ReadInv'
<1>1. UNCHANGED <<clock, page, writes, base>> /\ reader = "time" /\ reader \in Fields
  BY DEF ReadTime, fileVars, Fields
<1>2. CASE NothingRead
  BY <1>1, <1>2, NothingStep
<1>3. CASE /\ Fresh(writes[page["time"]].time) /\ Written(page["time"])
           /\ Keep("time") /\ sample' = sample /\ reader' \in Payload
  <2>1. /\ DOMAIN got' = DOMAIN got \cup {"time"}
        /\ \A g \in DOMAIN got' : got'[g] \in base'..Latest'
        /\ base' \in 0..Latest' /\ \A g \in Fields : base' <= page'[g]
    BY <1>1, <1>3, KeepStep
  <2>2. Lately'
    <3>1. page["time"] \in DOMAIN writes
      BY DEF WriteInv, Fields
    <3> QED
      BY <1>1, <1>3, <3>1 DEF Lately, Fresh, Written
  <2>3. sample' = NoSample' /\ reader' # "time"
    BY <1>1, <1>3 DEF ReadInv, NoSample
  <2> QED
    BY <1>1, <1>3, <2>1, <2>2, <2>3 DEF ReadInv, Fields, SampleRegular
<1> QED
  BY <1>2, <1>3 DEF ReadTime

\* The last field makes the record a sample.
LEMMA FieldStep ==
  ASSUME WriteInv, ReadInv, ReadField
  PROVE  ReadInv'
<1>1. UNCHANGED <<clock, page, writes, base>> /\ reader \in Payload /\ reader \in Fields
  BY DEF ReadField, fileVars, Fields
<1>2. /\ DOMAIN got' = DOMAIN got \cup {reader}
      /\ \A g \in DOMAIN got' : got'[g] \in base'..Latest'
      /\ base' \in 0..Latest' /\ \A g \in Fields : base' <= page'[g]
  BY <1>1, KeepStep DEF ReadField
<1>3. {"flag", "time"} \subseteq DOMAIN got' /\ Lately'
  BY <1>1, <1>2 DEF ReadInv, Lately, Written
<1>4. CASE reader' \in Payload /\ sample' = sample
  <2>1. sample' = NoSample' /\ reader' # "time"
    BY <1>1, <1>4 DEF ReadInv, NoSample
  <2> QED
    BY <1>2, <1>3, <1>4, <2>1 DEF ReadInv, Fields, SampleRegular
<1>5. CASE Payload \ (DOMAIN got \cup {reader}) = {} /\ reader' = "idle" /\ sample' = got'
  <2>1. Fields \subseteq DOMAIN got'
    BY <1>2, <1>3, <1>5 DEF Fields
  <2>2. SampleRegular'
    BY <1>2, <1>3, <1>5, <2>1 DEF SampleRegular, Lately
  <2>3. reader' \notin Fields
    BY <1>5 DEF Fields
  <2> QED
    BY <1>2, <1>5, <2>2, <2>3 DEF ReadInv, Fields
<1> QED
  BY <1>4, <1>5 DEF ReadField

LEMMA TickStep ==
  ASSUME WriteInv, ReadInv, ChTick \/ ReadBeyondEnd
  PROVE  WriteInv' /\ ReadInv'
<1>1. /\ UNCHANGED <<page, writes, copying, base>>
      /\ sample' = NoSample' /\ reader' \in {"idle", "dead"} /\ clock' \in Int
  BY DEF ChTick, ReadBeyondEnd, fileVars, WriteInv, ReadInv, NoSample
<1>2. Latest' = Latest /\ Completed' = Completed
  BY <1>1 DEF Latest, Completed
<1>3. WriteInv'
  BY <1>1, <1>2 DEF WriteInv
<1>4. reader' \notin Fields
  BY <1>1 DEF Fields
<1>5. ReadInv'
  BY <1>1, <1>2, <1>4 DEF ReadInv, Fields, SampleRegular
<1> QED
  BY <1>3, <1>5

LEMMA PageStep == WriteInv /\ ReadInv /\ [ChNext]_chVars => WriteInv' /\ ReadInv'
<1> SUFFICES ASSUME WriteInv, ReadInv, [ChNext]_chVars
             PROVE  WriteInv' /\ ReadInv'
  OBVIOUS
<1>1. CASE \/ Truncate \/ FillZeros \/ WriteRecord \/ CopyField \/ OnTrainEnd \/ Close \/ Crash
           \/ \E configured \in BOOLEAN : LogMetric(configured)
           \/ PostEnds
  <2>1. WriteInv' /\ Extends
    BY <1>1, WriteStep
  <2>2. UNCHANGED <<clock, readerVars>>
    BY <1>1 DEF Truncate, FillZeros, WriteRecord, CopyField, OnTrainEnd, Close, End, Crash,
                LogMetric, PostEnds
  <2> QED
    BY <2>1, <2>2, ReadKept
<1>2. CASE MapFile \/ ReadFlag \/ ReadTime \/ ReadField
  <2>1. UNCHANGED <<clock, page, writes, copying>>
    BY <1>2 DEF MapFile, ReadFlag, ReadTime, ReadField, fileVars
  <2>2. WriteInv'
    BY <2>1 DEF WriteInv, Latest, Completed
  <2> QED
    BY <1>2, <2>2, MapStep, FlagStep, TimeStep, FieldStep
<1>3. CASE ReadBeyondEnd \/ ChTick
  BY <1>3, TickStep
<1>4. CASE UNCHANGED chVars
  BY <1>4 DEF chVars, fileVars, readerVars, WriteInv, ReadInv, Latest, Completed, Lately,
              Written, SampleRegular
<1> QED
  BY <1>1, <1>2, <1>3, <1>4 DEF ChNext

\* A record read without a lock is regular, for any fields, in whatever order they are
\* copied and read, and however often the training restarts meanwhile (training.rs, read).
THEOREM SampleAlwaysRegular == ChSpec => []SampleRegular
<1>1. WriteInv /\ ReadInv => SampleRegular
  BY DEF ReadInv
<1> QED
  BY <1>1, PageInit, PageStep, PTL DEF ChSpec

HIDE SidecarAssumption
HIDE ChannelAssumption

-----------------------------------------------------------------------------
(* The socket. *)

Records == [phase : {"connecting", "open", "closing", "closed"},
            key : Keys \cup {Absent}, unmounted : BOOLEAN]

\* A signed-in run of the effect has either a socket or a timer.
Served == \/ timers = 0 /\ \E s \in Sockets : Live = {s}
          \/ timers = 1 /\ Live = {}

SocketInv ==
  /\ stored \in Keys \cup {Absent} /\ run \in Keys \cup {Absent}
  /\ socket \in [Sockets -> Records]
  /\ run = Absent => timers = 0 /\ Live = {}
  /\ run # Absent => Served
  /\ \A s \in Live : socket[s].phase = "open" => connected /\ delay = 1

\* A new socket is the only live one when there was none before it.
LEMMA ConnectServes ==
  ASSUME NEW sockets \in [Sockets -> Records], NEW key \in Keys,
         stored \in Keys \cup {Absent},
         \A s \in Sockets : sockets[s].phase = "closed" \/ sockets[s].unmounted,
         Connect(sockets, key)
  PROVE  /\ socket' \in [Sockets -> Records]
         /\ \E s \in Sockets : Live' = {s}
         /\ \A s \in Live' : socket'[s].phase = "connecting"
<1> DEFINE fresh == [phase |-> "connecting", key |-> stored, unmounted |-> FALSE]
<1>1. key # Absent
  BY DashSocketAssumption
<1>2. PICK s \in Sockets : socket' = [sockets EXCEPT ![s] = fresh]
  BY <1>1 DEF Connect
<1>3. fresh \in Records
  BY DEF Records
<1>4. socket' \in [Sockets -> Records]
  BY <1>2, <1>3
<1>5. socket'[s] = fresh /\ \A t \in Sockets \ {s} : socket'[t] = sockets[t]
  BY <1>2
<1>6. Live' = {s}
  BY <1>5 DEF Live
<1> QED
  BY <1>4, <1>5, <1>6

LEMMA SocketInit == WsInit => SocketInv
<1> SUFFICES ASSUME WsInit PROVE SocketInv
  OBVIOUS
<1>1. Closed \in Records
  BY DEF Closed, Records
<1>2. socket \in [Sockets -> Records]
  BY <1>1 DEF WsInit
<1>3. Live = {}
  BY DEF WsInit, Live, Closed
<1> QED
  BY <1>2, <1>3 DEF WsInit, SocketInv

\* The cleanup leaves nothing live, and the new run connects at most once.
LEMMA AuthEffectStep == SocketInv /\ AuthEffect => SocketInv'
<1> SUFFICES ASSUME SocketInv, AuthEffect PROVE SocketInv'
  OBVIOUS
<1> DEFINE clean == [s \in Sockets |-> CleanUp(socket[s], s)]
<1>1. ASSUME NEW s \in Sockets
      PROVE  clean[s] \in Records /\ (clean[s].phase = "closed" \/ clean[s].unmounted)
  <2>1. socket[s] \in Records
    BY DEF SocketInv
  <2>2. CASE socket[s] = Closed
    BY <2>1, <2>2 DEF CleanUp, Closed
  <2>3. CASE socket[s] # Closed
    <3>1. clean[s] = [socket[s] EXCEPT !.phase = Hangup(socket[s], s), !.unmounted = TRUE]
      BY <2>3 DEF CleanUp
    <3>2. Hangup(socket[s], s) \in {"connecting", "open", "closing", "closed"}
      BY <2>1 DEF Hangup, Records
    <3> QED
      BY <2>1, <3>1, <3>2 DEF Records
  <2> QED
    BY <2>2, <2>3
<1>2. clean \in [Sockets -> Records]
  BY <1>1
<1>3. Connect(clean, stored) /\ timers' = 0 /\ run' = stored /\ stored' = stored
  BY DEF AuthEffect
<1>4. stored \in Keys \cup {Absent}
  BY DEF SocketInv
<1>5. CASE stored = Absent
  <2>1. socket' = clean
    BY <1>3, <1>5 DEF Connect
  <2>2. Live' = {}
    BY <1>1, <2>1 DEF Live
  <2> QED
    BY <1>2, <1>3, <1>4, <1>5, <2>1, <2>2 DEF SocketInv
<1>6. CASE stored # Absent
  <2>1. stored \in Keys
    BY <1>4, <1>6
  <2>2. /\ socket' \in [Sockets -> Records]
        /\ \E s \in Sockets : Live' = {s}
        /\ \A s \in Live' : socket'[s].phase = "connecting"
    BY <1>1, <1>2, <1>3, <1>4, <2>1, ConnectServes
  <2> QED
    BY <1>3, <1>4, <1>6, <2>2 DEF SocketInv, Served
<1> QED
  BY <1>5, <1>6

\* Opening leaves the live sockets as they are, and shows a live one.
LEMMA OpenStep ==
  ASSUME NEW s \in Sockets, SocketInv, SocketOpens(s) PROVE SocketInv'
<1>1. socket[s] \in Records /\ socket[s].phase = "connecting"
  BY DEF SocketInv, SocketOpens
<1>2. socket' = [socket EXCEPT ![s] = [socket[s] EXCEPT !.phase = "open"]]
  BY DEF SocketOpens
<1>3. [socket[s] EXCEPT !.phase = "open"] \in Records
  BY <1>1 DEF Records
<1>4. socket' \in [Sockets -> Records]
  BY <1>2, <1>3 DEF SocketInv
<1>5. /\ socket'[s].phase = "open" /\ socket'[s].unmounted = socket[s].unmounted
      /\ \A t \in Sockets \ {s} : socket'[t] = socket[t]
  BY <1>1, <1>2 DEF SocketInv, Records
<1>6. Live' = Live
  BY <1>1, <1>5 DEF Live
<1>7. \A t \in Live' : socket'[t].phase = "open" => connected' /\ delay' = 1
  <2>1. CASE socket[s].unmounted
    BY <1>5, <1>6, <2>1 DEF SocketInv, SocketOpens, Live
  <2>2. CASE ~socket[s].unmounted
    BY <2>2 DEF SocketOpens
  <2> QED
    BY <2>1, <2>2
<1> QED
  BY <1>4, <1>6, <1>7 DEF SocketInv, SocketOpens, Served

\* The socket that closes was the live one and leaves a timer, or was not live.
LEMMA CloseStep ==
  ASSUME NEW s \in Sockets, SocketInv, SocketCloses(s) PROVE SocketInv'
<1>1. socket[s] \in Records /\ socket[s].phase # "closed"
  BY DEF SocketInv, SocketCloses, Ends
<1>2. socket' = [socket EXCEPT ![s] = Closed] /\ Closed \in Records
  BY DEF SocketCloses, Closed, Records
<1>3. socket' \in [Sockets -> Records]
  BY <1>2 DEF SocketInv
<1>4. socket'[s] = Closed /\ \A t \in Sockets \ {s} : socket'[t] = socket[t]
  BY <1>2 DEF SocketInv
<1>5. Live' = Live \ {s}
  BY <1>4 DEF Live, Closed
<1>6. CASE socket[s].unmounted
  <2>1. Live' = Live
    BY <1>5, <1>6 DEF Live
  <2>2. UNCHANGED <<connected, timers, delay, run, stored>>
    BY <1>6 DEF SocketCloses
  <2>3. \A t \in Live' : socket'[t] = socket[t]
    BY <1>4, <1>5 DEF Live
  <2> QED
    BY <1>3, <2>1, <2>2, <2>3 DEF SocketInv, Served
<1>7. CASE ~socket[s].unmounted
  <2>1. s \in Live
    BY <1>1, <1>7 DEF Live
  <2>2. run # Absent /\ timers = 0 /\ Live = {s}
    BY <2>1 DEF SocketInv, Served
  <2>3. timers' = 1 /\ Live' = {}
    BY <1>5, <1>7, <2>2 DEF SocketCloses
  <2> QED
    BY <1>3, <2>2, <2>3 DEF SocketInv, SocketCloses, Served
<1> QED
  BY <1>6, <1>7

\* A pending timer is the only one and there is no live socket beside it.
LEMMA TimerStep == SocketInv /\ RetryTimer => SocketInv'
<1> SUFFICES ASSUME SocketInv, RetryTimer PROVE SocketInv'
  OBVIOUS
<1>1. run \in Keys /\ timers = 1 /\ Live = {}
  BY DEF SocketInv, Served, RetryTimer
<1>2. timers' = 0 /\ Connect(socket, run) /\ UNCHANGED <<run, stored>>
  BY <1>1 DEF RetryTimer
<1>3. \A s \in Sockets : socket[s].phase = "closed" \/ socket[s].unmounted
  BY <1>1 DEF Live
<1>4. socket \in [Sockets -> Records] /\ stored \in Keys \cup {Absent}
  BY DEF SocketInv
<1>5. /\ socket' \in [Sockets -> Records]
      /\ \E s \in Sockets : Live' = {s}
      /\ \A s \in Live' : socket'[s].phase = "connecting"
  BY <1>1, <1>2, <1>3, <1>4, ConnectServes
<1> QED
  BY <1>1, <1>2, <1>4, <1>5, DashSocketAssumption DEF SocketInv, Served

\* An outage leaves the live sockets live until they close.
LEMMA OutageStep == SocketInv /\ ServingEnds => SocketInv'
<1> SUFFICES ASSUME SocketInv, ServingEnds PROVE SocketInv'
  OBVIOUS
<1>1. ASSUME NEW s \in Sockets
      PROVE  /\ socket'[s] \in Records
             /\ socket'[s].unmounted = socket[s].unmounted
             /\ (socket'[s].phase = "closed") = (socket[s].phase = "closed")
             /\ socket'[s].phase # "open"
  <2>1. socket[s] \in Records
    BY DEF SocketInv
  <2>2. socket'[s] = IF socket[s].phase \in {"connecting", "open"}
                       THEN [socket[s] EXCEPT !.phase = "closing"] ELSE socket[s]
    BY DEF ServingEnds
  <2> QED
    BY <2>1, <2>2 DEF Records
<1>2. socket' \in [Sockets -> Records]
  <2>1. socket' = [s \in Sockets |-> socket'[s]]
    BY DEF ServingEnds
  <2> QED
    BY <1>1, <2>1
<1>3. Live' = Live
  BY <1>1 DEF Live
<1>4. \A s \in Live' : socket'[s].phase # "open"
  BY <1>1 DEF Live
<1> QED
  BY <1>2, <1>3, <1>4 DEF SocketInv, ServingEnds, Served

LEMMA SocketStep == SocketInv /\ [WsNext]_wsVars => SocketInv'
<1> SUFFICES ASSUME SocketInv, [WsNext]_wsVars PROVE SocketInv'
  OBVIOUS
<1>1. CASE StoreKey
  BY <1>1 DEF SocketInv, StoreKey, Live, Served
<1>2. CASE AuthEffect
  BY <1>2, AuthEffectStep
<1>3. CASE RetryTimer
  BY <1>3, TimerStep
<1>4. CASE ServingEnds
  BY <1>4, OutageStep
<1>5. CASE ServingStarts
  BY <1>5 DEF SocketInv, ServingStarts, Live, Served
<1>6. ASSUME NEW s \in Sockets, SocketOpens(s) PROVE SocketInv'
  BY <1>6, OpenStep
<1>7. ASSUME NEW s \in Sockets, SocketCloses(s) PROVE SocketInv'
  BY <1>7, CloseStep
<1>8. CASE UNCHANGED wsVars
  BY <1>8 DEF SocketInv, wsVars, Live, Served
<1> QED
  BY <1>1, <1>2, <1>3, <1>4, <1>5, <1>6, <1>7, <1>8 DEF WsNext

LEMMA ServedCount == SocketInv => OneSocket
<1> SUFFICES ASSUME SocketInv PROVE OneSocket
  OBVIOUS
<1>1. Cardinality({}) = 0
  BY FS_EmptySet
<1>2. \A s \in Sockets : Cardinality({s}) = 1
  BY FS_Singleton
<1>3. CASE run = Absent
  BY <1>1, <1>3 DEF SocketInv, OneSocket
<1>4. CASE run # Absent
  <2>1. CASE timers = 0 /\ \E s \in Sockets : Live = {s}
    <3>1. Cardinality(Live) = 1
      BY <1>2, <2>1
    <3> QED
      BY <1>4, <2>1, <3>1 DEF SocketInv, OneSocket
  <2>2. CASE timers = 1 /\ Live = {}
    <3>1. Cardinality(Live) = 0
      BY <1>1, <2>2
    <3> QED
      BY <1>4, <2>2, <3>1 DEF SocketInv, OneSocket
  <2> QED
    BY <1>4, <2>1, <2>2 DEF SocketInv, Served
<1> QED
  BY <1>3, <1>4

\* The sockets and timers of websocket.tsx: signed in, exactly one socket is listened to or
\* one timer is pending; signed out, none; and an open one is shown as connected.
THEOREM AlwaysOneSocket == WsSpec => []OneSocket
<1>1. SocketInv /\ [WsNext]_wsVars => SocketInv'
  BY SocketStep
<1> QED
  BY <1>1, SocketInit, ServedCount, PTL DEF WsSpec
-----------------------------------------------------------------------------
(* The panes. *)

\* The requests that may still be shown are about the present subject.
AboutJob == \A r \in polls : ~r.aborted => r.of = polled
AboutAlert == \A r \in fetches : ~r.aborted => r.of = viewed.alert

PaneInv ==
  /\ viewed \in [alert : PaneAlerts \cup {Blank}, given : PaneAlerts \cup {Blank},
                 current : BOOLEAN]
  /\ AboutJob /\ AboutAlert
  /\ shown.by = "fetch" => shown.of = viewed.alert

LEMMA PaneStart == PaneInit => PaneInv
BY DEF PaneInit, PaneInv, AboutJob, AboutAlert, NoDiagnosis

\* The effect of the panel aborts what was asked and shows what the page hands over.
LEMMA ViewStep ==
  ASSUME NEW a \in PaneAlerts \cup {Blank}, NEW d \in PaneAlerts \cup {Blank},
         PaneInv, View(a, d), UNCHANGED jobPane
  PROVE  PaneInv' /\ shown'.by = "page"
<1>1. viewed' = [alert |-> a, given |-> d, current |-> TRUE]
  BY DEF View
<1>2. shown' = [of |-> d, by |-> "page"]
  BY DEF View
<1>3. \A r \in Abort(fetches) : r.aborted
  BY DEF Abort
<1>4. \A r \in Sent(a) : r.of = a
  BY DEF Sent
<1>5. AboutAlert'
  BY <1>1, <1>3, <1>4 DEF View, AboutAlert
<1>6. AboutJob'
  BY DEF PaneInv, AboutJob, jobPane
<1> QED
  BY <1>1, <1>2, <1>5, <1>6 DEF PaneInv

\* A step that leaves the requests and what the panel shows alone.
LEMMA SilentStep ==
  ASSUME PaneInv, UNCHANGED <<polled, polls, fetches, shown>>,
         viewed' = viewed \/ viewed' = [viewed EXCEPT !.current = FALSE]
  PROVE  PaneInv'
<1>1. viewed'.alert = viewed.alert
  BY DEF PaneInv
<1>2. viewed' \in [alert : PaneAlerts \cup {Blank}, given : PaneAlerts \cup {Blank},
                   current : BOOLEAN]
  BY DEF PaneInv
<1> QED
  BY <1>1, <1>2 DEF PaneInv, AboutJob, AboutAlert

\* A step of the job's pane.
LEMMA JobStep ==
  ASSUME PaneInv, JobEffect \/ PollTick \/ PollAnswered
  PROVE  PaneInv' /\ summary' \in {summary, polled', Blank}
<1>1. UNCHANGED <<viewed, fetches, shown>>
  BY DEF JobEffect, PollTick, PollAnswered, panel
<1>2. AboutJob' /\ summary' \in {summary, polled', Blank}
  <2>1. CASE JobEffect
    <3>1. \A r \in Abort(polls) : r.aborted
      BY DEF Abort
    <3>2. \A r \in Sent(job) : r.of = job
      BY DEF Sent
    <3> QED
      BY <2>1, <3>1, <3>2 DEF JobEffect, AboutJob
  <2>2. CASE PollTick
    BY <2>2 DEF PollTick, PaneInv, AboutJob, Sent
  <2>3. CASE PollAnswered
    BY <2>3 DEF PollAnswered, PaneInv, AboutJob
  <2> QED
    BY <2>1, <2>2, <2>3
<1> QED
  BY <1>1, <1>2 DEF PaneInv, AboutAlert

\* The answer to a request of the panel is shown unless the request was aborted.
LEMMA FetchedStep == PaneInv /\ DiagnosisFetched => PaneInv'
<1> SUFFICES ASSUME PaneInv, DiagnosisFetched PROVE PaneInv'
  OBVIOUS
<1>1. PICK r \in fetches, ok \in BOOLEAN :
        /\ fetches' = fetches \ {r}
        /\ shown' = IF ok /\ ~r.aborted THEN [of |-> r.of, by |-> "fetch"] ELSE shown
  BY DEF DiagnosisFetched
<1>2. UNCHANGED <<polled, polls, viewed>>
  BY DEF DiagnosisFetched, jobPane
<1>3. AboutAlert' /\ (~r.aborted => r.of = viewed.alert)
  BY <1>1, <1>2 DEF PaneInv, AboutAlert
<1>4. shown'.by = "fetch" => shown'.of = viewed'.alert
  BY <1>1, <1>2, <1>3 DEF PaneInv
<1> QED
  BY <1>2, <1>3, <1>4 DEF PaneInv, AboutJob

SubjectsKept ==
  /\ summary' \in {summary, polled', Blank}
  /\ shown'.by = "fetch" => shown'.of = viewed'.alert

LEMMA PaneStep == PaneInv /\ selected \in PaneAlerts \cup {Blank}
                  /\ given \in PaneAlerts \cup {Blank} /\ [PaneNext]_paneVars
                  => /\ PaneInv' /\ SubjectsKept
                     /\ selected' \in PaneAlerts \cup {Blank}
                     /\ given' \in PaneAlerts \cup {Blank}
<1> SUFFICES ASSUME PaneInv, selected \in PaneAlerts \cup {Blank},
                    given \in PaneAlerts \cup {Blank}, [PaneNext]_paneVars
             PROVE  /\ PaneInv' /\ SubjectsKept
                    /\ selected' \in PaneAlerts \cup {Blank}
                    /\ given' \in PaneAlerts \cup {Blank}
  OBVIOUS
<1>1. CASE JobEffect \/ PollTick \/ PollAnswered
  <2>1. UNCHANGED <<selected, given>>
    BY <1>1 DEF JobEffect, PollTick, PollAnswered, panel
  <2> QED
    BY <1>1, <2>1, JobStep DEF SubjectsKept, PaneInv
<1>2. CASE PickJob \/ LifecycleChanged \/ UNCHANGED paneVars
  <2>1. UNCHANGED <<polled, polls, fetches, shown, selected, given, summary>>
    BY <1>2 DEF PickJob, LifecycleChanged, paneVars, panel, jobPane
  <2>2. viewed' = viewed \/ viewed' = [viewed EXCEPT !.current = FALSE]
    BY <1>2 DEF PickJob, LifecycleChanged, paneVars, panel
  <2> QED
    BY <2>1, <2>2, SilentStep DEF SubjectsKept, PaneInv
<1>3. CASE DiagnosisCreated \/ DiagnosisReceived
  <2>1. UNCHANGED <<polled, polls, fetches, shown, viewed, summary>>
    BY <1>3 DEF DiagnosisCreated, DiagnosisReceived, jobPane
  <2>2. selected' \in PaneAlerts \cup {Blank} /\ given' \in PaneAlerts \cup {Blank}
    BY <1>3 DEF DiagnosisCreated, DiagnosisReceived
  <2> QED
    BY <2>1, <2>2, SilentStep DEF SubjectsKept, PaneInv
<1>4. CASE PanelEffect
  <2>1. View(selected, given) /\ UNCHANGED <<jobPane, selected, given>>
    BY <1>4 DEF PanelEffect
  <2>2. PaneInv' /\ shown'.by = "page"
    BY <2>1, ViewStep
  <2> QED
    BY <2>1, <2>2 DEF SubjectsKept, jobPane
<1>5. CASE SelectAlert
  <2>1. PICK a \in PaneAlerts \cup {Blank} :
          /\ selected' = a /\ given' = Blank /\ UNCHANGED jobPane
          /\ UNCHANGED <<viewed, shown, fetches>> \/ View(a, Blank)
    BY <1>5 DEF SelectAlert
  <2>2. CASE UNCHANGED <<viewed, shown, fetches>>
    BY <2>1, <2>2, SilentStep DEF SubjectsKept, PaneInv, jobPane
  <2>3. CASE View(a, Blank)
    <3>1. PaneInv' /\ shown'.by = "page"
      BY <2>1, <2>3, ViewStep
    <3> QED
      BY <2>1, <3>1 DEF SubjectsKept, jobPane
  <2> QED
    BY <2>1, <2>2, <2>3
<1>6. CASE DiagnosisFetched
  <2>1. UNCHANGED <<jobPane, selected, given>>
    BY <1>6 DEF DiagnosisFetched
  <2> QED
    BY <1>6, <2>1, FetchedStep DEF SubjectsKept, PaneInv, jobPane
<1> QED
  BY <1>1, <1>2, <1>3, <1>4, <1>5, <1>6 DEF PaneNext

\* The summary of useJobSummary and the diagnosis that AlertDetail fetches: what appears is
\* about the job being polled and the alert in view, whatever answers are still to come.
THEOREM SubjectsAlwaysKept == PaneSpec => PanesKeepSubject
<1> DEFINE Inv == /\ PaneInv /\ selected \in PaneAlerts \cup {Blank}
                  /\ given \in PaneAlerts \cup {Blank}
<1>1. PaneInit => Inv
  BY PaneStart DEF PaneInit
<1>2. Inv /\ [PaneNext]_paneVars => Inv' /\ SubjectsKept
  BY PaneStep
<1> HIDE DEF Inv
<1>3. Inv /\ [PaneNext]_paneVars => Inv' /\ [SubjectsKept]_paneVars
  BY <1>2
<1>4. PaneSpec => [][SubjectsKept]_paneVars
  BY <1>1, <1>3, PTL DEF PaneSpec
<1> QED
  BY <1>4 DEF SubjectsKept, PanesKeepSubject

-----------------------------------------------------------------------------
(* The types of the four modules. *)

\* What the types of the page need beside WriteInv and ReadInv: a file is made anew only
\* when there is a write left to fill it.
PageRest ==
  /\ clock \in 0..MaxClock /\ size \in {0, 1} /\ valid \in BOOLEAN /\ warned \in BOOLEAN
  /\ trainer \in {"none", "empty", "open", "closed"}
  /\ posts \in 0..MaxPosts
  /\ DOMAIN got \subseteq Fields
  /\ Latest <= MaxWrites
  /\ trainer = "empty" => copying = {} /\ Latest < MaxWrites - 1

PageInv == WriteInv /\ ReadInv /\ PageRest

LEMMA PageTyped == PageInv => ChTypeOK
<1> SUFFICES ASSUME PageInv PROVE ChTypeOK
  OBVIOUS
<1>1. Latest \in Nat /\ Latest <= MaxWrites /\ MaxWrites \in Nat
  BY ChannelAssumption DEF PageInv, WriteInv, PageRest
<1>2. 0..Latest \subseteq Numbers
  BY <1>1 DEF Numbers
<1>3. DOMAIN writes \subseteq Numbers /\ base \in Numbers
  BY <1>2 DEF PageInv, WriteInv, ReadInv
<1>4. page \in [Fields -> Numbers]
  BY <1>2 DEF PageInv, WriteInv
<1>5. copying \subseteq Fields /\ reader \in {"idle", "dead"} \cup Fields
  BY DEF PageInv, WriteInv, ReadInv
<1> QED
  BY <1>3, <1>4, <1>5 DEF ChTypeOK, PageInv, PageRest

\* A write is begun where its number is still in bounds.
LEMMA WriteBound ==
  ASSUME PageInv, FillZeros \/ WriteRecord
  PROVE  Latest' = Latest + 1 /\ Latest' <= MaxWrites
<1>1. Latest \in Nat /\ MaxWrites \in Nat /\ clock \in Int
  BY ChannelAssumption DEF PageInv, WriteInv
<1>2. Latest < MaxWrites
  <2>1. FillZeros => Latest < MaxWrites - 1
    BY DEF PageInv, PageRest, FillZeros
  <2>2. WriteRecord => Latest < MaxWrites
    BY DEF WriteRecord
  <2> QED
    BY <1>1, <2>1, <2>2
<1>3. PICK time \in Int, done \in BOOLEAN : writes' = Started(time, done)
  <2>1. 0 \in Int /\ TRUE \in BOOLEAN /\ FALSE \in BOOLEAN
    OBVIOUS
  <2> QED
    BY <1>1, <2>1, Zenon DEF FillZeros, WriteRecord
<1>4. Latest' = Latest + 1
  BY <1>3, StartedWrite DEF PageInv
<1> QED
  BY <1>1, <1>2, <1>4

\* Any other step leaves the number of writes alone.
LEMMA LatestKept ==
  ASSUME WriteInv, [ChNext]_chVars, ~FillZeros, ~WriteRecord
  PROVE  Latest' = Latest
<1>1. CASE CopyField
  <2>1. writes' = Finished \/ writes' = writes
    BY <1>1 DEF CopyField
  <2>2. DOMAIN writes' = DOMAIN writes
    BY <2>1 DEF Finished
  <2> QED
    BY <2>2 DEF Latest
<1>2. CASE ~CopyField
  <2>1. writes' = writes
    BY <1>2 DEF ChNext, chVars, Truncate, OnTrainEnd, Close, End, Crash, LogMetric, PostEnds,
                MapFile, ReadFlag, ReadTime, ReadField, ReadBeyondEnd, ChTick, fileVars
  <2> QED
    BY <2>1 DEF Latest
<1> QED
  BY <1>1, <1>2

\* The fields got are fields.
LEMMA GotTyped ==
  ASSUME DOMAIN got \subseteq Fields, reader \in Fields \cup {"idle", "dead"}, [ChNext]_chVars
  PROVE  DOMAIN got' \subseteq Fields
<1>1. CASE NothingRead \/ got' = <<>>
  <2>1. got' = <<>>
    BY <1>1 DEF NothingRead
  <2>2. DOMAIN <<>> = {}
    OBVIOUS
  <2> QED
    BY <2>1, <2>2
<1>2. ASSUME NEW f \in Fields, Keep(f) PROVE DOMAIN got' \subseteq Fields
  BY <1>2 DEF Keep
<1>3. CASE got' = got
  BY <1>3
<1>4. "flag" \in Fields /\ "time" \in Fields /\ Payload \subseteq Fields
  BY DEF Fields
<1>5. CASE ReadFlag
  BY <1>1, <1>2, <1>4, <1>5 DEF ReadFlag
<1>6. CASE ReadTime
  BY <1>1, <1>2, <1>4, <1>6 DEF ReadTime
<1>7. CASE ReadField
  BY <1>2, <1>4, <1>7 DEF ReadField
<1>8. CASE MapFile
  BY <1>1, <1>8 DEF MapFile
<1>9. CASE ~ReadFlag /\ ~ReadTime /\ ~ReadField /\ ~MapFile
  BY <1>3, <1>9
  DEF ChNext, chVars, readerVars, Truncate, FillZeros, WriteRecord, CopyField, OnTrainEnd,
      Close, End, Crash, LogMetric, PostEnds, ReadBeyondEnd, ChTick
<1> QED
  BY <1>5, <1>6, <1>7, <1>8, <1>9

LEMMA PageInvStep == PageInv /\ [ChNext]_chVars => PageInv'
<1> SUFFICES ASSUME PageInv, [ChNext]_chVars PROVE PageInv'
  OBVIOUS
<1>1. WriteInv' /\ ReadInv'
  BY PageStep DEF PageInv
<1>2. DOMAIN got' \subseteq Fields
  BY GotTyped DEF PageInv, PageRest, ReadInv
<1>3. MaxClock \in Nat /\ MaxPosts \in Nat /\ MaxWrites \in Nat /\ Latest \in Nat
  BY ChannelAssumption DEF PageInv, WriteInv
<1>4. Latest' <= MaxWrites
  BY <1>3, WriteBound, LatestKept DEF PageInv, PageRest
<1>5. clock' \in 0..MaxClock
  <2>1. CASE ChTick
    BY <1>3, <2>1 DEF ChTick, PageInv, PageRest
  <2>2. CASE ~ChTick
    BY <2>2
    DEF ChNext, chVars, Truncate, FillZeros, WriteRecord, CopyField, OnTrainEnd, Close, End,
        Crash, LogMetric, PostEnds, MapFile, ReadFlag, ReadTime, ReadField, ReadBeyondEnd,
        PageInv, PageRest
  <2> QED
    BY <2>1, <2>2
<1>6. posts' \in 0..MaxPosts
  <2>1. CASE \/ PostEnds \/ Crash \/ \E configured \in BOOLEAN : LogMetric(configured)
    BY <1>3, <2>1 DEF PostEnds, Crash, LogMetric, PageInv, PageRest
  <2>2. CASE ~(\/ PostEnds \/ Crash \/ \E configured \in BOOLEAN : LogMetric(configured))
    BY <2>2
    DEF ChNext, chVars, Truncate, FillZeros, WriteRecord, CopyField, OnTrainEnd, Close, End,
        MapFile, ReadFlag, ReadTime, ReadField, ReadBeyondEnd, ChTick, PageInv, PageRest
  <2> QED
    BY <2>1, <2>2
<1>7. /\ size' \in {0, 1} /\ trainer' \in {"none", "empty", "open", "closed"}
      /\ warned' \in BOOLEAN
  BY DEF ChNext, chVars, fileVars, Truncate, FillZeros, WriteRecord, CopyField, OnTrainEnd,
         Close, End, Crash, LogMetric, PostEnds, MapFile, ReadFlag, ReadTime, ReadField,
         ReadBeyondEnd, ChTick, PageInv, PageRest
<1>8. valid' \in BOOLEAN
  <2>1. CASE valid' = valid
    BY <2>1 DEF PageInv, PageRest
  <2>2. CASE FillZeros
    BY <2>2 DEF FillZeros
  <2>3. CASE CopyField
    BY <2>3 DEF CopyField
  <2>4. CASE OnTrainEnd \/ Close
    BY <2>4 DEF OnTrainEnd, Close, End
  <2>5. CASE ~FillZeros /\ ~CopyField /\ ~OnTrainEnd /\ ~Close
    BY <2>1, <2>5
    DEF ChNext, chVars, fileVars, Truncate, WriteRecord, Crash, LogMetric, PostEnds, MapFile,
        ReadFlag, ReadTime, ReadField, ReadBeyondEnd, ChTick
  <2> QED
    BY <2>2, <2>3, <2>4, <2>5
<1>9. trainer' = "empty" => copying' = {} /\ Latest' < MaxWrites - 1
  <2>1. CASE Truncate
    BY <2>1, LatestKept DEF Truncate, FillZeros, WriteRecord, PageInv
  <2>2. CASE ~Truncate /\ trainer' = "empty"
    <3>1. trainer = "empty" /\ ~FillZeros /\ ~WriteRecord
      BY <2>2
      DEF ChNext, chVars, FillZeros, WriteRecord, CopyField, OnTrainEnd, Close, End, Crash,
          LogMetric, PostEnds, MapFile, ReadFlag, ReadTime, ReadField, ReadBeyondEnd, ChTick
    <3>2. Latest' = Latest /\ copying = {} /\ Latest < MaxWrites - 1
      BY <3>1, LatestKept DEF PageInv, PageRest
    <3>3. copying' = {}
      BY <2>2, <3>1, <3>2
      DEF ChNext, chVars, CopyField, OnTrainEnd, Close, End, Crash, LogMetric, PostEnds,
          MapFile, ReadFlag, ReadTime, ReadField, ReadBeyondEnd, ChTick
    <3> QED
      BY <3>2, <3>3
  <2> QED
    BY <2>1, <2>2
<1>10. PageRest'
  BY <1>2, <1>4, <1>5, <1>6, <1>7, <1>8, <1>9 DEF PageRest
<1> QED
  BY <1>1, <1>10 DEF PageInv

LEMMA PageInvInit == ChInit => PageInv
<1> SUFFICES ASSUME ChInit PROVE PageInv
  OBVIOUS
<1>1. WriteInv /\ ReadInv
  BY PageInit
<1>2. Latest = 0
  <2>1. DOMAIN writes = {0} /\ Cardinality({0}) = 1
    BY FS_Singleton DEF ChInit
  <2> QED
    BY <2>1 DEF Latest
<1>3. DOMAIN got = {}
  BY DEF ChInit
<1>4. MaxClock \in Nat \ {0} /\ MaxPosts \in Nat /\ MaxWrites \in Nat
  BY ChannelAssumption
<1>5. clock \in 0..MaxClock /\ posts \in 0..MaxPosts /\ Latest <= MaxWrites
  BY <1>2, <1>4 DEF ChInit
<1>6. /\ size \in {0, 1} /\ valid \in BOOLEAN /\ warned \in BOOLEAN
      /\ trainer = "none"
  BY DEF ChInit
<1>7. PageRest
  BY <1>3, <1>5, <1>6 DEF PageRest
<1> QED
  BY <1>1, <1>7 DEF PageInv

\* What the types of the socket need beside SocketInv.
SocketRest ==
  /\ current \in Sockets \cup {Absent}
  /\ delay \in 1..MaxDelay
  /\ connected \in BOOLEAN /\ serving \in BOOLEAN
  /\ timers > 0 => Sockets # {}

LEMMA SocketTyped == SocketInv /\ SocketRest => WsTypeOK
<1> SUFFICES ASSUME SocketInv, SocketRest PROVE WsTypeOK
  OBVIOUS
<1>1. timers = 0 \/ timers = 1
  BY DEF SocketInv, Served
<1>2. IsFiniteSet(Sockets) /\ Cardinality(Sockets) \in Nat
  BY DashSocketAssumption, FS_CardinalityType
<1>3. timers <= Cardinality(Sockets)
  <2>1. CASE timers = 0
    BY <1>2, <2>1
  <2>2. CASE timers = 1
    <3>1. PICK s \in Sockets : TRUE
      BY <2>2 DEF SocketRest
    <3>2. Cardinality({s}) <= Cardinality(Sockets) /\ Cardinality({s}) = 1
      BY <1>2, FS_Subset, FS_Singleton
    <3> QED
      BY <2>2, <3>2
  <2> QED
    BY <1>1, <2>1, <2>2
<1>4. timers \in 0..Cardinality(Sockets)
  BY <1>1, <1>2, <1>3
<1> QED
  BY <1>4 DEF WsTypeOK, SocketInv, SocketRest, Records

LEMMA SocketRestInit == WsInit => SocketRest
<1> SUFFICES ASSUME WsInit PROVE SocketRest
  OBVIOUS
<1>1. 1 \in 1..MaxDelay
  BY DashSocketAssumption
<1>2. current = Absent /\ delay = 1 /\ connected = FALSE /\ serving \in BOOLEAN /\ ~(timers > 0)
  BY DEF WsInit
<1> QED
  BY <1>1, <1>2 DEF SocketRest

LEMMA ConnectTyped ==
  ASSUME NEW sockets, NEW key, Connect(sockets, key), current \in Sockets \cup {Absent}
  PROVE  current' \in Sockets \cup {Absent}
BY DEF Connect

LEMMA SocketRestStep ==
  ASSUME SocketInv, SocketRest, [WsNext]_wsVars PROVE SocketRest'
<1>1. /\ current \in Sockets \cup {Absent} /\ delay \in 1..MaxDelay
      /\ connected \in BOOLEAN /\ serving \in BOOLEAN /\ MaxDelay \in Nat \ {0}
      /\ timers > 0 => Sockets # {}
  BY DashSocketAssumption DEF SocketRest
<1>2. timers \in {0, 1}
  BY DEF SocketInv, Served
<1>3. CASE StoreKey \/ ServingEnds \/ ServingStarts \/ UNCHANGED wsVars
  BY <1>1, <1>3 DEF StoreKey, ServingEnds, ServingStarts, wsVars, SocketRest
<1>4. CASE AuthEffect
  <2>1. current' \in Sockets \cup {Absent}
    BY <1>1, <1>4, ConnectTyped DEF AuthEffect
  <2> QED
    BY <1>1, <1>4, <2>1 DEF AuthEffect, SocketRest
<1>5. CASE RetryTimer
  <2>1. current' \in Sockets \cup {Absent}
    BY <1>1, <1>5, ConnectTyped DEF RetryTimer
  <2>2. delay' \in 1..MaxDelay /\ timers > 0
    BY <1>1, <1>5 DEF RetryTimer
  <2> QED
    BY <1>1, <1>5, <2>1, <2>2 DEF RetryTimer, SocketRest
<1>6. ASSUME NEW s \in Sockets, SocketOpens(s) PROVE SocketRest'
  <2>1. 1 \in 1..MaxDelay
    BY <1>1
  <2>2. connected' \in BOOLEAN /\ delay' \in 1..MaxDelay
    BY <1>1, <1>6, <2>1 DEF SocketOpens
  <2>3. UNCHANGED <<current, timers, serving>>
    BY <1>6 DEF SocketOpens
  <2> QED
    BY <1>1, <2>2, <2>3 DEF SocketRest
<1>7. ASSUME NEW s \in Sockets, SocketCloses(s) PROVE SocketRest'
  BY <1>1, <1>7 DEF SocketCloses, SocketRest
<1> QED
  BY <1>3, <1>4, <1>5, <1>6, <1>7 DEF WsNext

\* What the types of the panes need beside PaneInv.
PaneRest ==
  /\ job \in PaneJobs \cup {Blank} /\ polled \in PaneJobs \cup {Blank}
  /\ summary \in PaneJobs \cup {Blank}
  /\ polls \in Requests(PaneJobs) /\ fetches \in Requests(PaneAlerts)
  /\ selected \in PaneAlerts \cup {Blank} /\ given \in PaneAlerts \cup {Blank}
  /\ shown \in [of : PaneAlerts \cup {Blank}, by : {"page", "fetch"}]

LEMMA PaneTyped == PaneInv /\ PaneRest => PaneTypeOK
BY DEF PaneInv, PaneRest, PaneTypeOK

LEMMA PaneRestInit == PaneInit => PaneRest
BY DEF PaneInit, PaneRest, Requests, NoDiagnosis

\* Requests that are aborted, and one more, are requests.
LEMMA AskedTyped ==
  ASSUME NEW S, NEW requests \in Requests(S), NEW s \in S
  PROVE  Abort(requests) \in Requests(S) /\ Sent(s) \in Requests(S)
<1>1. \A r \in requests : r.of \in S
  BY DEF Requests
<1>2. \A r \in requests : [of |-> r.of, aborted |-> TRUE] \in [of : S, aborted : BOOLEAN]
  BY <1>1
<1>3. [of |-> s, aborted |-> FALSE] \in [of : S, aborted : BOOLEAN]
  OBVIOUS
<1> QED
  BY <1>2, <1>3 DEF Requests, Abort, Sent

LEMMA AbortTyped ==
  ASSUME NEW S, NEW requests \in Requests(S)
  PROVE  Abort(requests) \in Requests(S)
<1>1. \A r \in requests : r.of \in S
  BY DEF Requests
<1>2. \A r \in requests : [of |-> r.of, aborted |-> TRUE] \in [of : S, aborted : BOOLEAN]
  BY <1>1
<1> QED
  BY <1>2 DEF Requests, Abort

LEMMA UnionTyped ==
  ASSUME NEW S, NEW a \in Requests(S), NEW b \in Requests(S)
  PROVE  a \cup b \in Requests(S)
BY DEF Requests

LEMMA ViewTyped ==
  ASSUME NEW a \in PaneAlerts \cup {Blank}, NEW d \in PaneAlerts \cup {Blank}, PaneRest, View(a, d)
  PROVE  /\ fetches' \in Requests(PaneAlerts)
         /\ shown' \in [of : PaneAlerts \cup {Blank}, by : {"page", "fetch"}]
<1>1. fetches \in Requests(PaneAlerts)
  BY DEF PaneRest
<1>2. {} \in Requests(PaneAlerts)
  BY DEF Requests
<1>3. Abort(fetches) \in Requests(PaneAlerts)
  BY <1>1, AbortTyped
<1>4. CASE a # Blank /\ d = Blank
  <2>1. Sent(a) \in Requests(PaneAlerts)
    BY <1>1, <1>4, AskedTyped
  <2>2. Abort(fetches) \cup Sent(a) \in Requests(PaneAlerts)
    BY <1>3, <2>1, UnionTyped
  <2>3. fetches' = Abort(fetches) \cup Sent(a)
    BY <1>4 DEF View
  <2> QED
    BY <2>2, <2>3 DEF View
<1>5. CASE ~(a # Blank /\ d = Blank)
  <2>1. fetches' = Abort(fetches)
    BY <1>5 DEF View
  <2> QED
    BY <1>3, <2>1 DEF View
<1> QED
  BY <1>4, <1>5

LEMMA PaneRestStep ==
  ASSUME PaneInv, PaneRest, [PaneNext]_paneVars PROVE PaneRest'
<1>1. polls \in Requests(PaneJobs) /\ fetches \in Requests(PaneAlerts)
  BY DEF PaneRest
<1>2. CASE PickJob \/ LifecycleChanged \/ DiagnosisCreated \/ DiagnosisReceived
           \/ UNCHANGED paneVars
  BY <1>2
  DEF PickJob, LifecycleChanged, DiagnosisCreated, DiagnosisReceived, paneVars, jobPane,
      panel, PaneRest
<1>3. CASE JobEffect
  <2>1. job \in PaneJobs \cup {Blank} /\ Abort(polls) \in Requests(PaneJobs)
    BY <1>1, AbortTyped DEF PaneRest
  <2>2. polls' \in Requests(PaneJobs)
    <3>1. CASE job = Blank
      BY <1>3, <2>1, <3>1 DEF JobEffect
    <3>2. CASE job # Blank
      <4>1. Sent(job) \in Requests(PaneJobs)
        BY <1>1, <2>1, <3>2, AskedTyped
      <4>2. polls' = Abort(polls) \cup Sent(job)
        BY <1>3, <3>2 DEF JobEffect
      <4> QED
        BY <2>1, <4>1, <4>2, UnionTyped
    <3> QED
      BY <3>1, <3>2
  <2> QED
    BY <1>3, <2>1, <2>2 DEF JobEffect, panel, PaneRest
<1>4. CASE PollTick
  <2>1. polled \in PaneJobs
    BY <1>4 DEF PollTick, PaneRest
  <2>2. polls \cup Sent(polled) \in Requests(PaneJobs)
    BY <1>1, <2>1, AskedTyped, UnionTyped
  <2> QED
    BY <1>4, <2>2 DEF PollTick, panel, PaneRest
<1>5. CASE PollAnswered
  <2>1. PICK r \in polls, ok \in BOOLEAN :
          /\ polls' = polls \ {r}
          /\ summary' = IF ok /\ ~r.aborted THEN r.of ELSE summary
    BY <1>5 DEF PollAnswered
  <2>2. r.of \in PaneJobs /\ polls' \in Requests(PaneJobs)
    BY <1>1, <2>1 DEF Requests
  <2>3. summary' \in PaneJobs \cup {Blank}
    BY <2>1, <2>2 DEF PaneRest
  <2> QED
    BY <1>5, <2>2, <2>3 DEF PollAnswered, panel, PaneRest
<1>6. CASE PanelEffect
  <2>1. /\ fetches' \in Requests(PaneAlerts)
        /\ shown' \in [of : PaneAlerts \cup {Blank}, by : {"page", "fetch"}]
    BY <1>6, ViewTyped DEF PanelEffect, PaneRest
  <2> QED
    BY <1>6, <2>1 DEF PanelEffect, jobPane, PaneRest
<1>7. CASE SelectAlert
  <2>1. PICK a \in PaneAlerts \cup {Blank} :
          /\ selected' = a /\ given' = Blank /\ UNCHANGED jobPane
          /\ UNCHANGED <<viewed, shown, fetches>> \/ View(a, Blank)
    BY <1>7 DEF SelectAlert
  <2>2. /\ fetches' \in Requests(PaneAlerts)
        /\ shown' \in [of : PaneAlerts \cup {Blank}, by : {"page", "fetch"}]
    BY <2>1, ViewTyped DEF PaneRest
  <2> QED
    BY <2>1, <2>2 DEF jobPane, PaneRest
<1>8. CASE DiagnosisFetched
  <2>1. PICK r \in fetches, ok \in BOOLEAN :
          /\ fetches' = fetches \ {r}
          /\ shown' = IF ok /\ ~r.aborted THEN [of |-> r.of, by |-> "fetch"] ELSE shown
    BY <1>8 DEF DiagnosisFetched
  <2>2. r.of \in PaneAlerts /\ fetches' \in Requests(PaneAlerts)
    BY <1>1, <2>1 DEF Requests
  <2>3. shown' \in [of : PaneAlerts \cup {Blank}, by : {"page", "fetch"}]
    BY <2>1, <2>2 DEF PaneRest
  <2> QED
    BY <1>8, <2>2, <2>3 DEF DiagnosisFetched, jobPane, PaneRest
<1> QED
  BY <1>2, <1>3, <1>4, <1>5, <1>6, <1>7, <1>8 DEF PaneNext

-----------------------------------------------------------------------------
(* All four. *)

\* They share no variable: a step of one leaves the invariants of the others alone.
ClientsInv ==
  /\ PageInv /\ TransportInv
  /\ SocketInv /\ SocketRest
  /\ PaneInv /\ PaneRest

LEMMA ClientsStep == ClientsInv /\ [MCNext]_allVars => ClientsInv'
<1> SUFFICES ASSUME ClientsInv, [MCNext]_allVars PROVE ClientsInv'
  OBVIOUS
<1>1. [ChNext]_chVars /\ [SideNext]_sideVars /\ [WsNext]_wsVars /\ [PaneNext]_paneVars
  BY DEF MCNext, ClientsNext, SolanaNext, clientVars, allVars
<1>2. PageInv'
  BY <1>1, PageInvStep DEF ClientsInv
<1>3. TransportInv'
  BY <1>1, TransportStep DEF ClientsInv
<1>4. SocketInv' /\ SocketRest'
  BY <1>1, SocketStep, SocketRestStep DEF ClientsInv
<1>5. PaneInv'
  BY <1>1, PaneStep DEF ClientsInv, PaneRest
<1>6. PaneRest'
  BY <1>1, PaneRestStep DEF ClientsInv
<1> QED
  BY <1>2, <1>3, <1>4, <1>5, <1>6 DEF ClientsInv

\* No page, queue, timer or request of the sidecar and of the dashboard leaves its type:
\* no write gets a number beyond its bound, although a file made anew and a record count
\* alike, and no pane shows anything but its jobs and its alerts.
THEOREM ClientsTypesAlways == MCSpec => []TypesOK
<1>1. MCInit => ClientsInv
  BY PageInvInit, TransportInit, SocketInit, SocketRestInit, PaneStart, PaneRestInit
  DEF MCInit, ClientsInv
<1>2. ClientsInv => TypesOK
  BY PageTyped, SocketTyped, PaneTyped DEF ClientsInv, TypesOK, TransportInv
<1> QED
  BY <1>1, <1>2, ClientsStep, PTL DEF MCSpec
=============================================================================
