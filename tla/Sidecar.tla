------------------------------ MODULE Sidecar -------------------------------
(***************************************************************************)
(* The sidecar's main loop and its gRPC transport. Each second the loop    *)
(* collects a batch, raises alerts, and spawns one task per alert and one  *)
(* for the batch; the tasks queue for the lock of the one transport. The   *)
(* backend goes down and comes up again, a connection breaks with it, a    *)
(* backend that is up may answer a call with an error status, and a failed *)
(* call is not repeated.                                                   *)
(*                                                                         *)
(* A message is one of a few; it can be sent anew once it is settled. What *)
(* the collectors and the threshold detector find is left open.            *)
(***************************************************************************)
EXTENDS Integers, Sequences, FiniteSets

CONSTANTS
  Messages,         \* BOUND: alerts and batches in flight
  ReconnectAfter    \* the 5 seconds between two attempts to connect

ASSUME SidecarAssumption == ReconnectAfter \in Nat \ {0}

VARIABLES
  loop,      \* "ticking" or "stopped"
  spawned,   \* the tasks that have not asked for the lock yet
  queue,     \* those waiting for it, first come first served
  holder,    \* the message whose task holds it, or None
  phase,     \* of the holder: "start", "connect", "refused" when the backend was down at
             \* some point of the attempt, "call", or "processed" by the backend
  client,    \* "none", "connected", or "broken" when the backend has gone since
  attempt,   \* last_connect_attempt: its age
  sinceTry,  \* history: the age of the last attempt made
  up,        \* the backend
  faultAge,  \* history: the time since the backend was last down or answered with an error
  dropped    \* history: why the last step dropped a message, or None

None == "none"

netVars == <<client, attempt, sinceTry, up, faultAge>>
sideVars == <<loop, spawned, queue, holder, phase, netVars, dropped>>

\* BOUND: beyond this age nothing is told apart.
AgeCap == ReconnectAfter + 1
Older(a) == IF a < AgeCap THEN a + 1 ELSE AgeCap

SideTypeOK ==
  /\ loop \in {"ticking", "stopped"}
  /\ spawned \subseteq Messages /\ queue \in Seq(Messages)
  /\ holder \in Messages \cup {None}
  /\ phase \in {"start", "connect", "refused", "call", "processed"}
  /\ client \in {"none", "connected", "broken"}
  /\ {attempt, sinceTry, faultAge} \subseteq 0..AgeCap
  /\ up \in BOOLEAN
  /\ dropped \in {None, "throttled", "failed"}
  /\ holder = None => phase = "start"
  /\ phase \in {"call", "processed"} => client # "none"

Queued == {queue[i] : i \in DOMAIN queue}
InFlight == spawned \cup Queued \cup (IF holder = None THEN {} ELSE {holder})

-----------------------------------------------------------------------------

\* A tick of the loop; a batch, and perhaps alerts, go to tasks of their own.
\* BOUND: no more than the messages there are.
Collect(batch) ==
  /\ loop = "ticking"
  /\ spawned' = spawned \cup batch
  /\ attempt' = Older(attempt) /\ sinceTry' = Older(sinceTry)
  /\ faultAge' = IF up THEN Older(faultAge) ELSE 0
  /\ dropped' = None
  /\ UNCHANGED <<loop, queue, holder, phase, client, up>>

CollectionTick == \E batch \in SUBSET (Messages \ InFlight) : Collect(batch)

\* transport.lock(): the spawned tasks get to ask in any order.
AskForLock(m) ==
  /\ m \in spawned
  /\ spawned' = spawned \ {m}
  /\ queue' = Append(queue, m)
  /\ dropped' = None
  /\ UNCHANGED <<loop, holder, phase, netVars>>

TakeLock ==
  /\ holder = None /\ queue # <<>>
  /\ holder' = Head(queue) /\ queue' = Tail(queue)
  /\ phase' = "start"
  /\ dropped' = None
  /\ UNCHANGED <<loop, spawned, netVars>>

\* The task ends and releases the lock.
Settle(why) ==
  /\ holder' = None /\ phase' = "start"
  /\ dropped' = why

\* MUTANT: a throttled attempt counts as one.
ThrottleSliding ==
  /\ phase = "start" /\ client = "none" /\ attempt < ReconnectAfter
  /\ attempt' = 0
  /\ Settle("throttled")
  /\ UNCHANGED <<loop, spawned, queue, client, sinceTry, up, faultAge>>

\* try_connect, throttled: the message is dropped.
Throttle ==
  /\ phase = "start" /\ client = "none" /\ attempt < ReconnectAfter
  /\ Settle("throttled")
  /\ UNCHANGED <<loop, spawned, queue, netVars>>

Attempted == IF up THEN "connect" ELSE "refused"

\* MUTANT: the attempt is counted when it has succeeded.
StartConnectLate ==
  /\ phase = "start" /\ client = "none" /\ attempt >= ReconnectAfter
  /\ phase' = Attempted /\ sinceTry' = 0
  /\ dropped' = None
  /\ UNCHANGED <<loop, spawned, queue, holder, client, attempt, up, faultAge>>

StartConnect ==
  /\ phase = "start" /\ client = "none" /\ attempt >= ReconnectAfter
  /\ attempt' = 0 /\ sinceTry' = 0 /\ phase' = Attempted
  /\ dropped' = None
  /\ UNCHANGED <<loop, spawned, queue, holder, client, up, faultAge>>

\* An attempt begun while the backend was down may still get through.
Connected ==
  /\ phase \in {"connect", "refused"} /\ up
  /\ client' = "connected" /\ phase' = "call"
  /\ dropped' = None
  /\ UNCHANGED <<loop, spawned, queue, holder, attempt, sinceTry, up, faultAge>>

\* MUTANT: the call is made whatever became of the connection.
ConnectFailsUnnoticed ==
  /\ phase = "refused"
  /\ phase' = "call" /\ dropped' = None
  /\ UNCHANGED <<loop, spawned, queue, holder, netVars>>

ConnectFails ==
  /\ phase = "refused"
  /\ Settle("failed")
  /\ UNCHANGED <<loop, spawned, queue, netVars>>

StartCall ==
  /\ holder # None /\ phase = "start" /\ client # "none"
  /\ phase' = "call"
  /\ dropped' = None
  /\ UNCHANGED <<loop, spawned, queue, holder, netVars>>

\* The channel may have replaced a broken connection by itself.
BackendProcesses ==
  /\ phase = "call" /\ up
  /\ phase' = "processed" /\ client' = "connected"
  /\ dropped' = None
  /\ UNCHANGED <<loop, spawned, queue, holder, attempt, sinceTry, up, faultAge>>

CallReturns ==
  /\ phase = "processed" /\ client = "connected"
  /\ Settle(None)
  /\ UNCHANGED <<loop, spawned, queue, netVars>>

\* The connection is gone, or the backend answers with an error status, be it up, and
\* whether or not it has processed the message.
CallEndsInError ==
  /\ phase \in {"call", "processed"} /\ client # "none"
  /\ faultAge' = IF client = "connected" THEN 0 ELSE faultAge
  /\ Settle(IF phase = "processed" THEN None ELSE "failed")

\* MUTANT: a failed call counts as an attempt to connect.
CallFailsCounted ==
  /\ CallEndsInError
  /\ client' = "none" /\ attempt' = 0
  /\ UNCHANGED <<loop, spawned, queue, sinceTry, up>>

\* A failed call resets the client and gives the message up.
CallFails ==
  /\ CallEndsInError
  /\ client' = "none"
  /\ UNCHANGED <<loop, spawned, queue, attempt, sinceTry, up>>

\* The backend goes and comes.
BackendDown ==
  /\ up
  /\ up' = FALSE /\ faultAge' = 0
  /\ client' = IF client = "none" THEN "none" ELSE "broken"
  /\ phase' = IF phase = "connect" THEN "refused" ELSE phase
  /\ dropped' = None
  /\ UNCHANGED <<loop, spawned, queue, holder, attempt, sinceTry>>

BackendUp ==
  /\ ~up
  /\ up' = TRUE /\ dropped' = None
  /\ UNCHANGED <<loop, spawned, queue, holder, phase, client, attempt, sinceTry, faultAge>>

\* SIGINT or SIGTERM: the runtime ends with its tasks, whatever they were doing.
Shutdown ==
  /\ loop = "ticking"
  /\ loop' = "stopped"
  /\ spawned' = {} /\ queue' = <<>> /\ holder' = None /\ phase' = "start"
  /\ client' = "none" /\ dropped' = None
  /\ UNCHANGED <<attempt, sinceTry, up, faultAge>>

SideInit ==
  /\ loop = "ticking"
  /\ spawned = {} /\ queue = <<>> /\ holder = None /\ phase = "start"
  /\ client = "none" /\ attempt = AgeCap /\ sinceTry = AgeCap
  /\ up \in BOOLEAN /\ faultAge = 0
  /\ dropped = None

Task ==
  \/ \E m \in Messages : AskForLock(m)
  \/ TakeLock
  \/ (holder # None /\ (Throttle \/ StartConnect)) \/ Connected \/ ConnectFails
  \/ StartCall \/ BackendProcesses \/ CallReturns \/ CallFails

SideNext == CollectionTick \/ Task \/ BackendDown \/ BackendUp \/ Shutdown

SideSpec == SideInit /\ [][SideNext]_sideVars

\* The runtime runs its tasks and the loop ticks: time passes, whether or not a tick has
\* a batch (a collector may fail each time). A call has no deadline of its own: that it
\* ends is assumed of the backend and the network.
Fairness ==
  /\ WF_sideVars(Task)
  /\ WF_<<attempt, sinceTry, faultAge>>(CollectionTick)

SideFairSpec == SideSpec /\ Fairness

-----------------------------------------------------------------------------
(* Properties. *)

\* An outage of the backend, or an error it answers with, costs what is sent during it and
\* until the next attempt to connect: a message is dropped without a call only if such a
\* fault is less than the time between two attempts ago (grpc.rs, try_connect, "at most
\* one attempt every 5 seconds").
OutageBounded == dropped = "throttled" => faultAge < ReconnectAfter

\* Attempts to connect are spaced, whichever tasks make them.
Attempts == INSTANCE Throttle WITH
  Keys <- {"connect"}, Period <- ReconnectAfter,
  quiet <- [k \in {"connect"} |-> IF sinceTry < ReconnectAfter THEN sinceTry
                                                              ELSE ReconnectAfter]

AttemptsSpaced == Attempts!Spec

\* When the backend stays up and answers without an error, and messages keep coming, the
\* sidecar is connected in the end, and stays so: throttled tasks do not put off the next
\* attempt, and a message that finds the connection broken is not the last one.
Reconnects ==
  <>[](up /\ loop = "ticking" /\ faultAge > 0) /\ []<>(holder # None) =>
    <>[](client = "connected")
=============================================================================
