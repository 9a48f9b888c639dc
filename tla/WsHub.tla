------------------------------- MODULE WsHub --------------------------------
(***************************************************************************)
(* From an alert to the dashboards: the alerts of the gRPC servicer, which *)
(* runs on threads, and of the detector loops (main.py); the tasks that    *)
(* broadcast them; and the hub that sends each message to every connection *)
(* under one asyncio.Lock (ws/websocket.py).                               *)
(*                                                                         *)
(* Everything but the servicer runs on the event loop: between two awaits  *)
(* nothing else does. The lock serves its waiters in order, so it is the   *)
(* queue of the tasks that asked for it, and its holder is the head.       *)
(***************************************************************************)
EXTENDS Integers, Sequences, FiniteSets

CONSTANTS
  Clients,       \* connections; a client that reconnects is another one
  Alerts,        \* BOUND: the alerts ever raised
  Nodes,         \* the nodes that have reported telemetry
  NodeOf,        \* the node of an alert
  SeverityOf,    \* its severity
  Filters,       \* BOUND: the filters that clients send
  None,          \* no severity
  MaxSends,      \* BOUND: alerts, diagnoses and summaries in all
  MaxFaults      \* BOUND: exceptions other than a closed connection

ASSUME HubAssumption ==
  /\ IsFiniteSet(Nodes)
  /\ NodeOf \in [Alerts -> Nodes]
  /\ \A f \in Filters : f.nodes \subseteq Nodes
  /\ {MaxSends, MaxFaults} \subseteq Nat

VARIABLES
  phase,      \* per connection: where its endpoint is
  dead,       \* the connections whose peer is gone
  filt,       \* per connection: its filter
  conns,      \* _connections
  lockq,      \* _lock: the tasks that hold or await it
  soon,       \* alerts whose broadcast call_soon_threadsafe has scheduled
  store,      \* alert_store: the ids of the alerts added
  rest,       \* per loop: the findings it has still to broadcast
  diagnosed,  \* the alerts whose diagnosis has been broadcast
  summaries,  \* how many summaries were broadcast
  faults,     \* how many exceptions happened
  published,  \* history: the messages in the order in which they got the lock
  got,        \* history: per connection, the places in published of what it received
  owed        \* history: the connection was in, matching and well since the alert came

connVars == <<phase, dead, filt>>
sendVars == <<soon, store, rest, diagnosed, summaries>>
histVars == <<published, got>>
vars     == <<connVars, conns, lockq, sendVars, faults, histVars, owed>>

Kinds    == {"alert", "diagnosis", "summary"}
Messages == [kind : {"alert", "diagnosis"}, of : Alerts] \cup [kind : {"summary"}, of : Nodes]
Loops    == {"detector", "diagnosis", "summary"}
AnyFilter == [nodes |-> {}, severity |-> None]

\* A task that wants the lock: to join or leave the connections, or to broadcast.
Join(c)  == [op |-> "join", who |-> c]
Leave(c) == [op |-> "leave", who |-> c]
Broadcast(by, msgs) ==
  [op |-> "send", by |-> by, msgs |-> msgs, at |-> 0, base |-> 0, stale |-> {}]

\* MUTANT: sends need no lock.
HoldsLockOrSends(i) == i = 1 \/ lockq[i].op = "send"

\* The i-th task of the queue has the lock.
HoldsLock(i) == i = 1

TypeOK ==
  /\ phase \in [Clients -> {"out", "joining", "in", "leaving", "done"}]
  /\ dead \subseteq Clients
  /\ filt \in [Clients -> Filters \cup {AnyFilter}]
  /\ conns \in Seq(Clients)
  /\ \A i, k \in DOMAIN conns : conns[i] = conns[k] => i = k
  /\ \A i \in DOMAIN conns : phase[conns[i]] \in {"in", "leaving"}
  /\ soon \in Seq(Alerts) /\ store \subseteq Alerts /\ diagnosed \subseteq Alerts
  /\ rest \in [Loops -> Seq(Messages)]
  /\ \A i \in DOMAIN lockq : lockq[i].op \in {"join", "leave", "send"}
  /\ \A i \in 2..Len(lockq) : lockq[i].op = "send" => lockq[i].at = 0
  /\ published \in Seq(Messages)

NodeOfMsg(m) == IF m.kind = "summary" THEN m.of ELSE NodeOf[m.of]
SeverityOfMsg(m) == IF m.kind = "alert" THEN SeverityOf[m.of] ELSE None

\* _matches_filter
Matches(f, m) ==
  /\ f.nodes = {} \/ NodeOfMsg(m) \in f.nodes
  /\ f.severity = None \/ SeverityOfMsg(m) = None \/ f.severity = SeverityOfMsg(m)

AlertMsg(a) == [kind |-> "alert", of |-> a]

Budget == MaxSends - Cardinality(store) - Cardinality(diagnosed) - summaries

\* The connections that an alert is owed to: in, well, and with a matching filter.
OwedFor(as) == {p \in Clients \X as : /\ phase[p[1]] = "in" /\ p[1] \notin dead
                                      /\ Matches(filt[p[1]], AlertMsg(p[2]))}

NotOwed(cs, as) == owed' = {p \in owed : p[1] \notin cs /\ p[2] \notin as}

RemoveAt(s, i) == SubSeq(s, 1, i - 1) \o SubSeq(s, i + 1, Len(s))

-----------------------------------------------------------------------------
(* The endpoint of a connection. *)

\* connect: accepted, then waiting for the lock.
Connect(c) ==
  /\ phase[c] = "out"
  /\ phase' = [phase EXCEPT ![c] = "joining"]
  /\ lockq' = Append(lockq, Join(c))
  /\ UNCHANGED <<dead, filt, conns, sendVars, faults, histVars, owed>>

Joined(i) ==
  /\ lockq[i].op = "join"
  /\ conns' = Append(conns, lockq[i].who)
  /\ phase' = [phase EXCEPT ![lockq[i].who] = "in"]
  /\ lockq' = RemoveAt(lockq, i)
  /\ UNCHANGED <<dead, filt, sendVars, faults, histVars, owed>>

\* The peer closes, or is lost.
Die(c) ==
  /\ phase[c] \in {"joining", "in"} /\ c \notin dead
  /\ dead' = dead \cup {c}
  /\ NotOwed({c}, {})
  /\ UNCHANGED <<phase, filt, conns, lockq, sendVars, faults, histVars>>

SetFilter(c) ==
  /\ phase[c] = "in" /\ c \notin dead
  /\ \E f \in Filters \ {filt[c]} : filt' = [filt EXCEPT ![c] = f]
  /\ NotOwed({c}, {})
  /\ UNCHANGED <<phase, dead, conns, lockq, sendVars, faults, histVars>>

\* receive_text raises, and the finally clause disconnects.
Disconnect(c) ==
  /\ phase[c] = "in" /\ c \in dead
  /\ phase' = [phase EXCEPT ![c] = "leaving"]
  /\ lockq' = Append(lockq, Leave(c))
  /\ UNCHANGED <<dead, filt, conns, sendVars, faults, histVars, owed>>

\* The connections but those of cs, in their order.
Removed(cs) ==
  LET kept[k \in 0..Len(conns)] ==
        IF k = 0 THEN <<>>
        ELSE IF conns[k] \in cs THEN kept[k - 1] ELSE Append(kept[k - 1], conns[k])
  IN kept[Len(conns)]

\* MUTANT: a connection that is gone stays in the list.
LeftStays(i) ==
  /\ lockq[i].op = "leave"
  /\ phase' = [phase EXCEPT ![lockq[i].who] = "done"]
  /\ lockq' = RemoveAt(lockq, i)
  /\ UNCHANGED <<conns, dead, filt, sendVars, faults, histVars, owed>>

Left(i) ==
  /\ lockq[i].op = "leave"
  /\ conns' = Removed({lockq[i].who})
  /\ phase' = [phase EXCEPT ![lockq[i].who] = "done"]
  /\ lockq' = RemoveAt(lockq, i)
  /\ UNCHANGED <<dead, filt, sendVars, faults, histVars, owed>>

-----------------------------------------------------------------------------
(* The senders. *)

\* A thread of the gRPC server stores the alert and wakes the event loop.
ReportAlert(a) ==
  /\ a \notin store /\ Budget > 0
  /\ store' = store \cup {a}
  /\ soon' = Append(soon, a)
  /\ owed' = owed \cup OwedFor({a})
  /\ UNCHANGED <<connVars, conns, lockq, rest, diagnosed, summaries, faults, histVars>>

ScheduleBroadcast ==
  /\ soon # <<>>
  /\ lockq' = Append(lockq, Broadcast("grpc", <<AlertMsg(soon[1])>>))
  /\ soon' = Tail(soon)
  /\ UNCHANGED <<connVars, conns, store, rest, diagnosed, summaries, faults, histVars, owed>>

\* A loop with nothing to send and no broadcast under way is asleep.
Asleep(l) == rest[l] = <<>> /\ \A i \in DOMAIN lockq : lockq[i].op = "send" => lockq[i].by # l

\* A pass stores its findings and awaits the broadcast of one after the other.
DetectorPass ==
  /\ Asleep("detector")
  /\ \E found \in {s \in UNION {[1..n -> Alerts \ store] : n \in 1..Budget} :
                     \A i, k \in DOMAIN s : s[i] = s[k] => i = k} :
       LET as == {found[i] : i \in DOMAIN found} IN
       /\ store' = store \cup as
       /\ rest' = [rest EXCEPT !["detector"] = [i \in 1..(Len(found) - 1) |-> AlertMsg(found[i + 1])]]
       /\ lockq' = Append(lockq, Broadcast("detector", <<AlertMsg(found[1])>>))
       /\ owed' = owed \cup OwedFor(as)
  /\ UNCHANGED <<connVars, conns, soon, diagnosed, summaries, faults, histVars>>

\* A pass that raises after it stored an alert: the finding is lost.
DetectorFails ==
  /\ Asleep("detector") /\ faults < MaxFaults /\ Budget > 0
  /\ faults' = faults + 1
  /\ \E a \in Alerts \ store : store' = store \cup {a}
  /\ UNCHANGED <<connVars, conns, lockq, soon, rest, diagnosed, summaries, histVars, owed>>

\* The diagnosis loop broadcasts a result.
DiagnosisReady(a) ==
  /\ Asleep("diagnosis") /\ Budget > 0 /\ a \in store \ diagnosed /\ SeverityOf[a] = "CRITICAL"
  /\ diagnosed' = diagnosed \cup {a}
  /\ lockq' = Append(lockq, Broadcast("diagnosis", <<[kind |-> "diagnosis", of |-> a]>>))
  /\ UNCHANGED <<connVars, conns, soon, store, rest, summaries, faults, histVars, owed>>

\* get_all_node_statuses, in the order of a dictionary.
Statuses ==
  LET Orders == {s \in [1..Cardinality(Nodes) -> Nodes] : \A n \in Nodes : \E i \in DOMAIN s : s[i] = n}
      order == CHOOSE s \in Orders : TRUE
  IN [i \in DOMAIN order |-> [kind |-> "summary", of |-> order[i]]]

\* The statuses are read before the lock is asked for.
SummaryTick ==
  /\ Asleep("summary") /\ Budget > 0
  /\ summaries' = summaries + 1
  /\ lockq' = Append(lockq, Broadcast("summary", Statuses))
  /\ UNCHANGED <<connVars, conns, soon, store, rest, diagnosed, faults, histVars, owed>>

-----------------------------------------------------------------------------
(* A broadcast, task i of the queue. It loops over the connections, and for each over the *)
(* messages: place p of the loop is one send. Only the send is awaited, so a step goes   *)
(* from the end of one send to the start of the next, past all that match no filter.     *)

ConnAt(t, p) == conns[(p - 1) \div Len(t.msgs) + 1]
MsgAt(t, p)  == ((p - 1) % Len(t.msgs)) + 1

\* The place after all those of the connection at p.
PastConn(t, p) == ((p - 1) \div Len(t.msgs) + 1) * Len(t.msgs) + 1

\* The stale connections leave, and a loop with more findings asks for the lock again.
SendDone(i, stale) ==
  /\ conns' = Removed(stale)
  /\ LET by == lockq[i].by IN
       IF by \in Loops /\ rest[by] # <<>>
         THEN /\ lockq' = Append(RemoveAt(lockq, i), Broadcast(by, <<rest[by][1]>>))
              /\ rest' = [rest EXCEPT ![by] = Tail(@)]
         ELSE lockq' = RemoveAt(lockq, i) /\ UNCHANGED rest

\* Task t, which is the i-th, starts the first send from place p on.
Proceed(i, t, p) ==
  LET sends == {q \in p..(Len(conns) * Len(t.msgs)) :
                  Matches(filt[ConnAt(t, q)], t.msgs[MsgAt(t, q)])}
  IN IF sends = {} THEN SendDone(i, t.stale)
     ELSE /\ lockq' = [lockq EXCEPT ![i] = [t EXCEPT !.at = CHOOSE q \in sends :
                                                           \A x \in sends : q <= x]]
          /\ UNCHANGED <<conns, rest>>

Acquired(i) ==
  /\ lockq[i].op = "send" /\ lockq[i].at = 0
  /\ published' = published \o lockq[i].msgs
  /\ Proceed(i, [lockq[i] EXCEPT !.base = Len(published)], 1)
  /\ UNCHANGED <<connVars, soon, store, diagnosed, summaries, faults, got, owed>>

Sending(i) == lockq[i].op = "send" /\ lockq[i].at \in 1..(Len(conns) * Len(lockq[i].msgs))
Target(i)  == ConnAt(lockq[i], lockq[i].at)

\* The send completes; what is sent to a peer that is gone may vanish without an error.
SendText(i) ==
  /\ Sending(i)
  /\ IF Target(i) \in dead THEN UNCHANGED got
     ELSE got' = [got EXCEPT ![Target(i)] =
                    Append(@, lockq[i].base + MsgAt(lockq[i], lockq[i].at))]
  /\ Proceed(i, lockq[i], lockq[i].at + 1)
  /\ UNCHANGED <<connVars, soon, store, diagnosed, summaries, faults, published, owed>>

\* MUTANT: the connection is removed from the list being iterated.
SendClosedInPlace(i) ==
  /\ Sending(i) /\ Target(i) \in dead
  /\ conns' = Removed({Target(i)})
  /\ lockq' = IF lockq[i].at < Len(conns) - 1 THEN [lockq EXCEPT ![i].at = @ + 1]
                                              ELSE RemoveAt(lockq, i)
  /\ UNCHANGED <<connVars, sendVars, faults, histVars, owed>>

\* WebSocketDisconnect or RuntimeError: the connection is stale, its other messages moot.
SendClosed(i) ==
  /\ Sending(i) /\ Target(i) \in dead
  /\ Proceed(i, [lockq[i] EXCEPT !.stale = @ \cup {Target(i)}], PastConn(lockq[i], lockq[i].at))
  /\ UNCHANGED <<connVars, soon, store, diagnosed, summaries, faults, histVars, owed>>

\* The alerts among messages.
AlertsIn(msgs) == {msgs[i].of : i \in {k \in DOMAIN msgs : msgs[k].kind = "alert"}}

\* MUTANT: the lock is released by the last statement, not by leaving the block.
SendRaisesLocked(i) ==
  /\ Sending(i) /\ faults < MaxFaults
  /\ faults' = faults + 1
  /\ lockq' = [lockq EXCEPT ![i].op = "held"]
  /\ NotOwed({}, AlertsIn(lockq[i].msgs))
  /\ UNCHANGED <<connVars, conns, sendVars, histVars>>

\* Another exception ends the broadcast, and what its loop had still to send.
SendRaises(i) ==
  /\ Sending(i) /\ faults < MaxFaults
  /\ faults' = faults + 1
  /\ lockq' = RemoveAt(lockq, i)
  /\ LET by == lockq[i].by
         lost == IF by \in Loops THEN rest[by] ELSE <<>>
     IN /\ rest' = [l \in Loops |-> IF l = by THEN <<>> ELSE rest[l]]
        /\ NotOwed({}, AlertsIn(lockq[i].msgs \o lost))
  /\ UNCHANGED <<connVars, conns, soon, store, diagnosed, summaries, histVars>>

-----------------------------------------------------------------------------

Init ==
  /\ phase = [c \in Clients |-> "out"] /\ dead = {}
  /\ filt = [c \in Clients |-> AnyFilter]
  /\ conns = <<>> /\ lockq = <<>> /\ soon = <<>> /\ store = {}
  /\ rest = [l \in Loops |-> <<>>]
  /\ diagnosed = {} /\ summaries = 0 /\ faults = 0
  /\ published = <<>> /\ got = [c \in Clients |-> <<>>]
  /\ owed = {}

\* A step of the task that has the lock.
LockStep(i) ==
  HoldsLock(i) /\ (Joined(i) \/ Left(i) \/ Acquired(i) \/ SendText(i) \/ SendClosed(i))

Peers == \E c \in Clients : Connect(c) \/ Die(c) \/ SetFilter(c)

Senders ==
  \/ \E a \in Alerts : ReportAlert(a) \/ DiagnosisReady(a)
  \/ DetectorPass \/ DetectorFails \/ SummaryTick

Next ==
  \/ Peers \/ Senders
  \/ \E c \in Clients : Disconnect(c)
  \/ ScheduleBroadcast
  \/ \E i \in DOMAIN lockq : LockStep(i) \/ (HoldsLock(i) /\ SendRaises(i))

Spec == Init /\ [][Next]_vars

\* FAIRNESS: the event loop runs its callbacks, its tasks and the endpoints; a send to a
\* peer that does not read ends at the latest when the server's ping times out.
Fairness ==
  /\ WF_vars(ScheduleBroadcast)
  /\ WF_vars(\E i \in DOMAIN lockq : LockStep(i))
  /\ \A c \in Clients : WF_vars(Disconnect(c))

LiveSpec == Spec /\ Fairness

-----------------------------------------------------------------------------
(* Properties. *)

\* The hub implements the feed: broadcasts from threads, from three loops and from the
\* summary reach all connections in one order, each message at most once, also while
\* connections join, leave and die (the lock is held "async with self._lock" across the
\* sends of websocket.py:103-116).
F == INSTANCE Feed
ImplementsFeed == F!FeedSpec

\* The alert is still on its way.
InFlight(a) ==
  \/ \E i \in DOMAIN soon : soon[i] = a
  \/ \E i \in DOMAIN rest["detector"] : rest["detector"][i].of = a
  \/ \E i \in DOMAIN lockq : lockq[i].op = "send" /\ a \in AlertsIn(lockq[i].msgs)

Received(c, a) == \E i \in DOMAIN got[c] : published[got[c][i]] = AlertMsg(a)

\* A connection that was in when the alert was stored, and stayed well with a filter that
\* lets it through, has received it once the alert is no longer on its way: other
\* connections that fail, join or leave during the broadcast cost it nothing.
NothingMissed == \A p \in owed : Received(p[1], p[2]) \/ InFlight(p[2])

\* While alerts are on their way, the hub gets to a state where none is: no exception,
\* closed peer or waiting task leaves the lock held. (Alerts are bounded here, so this is
\* that each is eventually broadcast or given up.)
AlertsFlushed == (\E a \in Alerts : InFlight(a)) ~> (\A a \in Alerts : ~InFlight(a))

\* Connections whose peer is gone eventually leave the list, whether a failed send or
\* their endpoint notices first.
Listed(cs) == \E i \in DOMAIN conns : conns[i] \in cs
DeadLeave == Listed(dead) ~> ~Listed(dead)
=============================================================================
