----------------------------- MODULE DashSocket ----------------------------
(***************************************************************************)
(* The dashboard's one WebSocket: an effect that opens a socket for the    *)
(* signed-in key, a timer that replaces a closed socket, and a cleanup     *)
(* that runs when the key changes, while events of the old socket and its  *)
(* timer may still be on their way.                                        *)
(*                                                                         *)
(* An effect runs some time after the change it depends on, when React has *)
(* rendered; the key in the browser's storage is then already another one. *)
(* That the effect's component is unmounted only with the page is assumed. *)
(***************************************************************************)
EXTENDS Naturals, FiniteSets

CONSTANTS
  Keys,       \* what a user may enter
  GoodKeys,   \* what the backend accepts
  Sockets,    \* BOUND: WebSocket objects at a time that are not closed
  MaxDelay    \* MAX_RECONNECT_DELAY, in units of the first delay

Absent == "absent"

ASSUME DashSocketAssumption ==
  /\ GoodKeys \subseteq Keys /\ Absent \notin Keys \cup Sockets
  /\ IsFiniteSet(Sockets) /\ MaxDelay \in Nat \ {0}

VARIABLES
  stored,     \* the key in localStorage, or Absent
  run,        \* the apiKey of the latest run of the effect, or Absent
  socket,     \* phase, the key of the URL, and the `unmounted` of the run that made it
  current,    \* wsRef.current, or Absent
  timers,     \* retry timers of the latest run that are pending
  delay,      \* reconnectDelay.current
  connected,  \* state.connected
  serving     \* whether the backend can be reached

wsVars == <<stored, run, socket, current, timers, delay, connected, serving>>

Closed == [phase |-> "closed", key |-> Absent, unmounted |-> FALSE]

WsTypeOK ==
  /\ {stored, run} \subseteq Keys \cup {Absent}
  /\ socket \in [Sockets -> [phase : {"connecting", "open", "closing", "closed"},
                             key : Keys \cup {Absent}, unmounted : BOOLEAN]]
  /\ current \in Sockets \cup {Absent}
  /\ timers \in 0..Cardinality(Sockets) /\ delay \in 1..MaxDelay
  /\ {connected, serving} \subseteq BOOLEAN

\* Signing in and out, here or, by an answer 401, in any call.
StoreKey ==
  /\ stored' \in (Keys \cup {Absent}) \ {stored}
  /\ UNCHANGED <<run, socket, current, timers, delay, connected, serving>>

\* connect: the guard sees the key of the effect, the URL has the one in the storage.
Connect(sockets, key) ==
  IF key = Absent THEN socket' = sockets /\ UNCHANGED current
  ELSE \E s \in Sockets :
         /\ sockets[s] = Closed
         /\ socket' = [sockets EXCEPT ![s] = [phase |-> "connecting", key |-> stored,
                                              unmounted |-> FALSE]]
         /\ current' = s

\* close() is without effect on a socket that closes or has closed.
Hangup(sock, s) ==
  IF s = current /\ sock.phase \in {"connecting", "open"} THEN "closing" ELSE sock.phase

\* MUTANT: the cleanup only closes the socket.
CloseOnly(sock, s) == [sock EXCEPT !.phase = Hangup(sock, s)]

CleanUp(sock, s) ==
  IF sock = Closed THEN sock
  ELSE [sock EXCEPT !.phase = Hangup(sock, s), !.unmounted = TRUE]

\* The effect depends on the key. A timer the cleanup misses would find `unmounted`.
AuthEffect ==
  /\ run # stored
  /\ run' = stored /\ timers' = 0
  /\ Connect([s \in Sockets |-> CleanUp(socket[s], s)], stored)
  /\ UNCHANGED <<stored, delay, connected, serving>>

SocketOpens(s) ==
  /\ socket[s].phase = "connecting" /\ serving /\ socket[s].key \in GoodKeys
  /\ socket' = [socket EXCEPT ![s].phase = "open"]
  /\ IF socket[s].unmounted THEN UNCHANGED <<connected, delay>>
                            ELSE connected' = TRUE /\ delay' = 1
  /\ UNCHANGED <<stored, run, current, timers, serving>>

\* The backend refuses a key before it accepts the connection.
Ends(s) ==
  \/ socket[s].phase = "closing"
  \/ socket[s].phase = "connecting" /\ (~serving \/ socket[s].key \notin GoodKeys)

\* MUTANT: only the loss of a connection sets the timer, not an attempt that fails.
ClosesUnretried(s) ==
  /\ Ends(s)
  /\ socket' = [socket EXCEPT ![s] = Closed]
  /\ IF socket[s].unmounted THEN UNCHANGED <<connected, timers>>
     ELSE connected' = FALSE /\ timers' = timers + (IF connected THEN 1 ELSE 0)
  /\ UNCHANGED <<stored, run, current, delay, serving>>

SocketCloses(s) ==
  /\ Ends(s)
  /\ socket' = [socket EXCEPT ![s] = Closed]
  /\ IF socket[s].unmounted THEN UNCHANGED <<connected, timers>>
                            ELSE connected' = FALSE /\ timers' = timers + 1
  /\ UNCHANGED <<stored, run, current, delay, serving>>

RetryTimer ==
  /\ timers > 0
  /\ timers' = timers - 1
  /\ delay' = IF 2 * delay < MaxDelay THEN 2 * delay ELSE MaxDelay
  /\ Connect(socket, run)
  /\ UNCHANGED <<stored, run, connected, serving>>

\* The backend or the network goes and comes.
ServingEnds ==
  /\ serving
  /\ serving' = FALSE
  /\ socket' = [s \in Sockets |-> IF socket[s].phase \in {"connecting", "open"}
                                    THEN [socket[s] EXCEPT !.phase = "closing"] ELSE socket[s]]
  /\ UNCHANGED <<stored, run, current, timers, delay, connected>>

ServingStarts ==
  /\ ~serving
  /\ serving' = TRUE
  /\ UNCHANGED <<stored, run, socket, current, timers, delay, connected>>

WsInit ==
  /\ stored \in Keys \cup {Absent} /\ run = Absent
  /\ socket = [s \in Sockets |-> Closed] /\ current = Absent
  /\ timers = 0 /\ delay = 1
  /\ connected = FALSE /\ serving \in BOOLEAN

WsNext ==
  \/ StoreKey \/ AuthEffect \/ RetryTimer \/ ServingEnds \/ ServingStarts
  \/ \E s \in Sockets : SocketOpens(s) \/ SocketCloses(s)

WsSpec == WsInit /\ [][WsNext]_wsVars

\* React runs the effects of what it has rendered, and the browser its timers and the
\* events of its sockets.
WsFairness ==
  /\ WF_wsVars(AuthEffect) /\ WF_wsVars(RetryTimer)
  /\ \A s \in Sockets : WF_wsVars(SocketOpens(s)) /\ WF_wsVars(SocketCloses(s))

-----------------------------------------------------------------------------
(* Properties. *)

Live == {s \in Sockets : socket[s].phase # "closed" /\ ~socket[s].unmounted}

\* Signed in, the dashboard has one socket it listens to or one timer that will open it,
\* never both and never two, so no message is handled twice and none has nobody waiting
\* for it. While that socket is open the dashboard shows it, whatever old sockets do, and
\* the next outage starts with the shortest delay (websocket.tsx:84, "creating duplicate
\* reconnect timers").
OneSocket ==
  /\ Cardinality(Live) + timers = IF run = Absent THEN 0 ELSE 1
  /\ \A s \in Live : socket[s].phase = "open" => connected /\ delay = 1

\* Once the backend stays reachable and the key is a good one, the dashboard is connected
\* in the end, and stays so.
SocketReturns ==
  \A k \in GoodKeys :
    <>[](serving /\ stored = k) =>
      <>[](connected /\ \E s \in Live : socket[s].phase = "open")
=============================================================================
