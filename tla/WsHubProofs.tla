---------------------------- MODULE WsHubProofs ----------------------------
(***************************************************************************)
(* The hub implements the feed, and misses nothing that it owes, for any   *)
(* connections, alerts, filters, and findings of a pass.                   *)
(***************************************************************************)
EXTENDS WsHub, SequenceTheorems, FiniteSetTheorems, WellFoundedInduction, TLAPS

Elements(s) == {s[i] : i \in DOMAIN s}
Distinct(s) == \A i, k \in DOMAIN s : s[i] = s[k] => i = k

Sends == [op : {"send"}, by : Loops \cup {"grpc"}, msgs : Seq(Messages), at : Nat,
          base : Nat, stale : SUBSET Clients]
Tasks == [op : {"join", "leave"}, who : Clients] \cup Sends

\* The connections, and who is among them.
ConnInv ==
  /\ phase \in [Clients -> {"out", "joining", "in", "leaving", "done"}]
  /\ dead \subseteq Clients
  /\ filt \in [Clients -> Filters \cup {AnyFilter}]
  /\ conns \in Seq(Clients) /\ Distinct(conns)
  /\ \A c \in Elements(conns) : phase[c] \in {"in", "leaving"}
  /\ \A c \in Clients : phase[c] = "in" /\ c \notin dead => c \in Elements(conns)

\* Tasks that wait for the lock, of connections in the phases ph, of which some are gone:
\* a connection waits at most once, and only the first task has begun to send.
IsQueue(s, ph, gone) ==
  /\ s \in Seq(Tasks)
  /\ \A i \in DOMAIN s : /\ s[i].op = "join" => ph[s[i].who] = "joining"
                         /\ s[i].op = "leave" => ph[s[i].who] = "leaving"
  /\ \A i, k \in DOMAIN s :
       s[i].op # "send" /\ s[k].op # "send" /\ s[i].who = s[k].who => i = k
  /\ \A i \in DOMAIN s : s[i].op = "send" => /\ i # 1 => s[i].at = 0
                                             /\ s[i].at = 0 => s[i].stale = {}
                                             /\ s[i].stale \subseteq gone

QueueInv == IsQueue(lockq, phase, dead)

SenderInv ==
  /\ soon \in Seq(Alerts) /\ store \subseteq Alerts /\ diagnosed \subseteq Alerts
  /\ rest \in [Loops -> Seq(Messages)]
  /\ \A i \in DOMAIN rest["detector"] : rest["detector"][i].kind = "alert"

\* The first task has its messages in the feed and some of them still to send.
Running == lockq # <<>> /\ lockq[1].op = "send" /\ lockq[1].at # 0

\* The places of the loop that t has still to visit, from p on.
Places(t, p) == p..(Len(conns) * Len(t.msgs))

\* The messages of a broadcast are the end of the feed, and what it has still to send to
\* a connection is later in the feed than all that the connection received.
FeedInv ==
  /\ published \in Seq(Messages)
  /\ got \in [Clients -> Seq(1..Len(published))]
  /\ Running =>
       /\ lockq[1].base + Len(lockq[1].msgs) = Len(published)
       /\ \A m \in DOMAIN lockq[1].msgs : published[lockq[1].base + m] = lockq[1].msgs[m]
       /\ lockq[1].at \in Places(lockq[1], 1)
       /\ \A q \in Places(lockq[1], lockq[1].at) :
            \A e \in DOMAIN got[ConnAt(lockq[1], q)] :
              got[ConnAt(lockq[1], q)][e] < lockq[1].base + MsgAt(lockq[1], q)

\* The alert a has not got the lock yet.
Waiting(a) ==
  \/ \E i \in DOMAIN soon : soon[i] = a
  \/ \E i \in DOMAIN rest["detector"] : rest["detector"][i].of = a
  \/ \E i \in DOMAIN lockq :
       lockq[i].op = "send" /\ lockq[i].at = 0 /\ a \in AlertsIn(lockq[i].msgs)

\* The alert is ahead of task t from place p on, for the connection.
AheadOf(t, p, c, a) ==
  \E q \in Places(t, p) : ConnAt(t, q) = c /\ t.msgs[MsgAt(t, q)] = AlertMsg(a)

Ahead(c, a) == Running /\ AheadOf(lockq[1], lockq[1].at, c, a)

OwedInv ==
  \A p \in owed :
    /\ p \in Clients \X Alerts /\ p[2] \in store
    /\ phase[p[1]] = "in" /\ p[1] \notin dead /\ Matches(filt[p[1]], AlertMsg(p[2]))
    /\ Received(p[1], p[2]) \/ Waiting(p[2]) \/ Ahead(p[1], p[2])

HubInv == ConnInv /\ QueueInv /\ SenderInv /\ FeedInv /\ OwedInv

-----------------------------------------------------------------------------
(* What stays of the connections when some are removed. Removed is a recursive function, *)
(* so each fact is shown for its first places by the least one where it would not hold.  *)

LEMMA Least ==
  ASSUME NEW T \in SUBSET Nat, T # {}
  PROVE  \E x \in T : \A y \in T : x <= y
<1> DEFINE R == OpToRel(<, Nat)
<1>1. IsWellFoundedOn(R, Nat)
  BY NatLessThanWellFounded
<1> HIDE DEF R
<1>2. PICK x \in T : \A y \in T : ~(<<y, x>> \in R)
  BY <1>1, WFMin
<1>3. \A a, b \in Nat : a < b => <<a, b>> \in R
  BY DEF R, OpToRel
<1>4. \A y \in T : ~(y < x)
  BY <1>2, <1>3
<1>5. \A y \in T : y \in Nat
  OBVIOUS
<1> QED
  BY <1>2, <1>4, <1>5

\* kept, up to place n: what remains of the first n connections.
KeptStep(cs, prev, k) == IF conns[k] \in cs THEN prev ELSE Append(prev, conns[k])
IsKept(f, cs, n) ==
  f = [k \in 0..n |-> IF k = 0 THEN <<>> ELSE KeptStep(cs, f[k - 1], k)]

LEMMA KeptExists ==
  ASSUME NEW cs, NEW n \in Nat
  PROVE  \E f : IsKept(f, cs, n)
<1> DEFINE T == {m \in Nat : ~ \E f : IsKept(f, cs, m)}
<1>1. SUFFICES ASSUME T # {} PROVE FALSE
  OBVIOUS
<1>2. PICK x \in T : \A y \in T : x <= y
  BY <1>1, Least
<1>3. x \in Nat /\ ~ \E f : IsKept(f, cs, x)
  BY <1>2
<1>4. CASE x = 0
  <2>1. IsKept([k \in 0..0 |-> <<>>], cs, 0)
    BY DEF IsKept
  <2> QED BY <1>3, <1>4, <2>1
<1>5. CASE x # 0
  <2>1. x - 1 \in Nat /\ x - 1 \notin T
    BY <1>2, <1>3, <1>5
  <2>2. PICK f : IsKept(f, cs, x - 1)
    BY <2>1
  <2> DEFINE g == [k \in 0..x |-> IF k = x THEN KeptStep(cs, f[x - 1], x) ELSE f[k]]
             h == [k \in 0..x |-> IF k = 0 THEN <<>> ELSE KeptStep(cs, g[k - 1], k)]
  <2>3. \A k \in 0..(x - 1) : f[k] = IF k = 0 THEN <<>> ELSE KeptStep(cs, f[k - 1], k)
    BY <2>2 DEF IsKept
  <2>4. ASSUME NEW k \in 0..x
        PROVE  g[k] = h[k]
    <3>1. CASE k = x
      <4>1. g[k - 1] = f[x - 1]
        BY <1>3, <1>5, <3>1
      <4> QED BY <1>3, <1>5, <3>1, <4>1
    <3>2. CASE k # x
      <4>1. k \in 0..(x - 1) /\ g[k] = f[k]
        BY <1>3, <3>2
      <4>2. k # 0 => g[k - 1] = f[k - 1]
        BY <1>3, <4>1
      <4> QED BY <2>3, <4>1, <4>2
    <3> QED BY <3>1, <3>2
  <2>5. g = h
    BY <2>4
  <2>6. IsKept(g, cs, x)
    BY <2>5 DEF IsKept
  <2> QED BY <1>3, <2>6
<1> QED BY <1>4, <1>5

\* An element more is distinct from those before it.
LEMMA AppendDistinct ==
  ASSUME NEW S, NEW s \in Seq(S), NEW e \in S
  PROVE  /\ Append(s, e) \in Seq(S)
         /\ Elements(Append(s, e)) = Elements(s) \cup {e}
         /\ Distinct(s) /\ e \notin Elements(s) => Distinct(Append(s, e))
<1>1. /\ Append(s, e) \in Seq(S) /\ Len(Append(s, e)) = Len(s) + 1
      /\ \A i \in 1..Len(s) : Append(s, e)[i] = s[i]
      /\ Append(s, e)[Len(s) + 1] = e
  BY AppendProperties
<1>2. DOMAIN s = 1..Len(s) /\ Len(s) \in Nat /\ DOMAIN Append(s, e) = 1..(Len(s) + 1)
  BY <1>1
<1>3. Elements(Append(s, e)) = Elements(s) \cup {e}
  BY <1>1, <1>2 DEF Elements
<1>4. Distinct(s) /\ e \notin Elements(s) => Distinct(Append(s, e))
  BY <1>1, <1>2 DEF Distinct, Elements
<1> QED BY <1>1, <1>3, <1>4

LEMMA KeptFacts ==
  ASSUME conns \in Seq(Clients), Distinct(conns), NEW cs,
         NEW f, IsKept(f, cs, Len(conns)), NEW n \in 0..Len(conns)
  PROVE  /\ f[n] \in Seq(Clients) /\ Distinct(f[n])
         /\ Elements(f[n]) = {conns[i] : i \in 1..n} \ cs
<1> DEFINE Good(m) == /\ f[m] \in Seq(Clients) /\ Distinct(f[m])
                      /\ Elements(f[m]) = {conns[i] : i \in 1..m} \ cs
           T == {m \in 0..Len(conns) : ~Good(m)}
<1>1. SUFFICES ASSUME T # {} PROVE FALSE
  OBVIOUS
<1>2. Len(conns) \in Nat /\ \A i \in 1..Len(conns) : conns[i] \in Clients
  OBVIOUS
<1>3. PICK x \in T : \A y \in T : x <= y
  <2>1. T \in SUBSET Nat
    BY <1>2
  <2> QED BY <1>1, <2>1, Least
<1>4. x \in 0..Len(conns) /\ ~Good(x)
  BY <1>3
<1>5. \A k \in 0..Len(conns) : f[k] = IF k = 0 THEN <<>> ELSE KeptStep(cs, f[k - 1], k)
  BY DEF IsKept
<1>6. CASE x = 0
  <2>1. f[0] = <<>>
    BY <1>4, <1>5, <1>6
  <2>2. DOMAIN f[0] = {} /\ f[0] \in Seq(Clients)
    BY <2>1, EmptySeq
  <2>3. Elements(f[0]) = {} /\ {conns[i] : i \in 1..0} \ cs = {}
    <3>1. \A i \in 1..0 : FALSE
      OBVIOUS
    <3>2. {conns[i] : i \in 1..0} = {}
      BY <3>1, Zenon
    <3>3. \A i \in DOMAIN f[0] : FALSE
      BY <2>2
    <3>4. Elements(f[0]) = {}
      BY <3>3, Zenon DEF Elements
    <3> QED BY <3>2, <3>4
  <2>4. Distinct(f[0])
    BY <2>2 DEF Distinct
  <2>5. Good(0)
    BY <2>2, <2>3, <2>4
  <2> QED BY <1>4, <1>6, <2>5
<1>7. CASE x # 0
  <2>1. x - 1 \in 0..Len(conns) /\ x \in 1..Len(conns)
    BY <1>2, <1>4, <1>7
  <2>2. Good(x - 1)
    <3>1. ~(x <= x - 1)
      BY <1>2, <1>4
    <3>2. x - 1 \notin T
      BY <1>3, <3>1, Zenon
    <3> QED BY <2>1, <3>2, Zenon
  <2>3. f[x] = KeptStep(cs, f[x - 1], x)
    BY <1>4, <1>5, <1>7
  <2>4. {conns[i] : i \in 1..x} = {conns[i] : i \in 1..(x - 1)} \cup {conns[x]}
    BY <1>2, <2>1
  <2>5. \A i \in 1..(x - 1) : conns[i] # conns[x]
    BY <1>2, <2>1 DEF Distinct
  <2>6. CASE conns[x] \in cs
    BY <1>4, <2>2, <2>3, <2>4, <2>6 DEF KeptStep
  <2>7. CASE conns[x] \notin cs
    <3>1. f[x] = Append(f[x - 1], conns[x]) /\ conns[x] \in Clients
      BY <1>2, <2>1, <2>3, <2>7 DEF KeptStep
    <3>2. conns[x] \notin Elements(f[x - 1])
      BY <2>2, <2>5
    <3>3. /\ f[x] \in Seq(Clients) /\ Distinct(f[x])
          /\ Elements(f[x]) = Elements(f[x - 1]) \cup {conns[x]}
      <4>1. f[x - 1] \in Seq(Clients) /\ Distinct(f[x - 1])
        BY <2>2
      <4> QED BY <3>1, <3>2, <4>1, AppendDistinct
    <3> QED BY <1>4, <2>2, <2>4, <2>7, <3>3
  <2> QED BY <2>6, <2>7
<1> QED BY <1>6, <1>7

LEMMA RemovedFacts ==
  ASSUME conns \in Seq(Clients), Distinct(conns), NEW cs
  PROVE  /\ Removed(cs) \in Seq(Clients) /\ Distinct(Removed(cs))
         /\ Elements(Removed(cs)) = Elements(conns) \ cs
<1> DEFINE kept == CHOOSE f : IsKept(f, cs, Len(conns))
<1>1. Len(conns) \in Nat /\ Len(conns) \in 0..Len(conns)
  OBVIOUS
<1>2. IsKept(kept, cs, Len(conns))
  BY <1>1, KeptExists
<1>3. Removed(cs) = kept[Len(conns)]
  BY Zenon DEF Removed, IsKept, KeptStep
<1> HIDE DEF kept
<1>4. /\ kept[Len(conns)] \in Seq(Clients) /\ Distinct(kept[Len(conns)])
      /\ Elements(kept[Len(conns)]) = {conns[i] : i \in 1..Len(conns)} \ cs
  BY <1>1, <1>2, KeptFacts, Zenon
<1>5. Elements(conns) = {conns[i] : i \in 1..Len(conns)}
  BY DEF Elements
<1> QED BY <1>3, <1>4, <1>5

-----------------------------------------------------------------------------
(* The places of a broadcast's loop. *)

LEMMA TimesMonotone ==
  ASSUME NEW x \in Nat, NEW y \in Nat, NEW n \in Nat, x <= y
  PROVE  x * n <= y * n
OBVIOUS

LEMMA TimesSucc ==
  ASSUME NEW x \in Nat, NEW n \in Nat
  PROVE  (x + 1) * n = x * n + n /\ x * n \in Nat
OBVIOUS

LEMMA DivMod ==
  ASSUME NEW a \in Nat, NEW n \in Nat \ {0}
  PROVE  /\ a \div n \in Nat /\ a % n \in 0..(n - 1)
         /\ a = ((a \div n) * n) + (a % n)
OBVIOUS

LEMMA DivUnique ==
  ASSUME NEW a \in Nat, NEW n \in Nat \ {0}, NEW q \in Nat, NEW r \in 0..(n - 1),
         a = q * n + r
  PROVE  a \div n = q /\ a % n = r
<1> DEFINE d == a \div n
           m == a % n
<1>1. d \in Nat /\ m \in 0..(n - 1) /\ a = d * n + m
  BY DivMod
<1> HIDE DEF d, m
<1>2. ~(d < q)
  <2>1. SUFFICES ASSUME d + 1 <= q PROVE FALSE
    BY <1>1
  <2>2. (d + 1) * n <= q * n
    BY <1>1, <2>1, TimesMonotone
  <2>3. (d + 1) * n = d * n + n
    BY <1>1
  <2> QED BY <1>1, <2>2, <2>3
<1>3. ~(q < d)
  <2>1. SUFFICES ASSUME q + 1 <= d PROVE FALSE
    BY <1>1
  <2>2. (q + 1) * n <= d * n
    BY <1>1, <2>1, TimesMonotone
  <2>3. (q + 1) * n = q * n + n
    OBVIOUS
  <2> QED BY <1>1, <2>2, <2>3
<1>4. d = q
  BY <1>1, <1>2, <1>3
<1>5. m = r
  BY <1>1, <1>4
<1> QED BY <1>4, <1>5 DEF d, m

\* Of two numbers, the later one has a greater remainder, or a greater quotient.
LEMMA DivOrder ==
  ASSUME NEW a \in Nat, NEW b \in Nat, NEW n \in Nat \ {0}, a < b
  PROVE  \/ a \div n = b \div n /\ a % n < b % n
         \/ a \div n # b \div n /\ (a \div n + 1) * n <= b
<1> DEFINE d == a \div n
           m == a % n
           e == b \div n
           k == b % n
<1>1. d \in Nat /\ m \in 0..(n - 1) /\ a = d * n + m
  BY DivMod
<1>2. e \in Nat /\ k \in 0..(n - 1) /\ b = e * n + k
  BY DivMod
<1> HIDE DEF d, m, e, k
<1>3. CASE d = e
  <2>1. m < k
    BY <1>1, <1>2, <1>3
  <2> QED BY <1>3, <2>1 DEF d, m, e, k
<1>4. CASE d < e
  <2>1. (d + 1) * n <= e * n
    BY <1>1, <1>2, <1>4, TimesMonotone
  <2>2. e * n \in Nat /\ (d + 1) * n \in Nat
    BY <1>1, <1>2
  <2>3. (d + 1) * n <= b
    BY <1>2, <2>1, <2>2
  <2>4. d # e
    BY <1>1, <1>2, <1>4
  <2> QED BY <2>3, <2>4 DEF d, e
<1>5. CASE e < d
  <2>1. (e + 1) * n <= d * n
    BY <1>1, <1>2, <1>5, TimesMonotone
  <2>2. (e + 1) * n = e * n + n
    BY <1>2
  <2>3. e * n \in Nat /\ d * n \in Nat
    BY <1>1, <1>2
  <2> QED BY <1>1, <1>2, <2>1, <2>2, <2>3
<1> QED BY <1>1, <1>2, <1>3, <1>4, <1>5

LEMMA PlaceFacts ==
  ASSUME conns \in Seq(Clients), NEW t \in Sends, NEW q \in Places(t, 1)
  PROVE  /\ MsgAt(t, q) \in DOMAIN t.msgs /\ Len(t.msgs) \in Nat \ {0}
         /\ q \in Nat \ {0}
         /\ (q - 1) \div Len(t.msgs) + 1 \in DOMAIN conns
         /\ ConnAt(t, q) \in Elements(conns) /\ ConnAt(t, q) \in Clients
         /\ PastConn(t, q) \in Nat /\ q < PastConn(t, q)
<1> DEFINE n == Len(t.msgs)
           l == Len(conns)
           d == (q - 1) \div n
           m == (q - 1) % n
<1>1. n \in Nat /\ l \in Nat /\ DOMAIN t.msgs = 1..n /\ DOMAIN conns = 1..l
  BY DEF Sends
<1>2. q \in 1..(l * n)
  BY DEF Places
<1>3. n # 0
  BY <1>1, <1>2
<1>4. q - 1 \in Nat /\ n \in Nat \ {0}
  BY <1>1, <1>2, <1>3
<1>5. d \in Nat /\ m \in 0..(n - 1) /\ q - 1 = d * n + m
  BY <1>4, DivMod
<1> HIDE DEF d, m
<1>6. d < l
  <2>1. SUFFICES ASSUME l <= d PROVE FALSE
    BY <1>1, <1>5
  <2>2. l * n <= d * n
    BY <1>1, <1>5, <2>1, TimesMonotone
  <2>3. l * n \in Nat /\ d * n \in Nat
    BY <1>1, <1>5
  <2> HIDE DEF n, l
  <2> QED BY <1>2, <1>4, <1>5, <2>2, <2>3
<1>7. d + 1 \in 1..l /\ m + 1 \in 1..n
  BY <1>1, <1>5, <1>6
<1>8. (d + 1) * n = d * n + n /\ d * n \in Nat
  BY <1>1, <1>5, TimesSucc
<1>9. q <= (d + 1) * n /\ (d + 1) * n + 1 \in Nat
  <2> HIDE DEF n
  <2> QED BY <1>1, <1>2, <1>4, <1>5, <1>8
<1>10. MsgAt(t, q) = m + 1 /\ ConnAt(t, q) = conns[d + 1] /\ PastConn(t, q) = (d + 1) * n + 1
  BY DEF MsgAt, ConnAt, PastConn, d, m
<1>11. q < PastConn(t, q)
  <2> HIDE DEF n
  <2> QED BY <1>1, <1>2, <1>5, <1>9, <1>10
<1>12. conns[d + 1] \in Clients /\ conns[d + 1] \in Elements(conns)
  BY <1>1, <1>7 DEF Elements
<1>13. (q - 1) \div Len(t.msgs) + 1 \in DOMAIN conns
  BY <1>1, <1>7 DEF d
<1>14. MsgAt(t, q) \in DOMAIN t.msgs /\ PastConn(t, q) \in Nat
  BY <1>1, <1>7, <1>9, <1>10
<1>15. q \in Nat \ {0} /\ Len(t.msgs) \in Nat \ {0}
  BY <1>2, <1>4
<1> QED BY <1>10, <1>11, <1>12, <1>13, <1>14, <1>15

\* A later place is a later message to the same connection, or of a later connection.
LEMMA LaterPlace ==
  ASSUME conns \in Seq(Clients), Distinct(conns), NEW t \in Sends,
         NEW p \in Places(t, 1), NEW q \in Places(t, 1), p < q
  PROVE  \/ ConnAt(t, p) = ConnAt(t, q) /\ MsgAt(t, p) < MsgAt(t, q)
         \/ ConnAt(t, p) # ConnAt(t, q) /\ PastConn(t, p) <= q
<1> DEFINE n == Len(t.msgs)
           d == (p - 1) \div n
           e == (q - 1) \div n
<1>1. /\ n \in Nat \ {0} /\ p - 1 \in Nat /\ q - 1 \in Nat /\ p - 1 < q - 1
      /\ d + 1 \in DOMAIN conns /\ e + 1 \in DOMAIN conns /\ q \in Nat
  <2>1. /\ n \in Nat \ {0} /\ p \in Nat \ {0} /\ q \in Nat \ {0}
        /\ d + 1 \in DOMAIN conns /\ e + 1 \in DOMAIN conns
    BY PlaceFacts, Zenon
  <2> HIDE DEF n, d, e
  <2> QED BY <2>1
<1>2. \/ d = e /\ (p - 1) % n < (q - 1) % n
      \/ d # e /\ (d + 1) * n <= q - 1
  BY <1>1, DivOrder
<1>3. d \in Nat /\ e \in Nat /\ (p - 1) % n \in Nat /\ (q - 1) % n \in Nat
  <2>1. /\ d \in Nat /\ (p - 1) % n \in 0..(n - 1)
        /\ e \in Nat /\ (q - 1) % n \in 0..(n - 1)
    BY <1>1, DivMod
  <2> HIDE DEF n, d, e
  <2> QED BY <1>1, <2>1
<1>4. ConnAt(t, p) = conns[d + 1] /\ ConnAt(t, q) = conns[e + 1]
  BY DEF ConnAt
<1>5. MsgAt(t, p) = ((p - 1) % n) + 1 /\ MsgAt(t, q) = ((q - 1) % n) + 1
  BY DEF MsgAt
<1>6. PastConn(t, p) = (d + 1) * n + 1 /\ (d + 1) * n \in Nat
  <2>1. PastConn(t, p) = (d + 1) * n + 1
    BY DEF PastConn
  <2> HIDE DEF n, d
  <2>2. d + 1 \in Nat /\ n \in Nat
    BY <1>1, <1>3
  <2> QED BY <2>1, <2>2, TimesSucc
<1> HIDE DEF n, d, e
<1>7. d # e => conns[d + 1] # conns[e + 1]
  BY <1>1, <1>3 DEF Distinct
<1>8. CASE d = e /\ (p - 1) % n < (q - 1) % n
  BY <1>3, <1>4, <1>5, <1>8
<1>9. CASE d # e /\ (d + 1) * n <= q - 1
  <2>1. PastConn(t, p) <= q
    BY <1>1, <1>6, <1>9
  <2> QED BY <1>4, <1>7, <1>9, <2>1
<1> QED BY <1>2, <1>8, <1>9

\* Each message has a place for each connection.
LEMMA PlaceOf ==
  ASSUME conns \in Seq(Clients), NEW t \in Sends,
         NEW x \in DOMAIN conns, NEW m \in DOMAIN t.msgs
  PROVE  \E q \in Places(t, 1) : ConnAt(t, q) = conns[x] /\ MsgAt(t, q) = m
<1> DEFINE n == Len(t.msgs)
           l == Len(conns)
           b == (x - 1) * n
           q == b + m
<1>1. n \in Nat /\ l \in Nat /\ x \in 1..l /\ m \in 1..n
  BY DEF Sends
<1>2. x - 1 \in Nat /\ b \in Nat /\ n \in Nat \ {0} /\ m - 1 \in 0..(n - 1)
  BY <1>1
<1>3. b + n = x * n
  BY <1>1
<1>4. x * n <= l * n /\ l * n \in Nat
  BY <1>1, TimesMonotone
<1>5. q \in 1..(l * n) /\ q - 1 = b + (m - 1) /\ q - 1 \in Nat
  <2> HIDE DEF n, l, b
  <2> QED BY <1>1, <1>2, <1>3, <1>4, SMTT(30)
<1>6. (q - 1) \div n = x - 1 /\ (q - 1) % n = m - 1
  <2> HIDE DEF n, q
  <2> QED BY <1>2, <1>5, DivUnique
<1> HIDE DEF q, b
<1>7. ConnAt(t, q) = conns[x] /\ MsgAt(t, q) = m
  BY <1>1, <1>6 DEF ConnAt, MsgAt
<1> QED BY <1>5, <1>7 DEF Places

-----------------------------------------------------------------------------
(* The queue of the lock. *)

LEMMA TaskForms ==
  /\ \A c \in Clients : Join(c) \in Tasks /\ Leave(c) \in Tasks
  /\ \A by \in Loops \cup {"grpc"}, msgs \in Seq(Messages) : Broadcast(by, msgs) \in Sends
  /\ \A t \in Sends : /\ t \in Tasks /\ t.op = "send" /\ t.by \in Loops \cup {"grpc"}
                      /\ t.msgs \in Seq(Messages) /\ t.at \in Nat /\ t.base \in Nat
                      /\ t.stale \subseteq Clients
  /\ \A t \in Tasks : /\ t.op \in {"join", "leave", "send"}
                      /\ t.op = "send" => t \in Sends
                      /\ t.op # "send" => t.who \in Clients
<1>1. \A c \in Clients : Join(c) \in Tasks /\ Leave(c) \in Tasks
  BY DEF Join, Leave, Tasks
<1>2. \A by \in Loops \cup {"grpc"}, msgs \in Seq(Messages) : Broadcast(by, msgs) \in Sends
  BY DEF Broadcast, Sends
<1>3. \A t \in Sends : /\ t \in Tasks /\ t.op = "send" /\ t.by \in Loops \cup {"grpc"}
                       /\ t.msgs \in Seq(Messages) /\ t.at \in Nat /\ t.base \in Nat
                       /\ t.stale \subseteq Clients
  BY DEF Sends, Tasks
<1>4. \A t \in Tasks : /\ t.op \in {"join", "leave", "send"}
                       /\ t.op = "send" => t \in Sends
                       /\ t.op # "send" => t.who \in Clients
  BY DEF Sends, Tasks
<1> QED BY <1>1, <1>2, <1>3, <1>4

\* A removal of the first element leaves the others in their order.
LEMMA RemoveFirst ==
  ASSUME NEW S, NEW s \in Seq(S), s # <<>>
  PROVE  /\ RemoveAt(s, 1) \in Seq(S) /\ DOMAIN RemoveAt(s, 1) = 1..(Len(s) - 1)
         /\ \A i \in DOMAIN RemoveAt(s, 1) : /\ i + 1 \in DOMAIN s /\ i \in Nat \ {0}
                                             /\ RemoveAt(s, 1)[i] = s[i + 1]
<1>1. Len(s) \in Nat \ {0} /\ DOMAIN s = 1..Len(s)
  BY EmptySeq
<1>2. SubSeq(s, 1, 0) = <<>>
  BY <1>1, SubSeqEmpty
<1>3. /\ SubSeq(s, 2, Len(s)) \in Seq(S)
      /\ Len(SubSeq(s, 2, Len(s))) = Len(s) - 1
      /\ \A i \in 1..(Len(s) - 1) : SubSeq(s, 2, Len(s))[i] = s[i + 1]
  BY <1>1
<1>4. RemoveAt(s, 1) = SubSeq(s, 2, Len(s))
  <2>1. RemoveAt(s, 1) = SubSeq(s, 1, 0) \o SubSeq(s, 2, Len(s))
    BY DEF RemoveAt
  <2>2. <<>> \o SubSeq(s, 2, Len(s)) = SubSeq(s, 2, Len(s))
    BY <1>3, ConcatEmptySeq, Zenon
  <2> QED BY <1>2, <2>1, <2>2, Zenon
<1>5. /\ RemoveAt(s, 1) \in Seq(S) /\ DOMAIN RemoveAt(s, 1) = 1..(Len(s) - 1)
      /\ \A i \in 1..(Len(s) - 1) : RemoveAt(s, 1)[i] = s[i + 1]
  <2> DEFINE r == RemoveAt(s, 1)
  <2>1. r \in Seq(S) /\ Len(r) = Len(s) - 1 /\ \A i \in 1..(Len(s) - 1) : r[i] = s[i + 1]
    BY <1>3, <1>4, Zenon
  <2> HIDE DEF r
  <2>2. DOMAIN r = 1..Len(r)
    BY <2>1
  <2> QED BY <2>1, <2>2 DEF r
<1>6. \A i \in 1..(Len(s) - 1) : i + 1 \in DOMAIN s /\ i \in Nat \ {0}
  BY <1>1
<1> QED BY <1>5, <1>6, Zenon

LEMMA QueueShrinks ==
  ASSUME NEW s, NEW ph, NEW gone, IsQueue(s, ph, gone), s # <<>>
  PROVE  /\ IsQueue(RemoveAt(s, 1), ph, gone)
         /\ DOMAIN RemoveAt(s, 1) = 1..(Len(s) - 1)
         /\ \A i \in DOMAIN RemoveAt(s, 1) :
              /\ i + 1 \in DOMAIN s /\ i \in Nat \ {0}
              /\ RemoveAt(s, 1)[i] = s[i + 1]
              /\ s[i + 1].op = "send" => s[i + 1].at = 0
<1> DEFINE r == RemoveAt(s, 1)
<1>1. s \in Seq(Tasks)
  BY DEF IsQueue
<1>2. /\ r \in Seq(Tasks) /\ DOMAIN r = 1..(Len(s) - 1)
      /\ \A i \in DOMAIN r : i + 1 \in DOMAIN s /\ i \in Nat \ {0} /\ r[i] = s[i + 1]
  BY <1>1, RemoveFirst
<1> HIDE DEF r
<1>3. \A i \in DOMAIN r : s[i + 1].op = "send" => s[i + 1].at = 0
  <2>1. \A i \in Nat \ {0} : i + 1 # 1
    OBVIOUS
  <2> QED BY <1>2, <2>1 DEF IsQueue
<1>4. \A i, k \in DOMAIN r :
        r[i].op # "send" /\ r[k].op # "send" /\ r[i].who = r[k].who => i = k
  <2> SUFFICES ASSUME NEW i \in DOMAIN r, NEW k \in DOMAIN r,
                      r[i].op # "send", r[k].op # "send", r[i].who = r[k].who
               PROVE  i = k
    OBVIOUS
  <2>1. i + 1 = k + 1
    BY <1>2 DEF IsQueue
  <2> QED BY <1>2, <2>1
<1>5. IsQueue(r, ph, gone)
  BY <1>2, <1>3, <1>4 DEF IsQueue
<1> QED BY <1>2, <1>3, <1>5 DEF r

LEMMA AppendFacts ==
  ASSUME NEW S, NEW s \in Seq(S), NEW t \in S
  PROVE  /\ Append(s, t) \in Seq(S) /\ DOMAIN Append(s, t) = DOMAIN s \cup {Len(s) + 1}
         /\ \A i \in DOMAIN s : Append(s, t)[i] = s[i] /\ i # Len(s) + 1
         /\ Append(s, t)[Len(s) + 1] = t
         /\ Append(s, t) # <<>> /\ Len(s) + 1 \in Nat
         /\ s # <<>> => 1 \in DOMAIN s
         /\ s = <<>> => Len(s) + 1 = 1
<1>1. Len(s) \in Nat /\ DOMAIN s = 1..Len(s) /\ (s # <<>> => Len(s) # 0) /\ Len(<<>>) = 0
  BY EmptySeq
<1>2. /\ Append(s, t) \in Seq(S) /\ Len(Append(s, t)) = Len(s) + 1
      /\ \A i \in 1..Len(s) : Append(s, t)[i] = s[i]
      /\ Append(s, t)[Len(s) + 1] = t /\ Append(s, t) # <<>>
  BY AppendProperties
<1> QED BY <1>1, <1>2

LEMMA QueueGrows ==
  ASSUME NEW s, NEW ph, NEW gone, IsQueue(s, ph, gone), NEW t \in Tasks,
         t.op = "send" => t.at = 0 /\ t.stale = {},
         t.op = "join" => ph[t.who] = "joining",
         t.op = "leave" => ph[t.who] = "leaving",
         t.op # "send" => \A i \in DOMAIN s : s[i].op # "send" => s[i].who # t.who
  PROVE  IsQueue(Append(s, t), ph, gone)
<1> DEFINE r == Append(s, t)
           z == Len(s) + 1
<1>1. s \in Seq(Tasks)
  BY DEF IsQueue
<1>2. /\ r \in Seq(Tasks) /\ DOMAIN r = DOMAIN s \cup {z}
      /\ \A i \in DOMAIN s : r[i] = s[i] /\ i # z
      /\ r[z] = t
  BY <1>1, AppendFacts
<1> HIDE DEF r, z
<1>3. \A i \in DOMAIN r : /\ r[i].op = "join" => ph[r[i].who] = "joining"
                          /\ r[i].op = "leave" => ph[r[i].who] = "leaving"
  BY <1>2 DEF IsQueue
<1>4. \A i, k \in DOMAIN r :
        r[i].op # "send" /\ r[k].op # "send" /\ r[i].who = r[k].who => i = k
  BY <1>2 DEF IsQueue
<1>5. \A i \in DOMAIN r : r[i].op = "send" => /\ i # 1 => r[i].at = 0
                                              /\ r[i].at = 0 => r[i].stale = {}
                                              /\ r[i].stale \subseteq gone
  BY <1>2 DEF IsQueue
<1> QED BY <1>2, <1>3, <1>4, <1>5 DEF IsQueue, r

\* What a connection that is not waiting does leaves the queue alone.
LEMMA QueueOthers ==
  ASSUME NEW s, NEW ph, NEW gone, IsQueue(s, ph, gone), NEW ph2, NEW gone2,
         gone \subseteq gone2,
         \A i \in DOMAIN s : s[i].op # "send" => ph2[s[i].who] = ph[s[i].who]
  PROVE  IsQueue(s, ph2, gone2)
<1>1. \A i \in DOMAIN s : s[i].op \in {"join", "leave"} => s[i].op # "send"
  OBVIOUS
<1>2. \A i \in DOMAIN s : /\ s[i].op = "join" => ph2[s[i].who] = "joining"
                          /\ s[i].op = "leave" => ph2[s[i].who] = "leaving"
  BY <1>1 DEF IsQueue
<1> QED BY <1>2 DEF IsQueue

-----------------------------------------------------------------------------
(* What a step that does not touch the broadcast under way keeps. *)

\* The alert a is in a broadcast that waits for the lock.
Queued(a) ==
  \E i \in DOMAIN lockq : lockq[i].op = "send" /\ lockq[i].at = 0 /\ a \in AlertsIn(lockq[i].msgs)

LEMMA OwedStays ==
  ASSUME OwedInv, store \subseteq store', owed' \subseteq owed,
         \A p \in owed' : /\ phase'[p[1]] = phase[p[1]] /\ p[1] \notin dead'
                          /\ filt'[p[1]] = filt[p[1]],
         \A p \in owed' : Received(p[1], p[2]) \/ Waiting(p[2]) \/ Ahead(p[1], p[2]) =>
                          Received(p[1], p[2])' \/ Waiting(p[2])' \/ Ahead(p[1], p[2])'
  PROVE  OwedInv'
<1> SUFFICES ASSUME NEW p \in owed'
             PROVE  /\ p \in Clients \X Alerts /\ p[2] \in store'
                    /\ phase'[p[1]] = "in" /\ p[1] \notin dead'
                    /\ Matches(filt'[p[1]], AlertMsg(p[2]))
                    /\ Received(p[1], p[2])' \/ Waiting(p[2])' \/ Ahead(p[1], p[2])'
  BY Zenon DEF OwedInv
<1>1. /\ p \in Clients \X Alerts /\ p[2] \in store
      /\ phase[p[1]] = "in" /\ p[1] \notin dead /\ Matches(filt[p[1]], AlertMsg(p[2]))
      /\ Received(p[1], p[2]) \/ Waiting(p[2]) \/ Ahead(p[1], p[2])
  BY Zenon DEF OwedInv
<1>2. Matches(filt'[p[1]], AlertMsg(p[2]))
  BY <1>1, Zenon
<1> QED BY <1>1, <1>2, Zenon

\* A task at the end of the queue changes nothing for the one at its head.
LEMMA AppendKeepsFeed ==
  ASSUME QueueInv, FeedInv, NEW t \in Tasks, t.op = "send" => t.at = 0,
         lockq' = Append(lockq, t), UNCHANGED <<conns, histVars>>
  PROVE  /\ FeedInv'
         /\ \A c, a : Ahead(c, a) => Ahead(c, a)'
         /\ \A c, a : Received(c, a) => Received(c, a)'
         /\ \A a : Queued(a) => Queued(a)'
         /\ t.op = "send" => \A a \in AlertsIn(t.msgs) : Queued(a)'
<1> DEFINE z == Len(lockq) + 1
<1>1. lockq \in Seq(Tasks)
  BY DEF QueueInv, IsQueue
<1>2. /\ DOMAIN lockq' = DOMAIN lockq \cup {z} /\ lockq' # <<>>
      /\ \A i \in DOMAIN lockq : lockq'[i] = lockq[i]
      /\ lockq'[z] = t
      /\ lockq # <<>> => 1 \in DOMAIN lockq
      /\ lockq = <<>> => z = 1
  BY <1>1, AppendFacts
<1> HIDE DEF z
<1>3. Running' => Running /\ lockq'[1] = lockq[1]
  BY <1>2 DEF Running
<1>4. Running => Running' /\ lockq'[1] = lockq[1]
  BY <1>2 DEF Running
<1>5. UNCHANGED <<conns, published, got>>
  BY DEF histVars
<1>6. FeedInv'
  <2>1. CASE Running'
    <3>1. /\ lockq'[1] = lockq[1] /\ conns' = conns /\ published' = published /\ got' = got
          /\ Running
      BY <1>3, <1>5, <2>1
    <3> QED BY <2>1, <3>1, Zenon DEF FeedInv, Places, ConnAt, MsgAt
  <2>2. CASE ~Running'
    BY <1>5, <2>2, Zenon DEF FeedInv
  <2> QED BY <2>1, <2>2
<1>7. \A c, a : Ahead(c, a) => Ahead(c, a)'
  <2> SUFFICES ASSUME NEW c, NEW a, Ahead(c, a) PROVE Ahead(c, a)'
    OBVIOUS
  <2>1. /\ lockq'[1] = lockq[1] /\ conns' = conns /\ Running'
    BY <1>4, <1>5 DEF Ahead
  <2> QED BY <2>1, Zenon DEF Ahead, AheadOf, Places, ConnAt, MsgAt
<1>8. \A c, a : Received(c, a) => Received(c, a)'
  BY <1>5 DEF Received
<1>9. \A a : Queued(a) => Queued(a)'
  BY <1>2 DEF Queued
<1>10. t.op = "send" => \A a \in AlertsIn(t.msgs) : Queued(a)'
  BY <1>2 DEF Queued
<1> QED BY <1>6, <1>7, <1>8, <1>9, <1>10

LEMMA SameKeepsFeed ==
  ASSUME FeedInv, UNCHANGED <<lockq, conns, histVars>>
  PROVE  /\ FeedInv'
         /\ \A c, a : Ahead(c, a) => Ahead(c, a)'
         /\ \A c, a : Received(c, a) => Received(c, a)'
         /\ \A a : Queued(a) => Queued(a)'
BY DEF FeedInv, Ahead, Received, Queued, Running, AheadOf, Places, ConnAt, MsgAt, histVars

LEMMA WaitingStays ==
  ASSUME UNCHANGED <<soon, rest>>, \A a : Queued(a) => Queued(a)'
  PROVE  \A a : Waiting(a) => Waiting(a)'
BY DEF Waiting, Queued

\* A task that has not begun, of a connection or a broadcast, joins the queue.
LEMMA OwedAfterAppend ==
  ASSUME HubInv, NEW t \in Tasks, t.op = "send" => t.at = 0, lockq' = Append(lockq, t),
         UNCHANGED <<conns, dead, filt, soon, rest, store, histVars, owed>>,
         \A c \in Clients : phase[c] = "in" /\ c \notin dead => phase'[c] = phase[c]
  PROVE  FeedInv' /\ OwedInv'
<1>1. /\ FeedInv'
      /\ \A c, a : Ahead(c, a) => Ahead(c, a)'
      /\ \A c, a : Received(c, a) => Received(c, a)'
      /\ \A a : Queued(a) => Queued(a)'
  BY AppendKeepsFeed DEF HubInv
<1>2. \A a : Waiting(a) => Waiting(a)'
  BY <1>1, WaitingStays
<1>3. \A p \in owed' : /\ phase'[p[1]] = phase[p[1]] /\ p[1] \notin dead'
                       /\ filt'[p[1]] = filt[p[1]]
  <2> SUFFICES ASSUME NEW p \in owed
               PROVE  phase'[p[1]] = phase[p[1]] /\ p[1] \notin dead
    OBVIOUS
  <2>1. p \in Clients \X Alerts /\ phase[p[1]] = "in" /\ p[1] \notin dead
    BY Zenon DEF HubInv, OwedInv
  <2>2. p[1] \in Clients
    BY <2>1
  <2> QED BY <2>1, <2>2, Zenon
<1>4. OwedInv'
  <2>1. OwedInv /\ store \subseteq store' /\ owed' \subseteq owed
    BY DEF HubInv
  <2> QED BY <1>1, <1>2, <1>3, <2>1, OwedStays, Zenon
<1> QED BY <1>1, <1>4

-----------------------------------------------------------------------------
(* The connections. *)

LEMMA ConnectKeeps ==
  ASSUME HubInv, NEW c \in Clients, Connect(c)
  PROVE  HubInv'
<1>1. /\ phase[c] = "out" /\ phase' = [phase EXCEPT ![c] = "joining"]
      /\ lockq' = Append(lockq, Join(c))
      /\ UNCHANGED <<dead, filt, conns, soon, store, rest, diagnosed, histVars, owed>>
  BY DEF Connect, sendVars
<1>2. ConnInv'
  BY <1>1 DEF HubInv, ConnInv
<1>3. phase \in [Clients -> {"out", "joining", "in", "leaving", "done"}]
  BY DEF HubInv, ConnInv
<1>4. \A i \in DOMAIN lockq : lockq[i].op # "send" => lockq[i].who # c /\ lockq[i].who \in Clients
  <2> SUFFICES ASSUME NEW i \in DOMAIN lockq, lockq[i].op # "send"
               PROVE  lockq[i].who # c /\ lockq[i].who \in Clients
    OBVIOUS
  <2>1. lockq[i] \in Tasks
    BY DEF HubInv, QueueInv, IsQueue
  <2>2. lockq[i].op \in {"join", "leave"} /\ lockq[i].who \in Clients
    BY <2>1, TaskForms
  <2> QED BY <1>1, <2>2 DEF HubInv, QueueInv, IsQueue
<1>5. IsQueue(lockq, phase', dead')
  <2>1. \A i \in DOMAIN lockq : lockq[i].op # "send" => phase'[lockq[i].who] = phase[lockq[i].who]
    BY <1>1, <1>3, <1>4
  <2> QED BY <1>1, <2>1, QueueOthers DEF HubInv, QueueInv
<1>6. /\ Join(c) \in Tasks /\ Join(c).op = "join" /\ Join(c).who = c /\ Join(c).op # "send"
      /\ phase'[c] = "joining"
  BY <1>1, <1>3, TaskForms DEF Join
<1>7. QueueInv'
  <2>1. IsQueue(Append(lockq, Join(c)), phase', dead')
    BY <1>4, <1>5, <1>6, QueueGrows
  <2> QED BY <1>1, <2>1 DEF QueueInv
<1>8. SenderInv'
  BY <1>1 DEF HubInv, SenderInv
<1>9. FeedInv' /\ OwedInv'
  BY <1>1, <1>3, <1>6, OwedAfterAppend
<1> QED BY <1>2, <1>7, <1>8, <1>9 DEF HubInv

LEMMA DisconnectKeeps ==
  ASSUME HubInv, NEW c \in Clients, Disconnect(c)
  PROVE  HubInv'
<1>1. /\ phase[c] = "in" /\ c \in dead /\ phase' = [phase EXCEPT ![c] = "leaving"]
      /\ lockq' = Append(lockq, Leave(c))
      /\ UNCHANGED <<dead, filt, conns, soon, store, rest, diagnosed, histVars, owed>>
  BY DEF Disconnect, sendVars
<1>2. ConnInv'
  BY <1>1 DEF HubInv, ConnInv
<1>3. phase \in [Clients -> {"out", "joining", "in", "leaving", "done"}]
  BY DEF HubInv, ConnInv
<1>4. \A i \in DOMAIN lockq : lockq[i].op # "send" => lockq[i].who # c /\ lockq[i].who \in Clients
  <2> SUFFICES ASSUME NEW i \in DOMAIN lockq, lockq[i].op # "send"
               PROVE  lockq[i].who # c /\ lockq[i].who \in Clients
    OBVIOUS
  <2>1. lockq[i] \in Tasks
    BY DEF HubInv, QueueInv, IsQueue
  <2>2. lockq[i].op \in {"join", "leave"} /\ lockq[i].who \in Clients
    BY <2>1, TaskForms
  <2> QED BY <1>1, <2>2 DEF HubInv, QueueInv, IsQueue
<1>5. IsQueue(lockq, phase', dead')
  <2>1. \A i \in DOMAIN lockq : lockq[i].op # "send" => phase'[lockq[i].who] = phase[lockq[i].who]
    BY <1>1, <1>3, <1>4
  <2> QED BY <1>1, <2>1, QueueOthers DEF HubInv, QueueInv
<1>6. /\ Leave(c) \in Tasks /\ Leave(c).op = "leave" /\ Leave(c).who = c /\ Leave(c).op # "send"
      /\ phase'[c] = "leaving"
  BY <1>1, <1>3, TaskForms DEF Leave
<1>7. QueueInv'
  <2>1. IsQueue(Append(lockq, Leave(c)), phase', dead')
    BY <1>4, <1>5, <1>6, QueueGrows
  <2> QED BY <1>1, <2>1 DEF QueueInv
<1>8. SenderInv'
  BY <1>1 DEF HubInv, SenderInv
<1>9. FeedInv' /\ OwedInv'
  BY <1>1, <1>3, <1>6, OwedAfterAppend
<1> QED BY <1>2, <1>7, <1>8, <1>9 DEF HubInv

\* A connection that is lost, or changes its filter, is owed no alert of before.
LEMMA NotOwedStays ==
  ASSUME HubInv, NEW c, NotOwed({c}, {}),
         UNCHANGED <<phase, conns, lockq, soon, rest, store, histVars>>,
         \A x \in Clients \ {c} : (x \in dead' => x \in dead) /\ filt'[x] = filt[x]
  PROVE  FeedInv' /\ OwedInv'
<1>1. /\ FeedInv'
      /\ \A x, a : Ahead(x, a) => Ahead(x, a)'
      /\ \A x, a : Received(x, a) => Received(x, a)'
      /\ \A a : Queued(a) => Queued(a)'
  BY SameKeepsFeed DEF HubInv
<1>2. \A a : Waiting(a) => Waiting(a)'
  BY <1>1, WaitingStays
<1>3. owed' \subseteq owed /\ \A p \in owed' : p[1] # c
  BY DEF NotOwed
<1>4. \A p \in owed' : /\ phase'[p[1]] = phase[p[1]] /\ p[1] \notin dead'
                       /\ filt'[p[1]] = filt[p[1]]
  <2> SUFFICES ASSUME NEW p \in owed' PROVE p[1] \notin dead' /\ filt'[p[1]] = filt[p[1]]
    OBVIOUS
  <2>1. p \in Clients \X Alerts /\ p[1] \notin dead /\ p[1] # c
    BY <1>3, Zenon DEF HubInv, OwedInv
  <2>2. p[1] \in Clients
    BY <2>1
  <2> QED BY <2>1, <2>2, Zenon
<1>5. OwedInv'
  <2>1. OwedInv /\ store \subseteq store'
    BY DEF HubInv
  <2> QED BY <1>1, <1>2, <1>3, <1>4, <2>1, OwedStays, Zenon
<1> QED BY <1>1, <1>5

LEMMA DieKeeps ==
  ASSUME HubInv, NEW c \in Clients, Die(c)
  PROVE  HubInv'
<1>1. /\ dead' = dead \cup {c} /\ NotOwed({c}, {})
      /\ UNCHANGED <<phase, filt, conns, lockq, soon, store, rest, diagnosed, histVars>>
  BY DEF Die, sendVars
<1>2. ConnInv'
  BY <1>1 DEF HubInv, ConnInv
<1>3. QueueInv'
  BY <1>1, QueueOthers DEF HubInv, QueueInv
<1>4. SenderInv'
  BY <1>1 DEF HubInv, SenderInv
<1>5. FeedInv' /\ OwedInv'
  BY <1>1, NotOwedStays
<1> QED BY <1>2, <1>3, <1>4, <1>5 DEF HubInv

LEMMA SetFilterKeeps ==
  ASSUME HubInv, NEW c \in Clients, SetFilter(c)
  PROVE  HubInv'
<1>1. /\ \E f \in Filters : filt' = [filt EXCEPT ![c] = f]
      /\ NotOwed({c}, {})
      /\ UNCHANGED <<phase, dead, conns, lockq, soon, store, rest, diagnosed, histVars>>
  BY DEF SetFilter, sendVars
<1>2. ConnInv'
  BY <1>1 DEF HubInv, ConnInv
<1>3. QueueInv'
  BY <1>1 DEF HubInv, QueueInv
<1>4. SenderInv'
  BY <1>1 DEF HubInv, SenderInv
<1>5. \A x \in Clients \ {c} : filt'[x] = filt[x]
  BY <1>1 DEF HubInv, ConnInv
<1>6. FeedInv' /\ OwedInv'
  BY <1>1, <1>5, NotOwedStays
<1> QED BY <1>2, <1>3, <1>4, <1>6 DEF HubInv

-----------------------------------------------------------------------------
(* The senders. *)

\* The alert of one message.
LEMMA OneAlert ==
  ASSUME NEW a \in Alerts
  PROVE  /\ AlertMsg(a) \in Messages /\ AlertMsg(a).kind = "alert" /\ AlertMsg(a).of = a
         /\ <<AlertMsg(a)>> \in Seq(Messages) /\ a \in AlertsIn(<<AlertMsg(a)>>)
<1>1. AlertMsg(a) \in Messages /\ AlertMsg(a).kind = "alert" /\ AlertMsg(a).of = a
  BY DEF AlertMsg, Messages
<1>2. <<AlertMsg(a)>> \in Seq(Messages)
  BY <1>1
<1>3. 1 \in DOMAIN <<AlertMsg(a)>> /\ <<AlertMsg(a)>>[1] = AlertMsg(a)
  OBVIOUS
<1>4. a \in AlertsIn(<<AlertMsg(a)>>)
  BY <1>1, <1>3, Zenon DEF AlertsIn
<1> QED BY <1>1, <1>2, <1>4

LEMMA StatusesType == Statuses \in Seq(Messages)
<1> DEFINE Orders == {s \in [1..Cardinality(Nodes) -> Nodes] :
                        \A n \in Nodes : \E i \in DOMAIN s : s[i] = n}
           order == CHOOSE s \in Orders : TRUE
<1>1. Cardinality(Nodes) \in Nat /\ ExistsBijection(1..Cardinality(Nodes), Nodes)
  BY HubAssumption, FS_CardinalityType
<1>2. PICK f \in Bijection(1..Cardinality(Nodes), Nodes) : TRUE
  BY <1>1 DEF ExistsBijection
<1>3. f \in Orders
  BY <1>2 DEF Bijection, Surjection, Injection
<1>4. order \in Orders
  BY <1>3, Zenon
<1>5. order \in [1..Cardinality(Nodes) -> Nodes]
  BY <1>4
<1>6. Statuses = [i \in DOMAIN order |-> [kind |-> "summary", of |-> order[i]]]
  BY DEF Statuses
<1> HIDE DEF order
<1>7. Statuses \in [1..Cardinality(Nodes) -> Messages]
  BY <1>5, <1>6 DEF Messages
<1> QED BY <1>1, <1>7

\* A broadcast joins the queue, and the connections stay as they are.
LEMMA BroadcastJoins ==
  ASSUME HubInv, NEW by \in Loops \cup {"grpc"}, NEW msgs \in Seq(Messages),
         lockq' = Append(lockq, Broadcast(by, msgs)), UNCHANGED <<connVars, conns, histVars>>
  PROVE  /\ ConnInv' /\ QueueInv' /\ FeedInv'
         /\ \A c, a : Ahead(c, a) => Ahead(c, a)'
         /\ \A c, a : Received(c, a) => Received(c, a)'
         /\ \A a : Queued(a) => Queued(a)'
         /\ \A a \in AlertsIn(msgs) : Queued(a)'
<1> DEFINE t == Broadcast(by, msgs)
<1>1. t \in Tasks /\ t.op = "send" /\ t.at = 0 /\ t.stale = {} /\ t.msgs = msgs
  BY TaskForms DEF Broadcast
<1> HIDE DEF t
<1>2. lockq' = Append(lockq, t)
  BY DEF t
<1>3. /\ FeedInv'
      /\ \A c, a : Ahead(c, a) => Ahead(c, a)'
      /\ \A c, a : Received(c, a) => Received(c, a)'
      /\ \A a : Queued(a) => Queued(a)'
      /\ \A a \in AlertsIn(msgs) : Queued(a)'
  <2>1. /\ FeedInv'
        /\ \A c, a : Ahead(c, a) => Ahead(c, a)'
        /\ \A c, a : Received(c, a) => Received(c, a)'
        /\ \A a : Queued(a) => Queued(a)'
        /\ t.op = "send" => \A a \in AlertsIn(t.msgs) : Queued(a)'
    BY <1>1, <1>2, AppendKeepsFeed DEF HubInv
  <2> QED BY <1>1, <2>1
<1>4. ConnInv'
  BY DEF HubInv, ConnInv, connVars
<1>5. IsQueue(Append(lockq, t), phase, dead)
  <2>1. t.op # "join" /\ t.op # "leave"
    BY <1>1
  <2> QED BY <1>1, <2>1, QueueGrows DEF HubInv, QueueInv
<1>6. QueueInv'
  BY <1>2, <1>5 DEF QueueInv, connVars
<1> QED BY <1>3, <1>4, <1>6

\* An alert that is stored is owed to the connections that are in and well.
LEMMA OwedGrows ==
  ASSUME HubInv, NEW as \in SUBSET Alerts, store' = store \cup as,
         owed' = owed \cup OwedFor(as), UNCHANGED connVars,
         \A p \in owed : Received(p[1], p[2]) \/ Waiting(p[2]) \/ Ahead(p[1], p[2]) =>
                         Received(p[1], p[2])' \/ Waiting(p[2])' \/ Ahead(p[1], p[2])',
         \A a \in as : Waiting(a)'
  PROVE  OwedInv'
<1>1. UNCHANGED <<phase, dead, filt>>
  BY DEF connVars
<1> SUFFICES ASSUME NEW p \in owed'
             PROVE  /\ p \in Clients \X Alerts /\ p[2] \in store'
                    /\ phase'[p[1]] = "in" /\ p[1] \notin dead'
                    /\ Matches(filt'[p[1]], AlertMsg(p[2]))
                    /\ Received(p[1], p[2])' \/ Waiting(p[2])' \/ Ahead(p[1], p[2])'
  BY Zenon DEF OwedInv
<1>2. CASE p \in owed
  <2>1. /\ p \in Clients \X Alerts /\ p[2] \in store
        /\ phase[p[1]] = "in" /\ p[1] \notin dead /\ Matches(filt[p[1]], AlertMsg(p[2]))
        /\ Received(p[1], p[2]) \/ Waiting(p[2]) \/ Ahead(p[1], p[2])
    BY <1>2, Zenon DEF HubInv, OwedInv
  <2>2. p[2] \in store'
    BY <2>1
  <2> QED BY <1>1, <1>2, <2>1, <2>2, Zenon
<1>3. CASE p \in OwedFor(as)
  <2>1. /\ p \in Clients \X as /\ phase[p[1]] = "in" /\ p[1] \notin dead
        /\ Matches(filt[p[1]], AlertMsg(p[2]))
    BY <1>3, Zenon DEF OwedFor
  <2>2. p \in Clients \X Alerts /\ p[2] \in as
    BY <2>1
  <2> QED BY <1>1, <2>1, <2>2, Zenon
<1> QED BY <1>2, <1>3

LEMMA ReportAlertKeeps ==
  ASSUME HubInv, NEW a \in Alerts, ReportAlert(a)
  PROVE  HubInv'
<1>1. /\ store' = store \cup {a} /\ soon' = Append(soon, a) /\ owed' = owed \cup OwedFor({a})
      /\ UNCHANGED <<connVars, conns, lockq, rest, diagnosed, histVars>>
  BY DEF ReportAlert
<1>2. /\ FeedInv'
      /\ \A x, b : Ahead(x, b) => Ahead(x, b)'
      /\ \A x, b : Received(x, b) => Received(x, b)'
      /\ \A b : Queued(b) => Queued(b)'
  BY <1>1, SameKeepsFeed DEF HubInv
<1>3. /\ soon' \in Seq(Alerts) /\ DOMAIN soon' = DOMAIN soon \cup {Len(soon) + 1}
      /\ \A i \in DOMAIN soon : soon'[i] = soon[i]
      /\ soon'[Len(soon) + 1] = a
  BY <1>1, AppendFacts DEF HubInv, SenderInv
<1>4. (\A b : Waiting(b) => Waiting(b)') /\ Waiting(a)'
  BY <1>1, <1>2, <1>3 DEF Waiting, Queued
<1>5. ConnInv' /\ QueueInv'
  BY <1>1 DEF HubInv, ConnInv, QueueInv, connVars
<1>6. SenderInv'
  BY <1>1, <1>3 DEF HubInv, SenderInv
<1>7. OwedInv'
  BY <1>1, <1>2, <1>4, OwedGrows
<1> QED BY <1>2, <1>5, <1>6, <1>7 DEF HubInv

LEMMA ScheduleKeeps ==
  ASSUME HubInv, ScheduleBroadcast
  PROVE  HubInv'
<1>1. /\ soon # <<>> /\ soon' = Tail(soon)
      /\ lockq' = Append(lockq, Broadcast("grpc", <<AlertMsg(soon[1])>>))
      /\ UNCHANGED <<connVars, conns, store, rest, diagnosed, histVars, owed>>
  BY DEF ScheduleBroadcast
<1>2. /\ Tail(soon) \in Seq(Alerts) /\ soon[1] \in Alerts
      /\ \A i \in DOMAIN soon : i # 1 => i - 1 \in DOMAIN Tail(soon) /\ Tail(soon)[i - 1] = soon[i]
  BY <1>1 DEF HubInv, SenderInv
<1>3. /\ ConnInv' /\ QueueInv' /\ FeedInv'
      /\ \A c, a : Ahead(c, a) => Ahead(c, a)'
      /\ \A c, a : Received(c, a) => Received(c, a)'
      /\ \A a : Queued(a) => Queued(a)'
      /\ \A a \in AlertsIn(<<AlertMsg(soon[1])>>) : Queued(a)'
  <2>1. "grpc" \in Loops \cup {"grpc"} /\ <<AlertMsg(soon[1])>> \in Seq(Messages)
    BY <1>2, OneAlert
  <2> QED BY <1>1, <2>1, BroadcastJoins
<1>4. PICK first \in Alerts : first = soon[1] /\ Queued(first)'
  <2>1. PICK first \in Alerts : first = soon[1]
    BY <1>2
  <2>2. first \in AlertsIn(<<AlertMsg(soon[1])>>)
    BY <2>1, OneAlert
  <2> QED BY <1>3, <2>1, <2>2
<1>5. \A a : Waiting(a) => Waiting(a)'
  <2> SUFFICES ASSUME NEW a, Waiting(a) PROVE Waiting(a)'
    OBVIOUS
  <2>1. CASE \E i \in DOMAIN soon : soon[i] = a
    <3>1. PICK i \in DOMAIN soon : soon[i] = a
      BY <2>1
    <3>2. CASE i = 1
      BY <1>4, <3>1, <3>2 DEF Waiting, Queued
    <3>3. CASE i # 1
      BY <1>1, <1>2, <3>1, <3>3 DEF Waiting
    <3> QED BY <3>2, <3>3
  <2>2. CASE \E i \in DOMAIN rest["detector"] : rest["detector"][i].of = a
    BY <1>1, <2>2 DEF Waiting
  <2>3. CASE Queued(a)
    BY <1>3, <2>3 DEF Waiting, Queued
  <2> QED BY <2>1, <2>2, <2>3 DEF Waiting, Queued
<1>6. SenderInv'
  BY <1>1, <1>2 DEF HubInv, SenderInv
<1>7. OwedInv'
  <2>1. \A p \in owed' : /\ phase'[p[1]] = phase[p[1]] /\ p[1] \notin dead'
                         /\ filt'[p[1]] = filt[p[1]]
    BY <1>1 DEF HubInv, OwedInv, connVars
  <2>2. OwedInv /\ store \subseteq store' /\ owed' \subseteq owed
    BY <1>1 DEF HubInv
  <2> QED BY <1>3, <1>5, <2>1, <2>2, OwedStays, Zenon
<1> QED BY <1>3, <1>6, <1>7 DEF HubInv

\* A pass of the detectors: the first finding is broadcast, the others wait.
LEMMA DetectorPassKeeps ==
  ASSUME HubInv, DetectorPass
  PROVE  HubInv'
<1>1. PICK found \in {s \in UNION {[1..n -> Alerts \ store] : n \in 1..Budget} :
                        \A i, k \in DOMAIN s : s[i] = s[k] => i = k} :
        LET as == {found[i] : i \in DOMAIN found} IN
        /\ store' = store \cup as
        /\ rest' = [rest EXCEPT !["detector"] =
                      [i \in 1..(Len(found) - 1) |-> AlertMsg(found[i + 1])]]
        /\ lockq' = Append(lockq, Broadcast("detector", <<AlertMsg(found[1])>>))
        /\ owed' = owed \cup OwedFor(as)
  BY Zenon DEF DetectorPass
<1>1a. PICK n \in 1..Budget : found \in [1..n -> Alerts \ store]
  BY Zenon
<1>2. /\ Asleep("detector")
      /\ UNCHANGED <<connVars, conns, soon, diagnosed, summaries, faults, histVars>>
  BY DEF DetectorPass
<1>3. n \in Nat \ {0} /\ found \in Seq(Alerts) /\ Len(found) = n /\ DOMAIN found = 1..n
  BY <1>1a
<1> DEFINE as == {found[i] : i \in DOMAIN found}
           others == [i \in 1..(n - 1) |-> AlertMsg(found[i + 1])]
<1>4. /\ store' = store \cup as /\ owed' = owed \cup OwedFor(as)
      /\ rest' = [rest EXCEPT !["detector"] = others]
      /\ lockq' = Append(lockq, Broadcast("detector", <<AlertMsg(found[1])>>))
  BY <1>1, <1>3
<1>5. as \subseteq Alerts /\ found[1] \in Alerts
  BY <1>3
<1>6. \A i \in 1..(n - 1) : /\ i + 1 \in 1..n /\ others[i].kind = "alert"
                            /\ others[i].of = found[i + 1] /\ others[i] \in Messages
  <2> SUFFICES ASSUME NEW i \in 1..(n - 1)
               PROVE  /\ i + 1 \in 1..n /\ others[i].kind = "alert"
                      /\ others[i].of = found[i + 1] /\ others[i] \in Messages
    OBVIOUS
  <2>1. i + 1 \in 1..n
    BY <1>3
  <2>2. found[i + 1] \in Alerts /\ others[i] = AlertMsg(found[i + 1])
    BY <1>3, <2>1
  <2> QED BY <2>1, <2>2, OneAlert
<1>7. DOMAIN others = 1..(n - 1) /\ others \in Seq(Messages)
  <2>1. others \in [1..(n - 1) -> Messages]
    BY <1>6
  <2>2. n - 1 \in Nat
    BY <1>3
  <2> HIDE DEF others
  <2> QED BY <2>1, <2>2
<1> HIDE DEF as, others
<1>8. /\ rest \in [Loops -> Seq(Messages)] /\ "detector" \in Loops /\ rest["detector"] = <<>>
  BY <1>2 DEF HubInv, SenderInv, Loops, Asleep
<1>9. rest' \in [Loops -> Seq(Messages)] /\ rest'["detector"] = others
  BY <1>4, <1>7, <1>8
<1>10. /\ ConnInv' /\ QueueInv' /\ FeedInv'
       /\ \A c, a : Ahead(c, a) => Ahead(c, a)'
       /\ \A c, a : Received(c, a) => Received(c, a)'
       /\ \A a : Queued(a) => Queued(a)'
       /\ \A a \in AlertsIn(<<AlertMsg(found[1])>>) : Queued(a)'
  <2>1. "detector" \in Loops \cup {"grpc"} /\ <<AlertMsg(found[1])>> \in Seq(Messages)
    BY <1>5, OneAlert DEF Loops
  <2> QED BY <1>2, <1>4, <2>1, BroadcastJoins
<1>11. \A a : Waiting(a) => Waiting(a)'
  <2>1. ~ \E i \in DOMAIN rest["detector"] : TRUE
    BY <1>8
  <2>2. soon' = soon
    BY <1>2
  <2> QED BY <1>10, <2>1, <2>2, Zenon DEF Waiting, Queued
<1>12. ASSUME NEW a \in as PROVE Waiting(a)'
  <2>1. PICK i \in 1..n : a = found[i]
    BY <1>3 DEF as
  <2>2. CASE i = 1
    <3>1. a \in AlertsIn(<<AlertMsg(found[1])>>)
      BY <1>5, <2>1, <2>2, OneAlert
    <3> QED BY <1>10, <3>1 DEF Waiting, Queued
  <2>3. CASE i # 1
    <3>1. i - 1 \in 1..(n - 1) /\ (i - 1) + 1 = i
      BY <1>3, <2>3
    <3>2. i - 1 \in DOMAIN rest'["detector"] /\ rest'["detector"][i - 1].of = a
      BY <1>6, <1>7, <1>9, <2>1, <3>1
    <3> QED BY <3>2 DEF Waiting
  <2> QED BY <2>2, <2>3
<1>13. SenderInv'
  BY <1>2, <1>4, <1>5, <1>6, <1>7, <1>9 DEF HubInv, SenderInv
<1>14. OwedInv'
  BY <1>2, <1>4, <1>5, <1>10, <1>11, <1>12, OwedGrows
<1> QED BY <1>10, <1>13, <1>14 DEF HubInv

LEMMA DetectorFailsKeeps ==
  ASSUME HubInv, DetectorFails
  PROVE  HubInv'
<1>1. /\ \E a \in Alerts : store' = store \cup {a}
      /\ UNCHANGED <<connVars, conns, lockq, soon, rest, diagnosed, histVars, owed>>
  BY DEF DetectorFails
<1>2. /\ FeedInv'
      /\ \A x, b : Ahead(x, b) => Ahead(x, b)'
      /\ \A x, b : Received(x, b) => Received(x, b)'
      /\ \A b : Queued(b) => Queued(b)'
  BY <1>1, SameKeepsFeed DEF HubInv
<1>3. \A b : Waiting(b) => Waiting(b)'
  BY <1>1, <1>2, WaitingStays
<1>4. ConnInv' /\ QueueInv'
  BY <1>1 DEF HubInv, ConnInv, QueueInv, connVars
<1>5. SenderInv'
  BY <1>1 DEF HubInv, SenderInv
<1>6. OwedInv'
  <2>1. \A p \in owed' : /\ phase'[p[1]] = phase[p[1]] /\ p[1] \notin dead'
                         /\ filt'[p[1]] = filt[p[1]]
    BY <1>1 DEF HubInv, OwedInv, connVars
  <2>2. OwedInv /\ store \subseteq store' /\ owed' \subseteq owed
    BY <1>1 DEF HubInv
  <2> QED BY <1>2, <1>3, <2>1, <2>2, OwedStays, Zenon
<1> QED BY <1>2, <1>4, <1>5, <1>6 DEF HubInv

\* A diagnosis or a summary.
LEMMA OtherBroadcastKeeps ==
  ASSUME HubInv, NEW by \in Loops \cup {"grpc"}, NEW msgs \in Seq(Messages),
         lockq' = Append(lockq, Broadcast(by, msgs)), diagnosed' \subseteq Alerts,
         UNCHANGED <<connVars, conns, soon, store, rest, histVars, owed>>
  PROVE  HubInv'
<1>1. ConnInv' /\ QueueInv'
  BY BroadcastJoins
<1>2. SenderInv'
  BY DEF HubInv, SenderInv
<1>3. FeedInv' /\ OwedInv'
  <2> DEFINE t == Broadcast(by, msgs)
  <2>1. t \in Tasks /\ t.at = 0
    BY TaskForms DEF Broadcast
  <2> HIDE DEF t
  <2>2. lockq' = Append(lockq, t)
    BY DEF t
  <2>3. UNCHANGED <<conns, dead, filt, soon, rest, store, histVars, owed>> /\ phase' = phase
    BY DEF connVars
  <2> QED BY <2>1, <2>2, <2>3, OwedAfterAppend
<1> QED BY <1>1, <1>2, <1>3 DEF HubInv

LEMMA DiagnosisReadyKeeps ==
  ASSUME HubInv, NEW a \in Alerts, DiagnosisReady(a)
  PROVE  HubInv'
<1> DEFINE m == [kind |-> "diagnosis", of |-> a]
<1>1. /\ diagnosed' = diagnosed \cup {a}
      /\ lockq' = Append(lockq, Broadcast("diagnosis", <<m>>))
      /\ UNCHANGED <<connVars, conns, soon, store, rest, histVars, owed>>
  BY DEF DiagnosisReady
<1>2. m \in Messages
  BY DEF Messages
<1> HIDE DEF m
<1>3. <<m>> \in Seq(Messages) /\ "diagnosis" \in Loops \cup {"grpc"}
  BY <1>2 DEF Loops
<1>4. diagnosed' \subseteq Alerts
  BY <1>1 DEF HubInv, SenderInv
<1> QED BY <1>1, <1>3, <1>4, OtherBroadcastKeeps

LEMMA SummaryTickKeeps ==
  ASSUME HubInv, SummaryTick
  PROVE  HubInv'
<1>1. /\ lockq' = Append(lockq, Broadcast("summary", Statuses))
      /\ UNCHANGED <<connVars, conns, soon, store, rest, diagnosed, histVars, owed>>
  BY DEF SummaryTick
<1>2. Statuses \in Seq(Messages) /\ "summary" \in Loops \cup {"grpc"}
  BY StatusesType DEF Loops
<1>3. diagnosed' \subseteq Alerts
  BY <1>1 DEF HubInv, SenderInv
<1> QED BY <1>1, <1>2, <1>3, OtherBroadcastKeeps

-----------------------------------------------------------------------------
(* The task that has the lock. *)

LEMMA HeadLeaves ==
  ASSUME QueueInv, lockq # <<>>, NEW r, r = RemoveAt(lockq, 1)
  PROVE  /\ IsQueue(r, phase, dead)
         /\ \A i \in DOMAIN r : /\ r[i].op = "send" => r[i].at = 0
                                /\ i + 1 \in DOMAIN lockq /\ i + 1 # 1 /\ r[i] = lockq[i + 1]
         /\ \A a : Queued(a) => \/ \E i \in DOMAIN r : /\ r[i].op = "send" /\ r[i].at = 0
                                                       /\ a \in AlertsIn(r[i].msgs)
                                \/ /\ lockq[1].op = "send" /\ lockq[1].at = 0
                                   /\ a \in AlertsIn(lockq[1].msgs)
<1>1. /\ IsQueue(r, phase, dead) /\ DOMAIN r = 1..(Len(lockq) - 1)
      /\ \A i \in DOMAIN r :
           /\ i + 1 \in DOMAIN lockq /\ i \in Nat \ {0}
           /\ r[i] = lockq[i + 1]
           /\ lockq[i + 1].op = "send" => lockq[i + 1].at = 0
  BY QueueShrinks DEF QueueInv
<1>2. lockq \in Seq(Tasks)
  BY DEF QueueInv, IsQueue
<1>3. \A i \in DOMAIN lockq : i # 1 => i - 1 \in DOMAIN r /\ (i - 1) + 1 = i
  BY <1>1, <1>2
<1>4. \A i \in DOMAIN r : i + 1 # 1
  BY <1>1
<1>5. ASSUME NEW a, Queued(a)
      PROVE  \/ \E i \in DOMAIN r : /\ r[i].op = "send" /\ r[i].at = 0
                                    /\ a \in AlertsIn(r[i].msgs)
             \/ /\ lockq[1].op = "send" /\ lockq[1].at = 0
                /\ a \in AlertsIn(lockq[1].msgs)
  <2>1. PICK i \in DOMAIN lockq :
          lockq[i].op = "send" /\ lockq[i].at = 0 /\ a \in AlertsIn(lockq[i].msgs)
    BY <1>5 DEF Queued
  <2>2. CASE i = 1
    BY <2>1, <2>2
  <2>3. CASE i # 1
    <3>1. i - 1 \in DOMAIN r /\ r[i - 1] = lockq[i]
      BY <1>1, <1>3, <2>3
    <3> QED BY <2>1, <3>1
  <2> QED BY <2>2, <2>3
<1> QED BY <1>1, <1>4, <1>5

\* A connection that waited gets the lock, to join or to leave.
LEMMA WaiterKeeps ==
  ASSUME HubInv, lockq # <<>>, lockq[1].op # "send", NEW v,
         phase' = [phase EXCEPT ![lockq[1].who] = v],
         lockq' = RemoveAt(lockq, 1),
         UNCHANGED <<dead, filt, soon, store, rest, diagnosed, histVars, owed>>
  PROVE  /\ QueueInv' /\ SenderInv' /\ FeedInv'
         /\ phase[lockq[1].who] \in {"joining", "leaving"} /\ lockq[1].who \in Clients
         /\ phase[lockq[1].who] # "in" => OwedInv'
<1> DEFINE c == lockq[1].who
<1>1. lockq \in Seq(Tasks) /\ 1 \in DOMAIN lockq
  <2>1. lockq \in Seq(Tasks)
    BY DEF HubInv, QueueInv, IsQueue
  <2>2. 1 \in DOMAIN lockq
    BY <2>1, AppendFacts
  <2> QED BY <2>1, <2>2
<1>2. lockq[1].op \in {"join", "leave"} /\ c \in Clients
  BY <1>1, TaskForms
<1>3. phase[c] \in {"joining", "leaving"}
  BY <1>1, <1>2 DEF HubInv, QueueInv, IsQueue
<1>4. phase \in [Clients -> {"out", "joining", "in", "leaving", "done"}]
  BY DEF HubInv, ConnInv
<1>5. /\ IsQueue(lockq', phase, dead)
      /\ \A i \in DOMAIN lockq' :
           /\ lockq'[i].op = "send" => lockq'[i].at = 0
           /\ i + 1 \in DOMAIN lockq /\ i + 1 # 1 /\ lockq'[i] = lockq[i + 1]
      /\ \A a : Queued(a) => Queued(a)'
  BY HeadLeaves DEF HubInv, Queued
<1>6. \A i \in DOMAIN lockq' :
        lockq'[i].op # "send" => lockq'[i].who # c /\ lockq'[i].who \in Clients
  <2> SUFFICES ASSUME NEW i \in DOMAIN lockq', lockq'[i].op # "send"
               PROVE  lockq'[i].who # c /\ lockq'[i].who \in Clients
    OBVIOUS
  <2>1. i + 1 \in DOMAIN lockq /\ i + 1 # 1 /\ lockq'[i] = lockq[i + 1]
    BY <1>5
  <2>2. lockq[i + 1].who # c
    BY <1>1, <2>1 DEF HubInv, QueueInv, IsQueue
  <2>3. lockq[i + 1] \in Tasks
    BY <1>1, <2>1
  <2> QED BY <2>1, <2>2, <2>3, TaskForms
<1>7. QueueInv'
  <2>1. \A i \in DOMAIN lockq' :
          lockq'[i].op # "send" => phase'[lockq'[i].who] = phase[lockq'[i].who]
    BY <1>4, <1>6
  <2>2. dead \subseteq dead' /\ IsQueue(lockq', phase, dead)
    BY <1>5
  <2>3. IsQueue(lockq', phase', dead')
    BY <2>1, <2>2 DEF IsQueue
  <2> QED BY <2>3 DEF QueueInv
<1>8. SenderInv'
  BY DEF HubInv, SenderInv
<1>9. ~Running'
  <2>1. lockq' # <<>> => 1 \in DOMAIN lockq'
    BY <1>5, AppendFacts DEF IsQueue
  <2> QED BY <1>5, <2>1 DEF Running
<1>10. FeedInv'
  BY <1>9 DEF HubInv, FeedInv, histVars
<1>11. ASSUME phase[c] # "in" PROVE OwedInv'
  <2>1. \A x, a : Received(x, a) => Received(x, a)'
    BY DEF Received, histVars
  <2>2. \A a : Waiting(a) => Waiting(a)'
    BY <1>5, WaitingStays
  <2>3. \A x, a : ~Ahead(x, a)
    BY DEF Ahead, Running
  <2>4. \A p \in owed' : /\ phase'[p[1]] = phase[p[1]] /\ p[1] \notin dead'
                         /\ filt'[p[1]] = filt[p[1]]
    <3> SUFFICES ASSUME NEW p \in owed PROVE phase'[p[1]] = phase[p[1]] /\ p[1] \notin dead
      OBVIOUS
    <3>1. p \in Clients \X Alerts /\ phase[p[1]] = "in" /\ p[1] \notin dead
      BY Zenon DEF HubInv, OwedInv
    <3> QED BY <1>4, <1>11, <3>1
  <2>5. OwedInv /\ store \subseteq store' /\ owed' \subseteq owed
    BY DEF HubInv
  <2> QED BY <2>1, <2>2, <2>3, <2>4, <2>5, OwedStays, Zenon
<1> QED BY <1>2, <1>3, <1>7, <1>8, <1>10, <1>11

LEMMA JoinedKeeps ==
  ASSUME HubInv, lockq # <<>>, Joined(1)
  PROVE  HubInv'
<1> DEFINE c == lockq[1].who
<1>1. /\ lockq[1].op # "send" /\ lockq[1].op = "join"
      /\ phase' = [phase EXCEPT ![c] = "in"] /\ conns' = Append(conns, c)
      /\ lockq' = RemoveAt(lockq, 1)
      /\ UNCHANGED <<dead, filt, soon, store, rest, diagnosed, histVars, owed>>
  BY DEF Joined, sendVars
<1>2. /\ QueueInv' /\ SenderInv' /\ FeedInv'
      /\ c \in Clients
      /\ phase[c] # "in" => OwedInv'
  BY <1>1, WaiterKeeps
<1>3. phase[c] = "joining"
  <2>1. lockq \in Seq(Tasks)
    BY DEF HubInv, QueueInv, IsQueue
  <2>2. 1 \in DOMAIN lockq
    BY <2>1, AppendFacts
  <2> QED BY <1>1, <2>2 DEF HubInv, QueueInv, IsQueue
<1> HIDE DEF c
<1>4. conns \in Seq(Clients) /\ Distinct(conns) /\ c \notin Elements(conns)
  BY <1>3 DEF HubInv, ConnInv
<1>5. /\ conns' \in Seq(Clients) /\ Elements(conns') = Elements(conns) \cup {c}
      /\ Distinct(conns')
  BY <1>1, <1>2, <1>4, AppendDistinct
<1>6. ConnInv'
  BY <1>1, <1>2, <1>5 DEF HubInv, ConnInv
<1> QED BY <1>2, <1>3, <1>6 DEF HubInv

LEMMA LeftKeeps ==
  ASSUME HubInv, lockq # <<>>, Left(1)
  PROVE  HubInv'
<1> DEFINE c == lockq[1].who
<1>1. /\ lockq[1].op # "send" /\ conns' = Removed({c})
      /\ phase' = [phase EXCEPT ![c] = "done"] /\ lockq' = RemoveAt(lockq, 1)
      /\ UNCHANGED <<dead, filt, soon, store, rest, diagnosed, histVars, owed>>
  BY DEF Left, sendVars
<1>2. /\ QueueInv' /\ SenderInv' /\ FeedInv'
      /\ phase[c] \in {"joining", "leaving"} /\ c \in Clients
      /\ phase[c] # "in" => OwedInv'
  BY <1>1, WaiterKeeps
<1> HIDE DEF c
<1>3. /\ conns' \in Seq(Clients) /\ Distinct(conns')
      /\ Elements(conns') = Elements(conns) \ {c}
  BY <1>1, RemovedFacts DEF HubInv, ConnInv
<1>4. /\ phase' \in [Clients -> {"out", "joining", "in", "leaving", "done"}]
      /\ phase'[c] = "done" /\ \A x \in Clients \ {c} : phase'[x] = phase[x]
  BY <1>1, <1>2 DEF HubInv, ConnInv
<1>5. \A x \in Elements(conns') : x \in Elements(conns) /\ x \in Clients \ {c}
  <2>1. Elements(conns) \subseteq Clients
    BY DEF HubInv, ConnInv, Elements
  <2> QED BY <1>3, <2>1
<1>6. \A x \in Elements(conns') : phase'[x] \in {"in", "leaving"}
  BY <1>4, <1>5 DEF HubInv, ConnInv
<1>7. \A x \in Clients : phase'[x] = "in" /\ x \notin dead => x \in Elements(conns')
  BY <1>3, <1>4 DEF HubInv, ConnInv
<1>8. ConnInv'
  BY <1>1, <1>3, <1>4, <1>6, <1>7 DEF HubInv, ConnInv
<1> QED BY <1>2, <1>8 DEF HubInv

\* The loop over the connections has ended: the lock goes to the next task.
LEMMA SendDoneKeeps ==
  ASSUME HubInv, lockq # <<>>, lockq[1].op = "send", NEW stale, stale \subseteq dead,
         SendDone(1, stale), UNCHANGED <<connVars, soon, store, diagnosed>>
  PROVE  /\ ConnInv' /\ QueueInv' /\ SenderInv' /\ ~Running'
         /\ \A a : Waiting(a) =>
              Waiting(a)' \/ (lockq[1].at = 0 /\ a \in AlertsIn(lockq[1].msgs))
<1> DEFINE by == lockq[1].by
           r == RemoveAt(lockq, 1)
           more == by \in Loops /\ rest[by] # <<>>
<1>1. /\ conns' = Removed(stale)
      /\ more => /\ lockq' = Append(r, Broadcast(by, <<rest[by][1]>>))
                 /\ rest' = [rest EXCEPT ![by] = Tail(@)]
      /\ ~more => lockq' = r /\ rest' = rest
  BY DEF SendDone
<1>2. /\ IsQueue(r, phase, dead)
      /\ \A i \in DOMAIN r : r[i].op = "send" => r[i].at = 0
      /\ \A a : Queued(a) => \/ \E i \in DOMAIN r : /\ r[i].op = "send" /\ r[i].at = 0
                                                    /\ a \in AlertsIn(r[i].msgs)
                             \/ lockq[1].at = 0 /\ a \in AlertsIn(lockq[1].msgs)
  BY HeadLeaves DEF HubInv
<1> HIDE DEF r, by, more
<1>3. /\ r \in Seq(Tasks) /\ UNCHANGED <<phase, dead, filt, soon, store, diagnosed>>
  BY <1>2 DEF IsQueue, connVars
<1>4. ConnInv'
  <2>1. /\ conns' \in Seq(Clients) /\ Distinct(conns')
        /\ Elements(conns') = Elements(conns) \ stale
    BY <1>1, RemovedFacts DEF HubInv, ConnInv
  <2> QED BY <1>3, <2>1 DEF HubInv, ConnInv
<1>5. CASE ~more
  <2>1. QueueInv' /\ SenderInv'
    BY <1>1, <1>2, <1>3, <1>5 DEF HubInv, QueueInv, SenderInv
  <2>2. ~Running'
    <3>1. lockq' = r /\ (r # <<>> => 1 \in DOMAIN r)
      BY <1>1, <1>3, <1>5, AppendFacts
    <3> QED BY <1>2, <3>1 DEF Running
  <2>3. ASSUME NEW a, Waiting(a)
        PROVE  Waiting(a)' \/ (lockq[1].at = 0 /\ a \in AlertsIn(lockq[1].msgs))
    BY <1>1, <1>2, <1>3, <1>5, <2>3 DEF Waiting, Queued
  <2> QED BY <1>4, <2>1, <2>2, <2>3
<1>6. CASE more
  <2> DEFINE m == rest[by][1]
             t == Broadcast(by, <<m>>)
  <2>1. by \in Loops /\ rest[by] # <<>>
    BY <1>6 DEF more
  <2>2. rest \in [Loops -> Seq(Messages)] /\ rest[by] \in Seq(Messages)
    BY <2>1 DEF HubInv, SenderInv
  <2>3. /\ m \in Messages /\ Tail(rest[by]) \in Seq(Messages)
        /\ \A i \in DOMAIN rest[by] :
             i # 1 => i - 1 \in DOMAIN Tail(rest[by]) /\ Tail(rest[by])[i - 1] = rest[by][i]
        /\ \A i \in DOMAIN Tail(rest[by]) :
             i + 1 \in DOMAIN rest[by] /\ Tail(rest[by])[i] = rest[by][i + 1]
    BY <2>1, <2>2
  <2> HIDE DEF m
  <2>4. /\ t \in Tasks /\ t.op = "send" /\ t.at = 0 /\ t.stale = {} /\ t.msgs = <<m>>
        /\ t.op # "join" /\ t.op # "leave"
    <3>1. <<m>> \in Seq(Messages) /\ by \in Loops \cup {"grpc"}
      BY <2>1, <2>3
    <3> QED BY <3>1, TaskForms DEF Broadcast
  <2> HIDE DEF t
  <2>5. lockq' = Append(r, t) /\ rest' = [rest EXCEPT ![by] = Tail(@)]
    BY <1>1, <1>6 DEF t, m
  <2>6. IsQueue(Append(r, t), phase, dead)
    BY <1>2, <2>4, QueueGrows
  <2>7. QueueInv'
    BY <1>3, <2>5, <2>6 DEF QueueInv
  <2>8. /\ DOMAIN lockq' = DOMAIN r \cup {Len(r) + 1} /\ lockq' # <<>>
        /\ \A i \in DOMAIN r : lockq'[i] = r[i]
        /\ lockq'[Len(r) + 1] = t
        /\ r # <<>> => 1 \in DOMAIN r
        /\ r = <<>> => Len(r) + 1 = 1
    BY <1>3, <2>4, <2>5, AppendFacts
  <2>9. ~Running'
    BY <1>2, <2>4, <2>8 DEF Running
  <2>10. /\ rest' \in [Loops -> Seq(Messages)] /\ rest'[by] = Tail(rest[by])
         /\ \A l \in Loops \ {by} : rest'[l] = rest[l]
    BY <2>1, <2>2, <2>3, <2>5
  <2>11. \A i \in DOMAIN rest'["detector"] : rest'["detector"][i].kind = "alert"
    <3>1. \A i \in DOMAIN rest["detector"] : rest["detector"][i].kind = "alert"
      BY DEF HubInv, SenderInv
    <3>2. CASE by = "detector"
      <4>1. rest'["detector"] = Tail(rest["detector"])
        BY <2>10, <3>2
      <4>2. \A i \in DOMAIN Tail(rest["detector"]) :
              i + 1 \in DOMAIN rest["detector"]
                /\ Tail(rest["detector"])[i] = rest["detector"][i + 1]
        BY <2>3, <3>2
      <4> QED BY <3>1, <4>1, <4>2
    <3>3. CASE by # "detector"
      <4>1. rest'["detector"] = rest["detector"]
        BY <2>10, <3>3 DEF Loops
      <4> QED BY <3>1, <4>1
    <3> QED BY <3>2, <3>3
  <2>12. SenderInv'
    BY <1>3, <2>10, <2>11 DEF HubInv, SenderInv
  <2>13. ASSUME NEW a, Waiting(a)
         PROVE  Waiting(a)' \/ (lockq[1].at = 0 /\ a \in AlertsIn(lockq[1].msgs))
    <3>1. CASE \E i \in DOMAIN soon : soon[i] = a
      BY <1>3, <3>1 DEF Waiting
    <3>2. CASE \E i \in DOMAIN rest["detector"] : rest["detector"][i].of = a
      <4>1. PICK i \in DOMAIN rest["detector"] : rest["detector"][i].of = a
        BY <3>2
      <4>2. rest["detector"][i].kind = "alert"
        BY DEF HubInv, SenderInv
      <4>3. CASE by # "detector"
        <5>1. rest'["detector"] = rest["detector"]
          BY <2>10, <4>3 DEF Loops
        <5> QED BY <4>1, <5>1 DEF Waiting
      <4>4. CASE by = "detector" /\ i # 1
        <5>1. rest'["detector"] = Tail(rest["detector"])
          BY <2>10, <4>4
        <5>2. i - 1 \in DOMAIN rest'["detector"] /\ rest'["detector"][i - 1] = rest["detector"][i]
          BY <2>3, <4>1, <4>4, <5>1
        <5> QED BY <4>1, <5>2, Zenon DEF Waiting
      <4>5. CASE by = "detector" /\ i = 1
        <5>1. m.of = a /\ m.kind = "alert"
          BY <4>1, <4>2, <4>5 DEF m
        <5>2. a \in AlertsIn(t.msgs)
          <6>1. 1 \in DOMAIN <<m>> /\ <<m>>[1] = m
            OBVIOUS
          <6> QED BY <2>4, <5>1, <6>1, Zenon DEF AlertsIn
        <5> QED BY <2>4, <2>8, <5>2 DEF Waiting
      <4> QED BY <4>3, <4>4, <4>5
    <3>3. CASE Queued(a)
      BY <1>2, <2>8, <3>3 DEF Waiting
    <3> QED BY <2>13, <3>1, <3>2, <3>3 DEF Waiting, Queued
  <2> QED BY <1>4, <2>7, <2>9, <2>12, <2>13
<1> QED BY <1>5, <1>6

\* The loop goes on from place p: it starts the first send of those ahead, or ends.
LEMMA ProceedKeeps ==
  ASSUME HubInv, lockq # <<>>, lockq[1].op = "send", NEW t \in Sends, t.stale \subseteq dead,
         NEW p \in Nat \ {0}, Proceed(1, t, p), t.msgs = lockq[1].msgs,
         UNCHANGED <<connVars, soon, store, diagnosed>>,
         published' \in Seq(Messages), got' \in [Clients -> Seq(1..Len(published'))],
         t.base + Len(t.msgs) = Len(published'),
         \A m \in DOMAIN t.msgs : published'[t.base + m] = t.msgs[m],
         \A q \in Places(t, p) : \A e \in DOMAIN got'[ConnAt(t, q)] :
           got'[ConnAt(t, q)][e] < t.base + MsgAt(t, q)
  PROVE  /\ ConnInv' /\ QueueInv' /\ SenderInv' /\ FeedInv'
         /\ \A a : Waiting(a) =>
              Waiting(a)' \/ (lockq[1].at = 0 /\ a \in AlertsIn(lockq[1].msgs))
         /\ \A c, a : Matches(filt[c], AlertMsg(a)) /\ AheadOf(t, p, c, a) => Ahead(c, a)'
<1> DEFINE sends == {q \in Places(t, p) : Matches(filt[ConnAt(t, q)], t.msgs[MsgAt(t, q)])}
           q0 == CHOOSE q \in sends : \A x \in sends : q <= x
           u == [t EXCEPT !.at = q0]
<1>1. /\ sends = {} => SendDone(1, t.stale)
      /\ sends # {} => /\ lockq' = [lockq EXCEPT ![1] = u]
                       /\ UNCHANGED <<conns, rest>>
  BY Zenon DEF Proceed, Places
<1>2. \A c, a : Matches(filt[c], AlertMsg(a)) /\ AheadOf(t, p, c, a) =>
        \E q \in sends : ConnAt(t, q) = c /\ t.msgs[MsgAt(t, q)] = AlertMsg(a)
  BY Zenon DEF AheadOf
<1>3. CASE sends = {}
  <2>1. /\ ConnInv' /\ QueueInv' /\ SenderInv' /\ ~Running'
        /\ \A a : Waiting(a) =>
             Waiting(a)' \/ (lockq[1].at = 0 /\ a \in AlertsIn(lockq[1].msgs))
    BY <1>1, <1>3, SendDoneKeeps
  <2>2. FeedInv'
    BY <2>1 DEF FeedInv
  <2> HIDE DEF sends
  <2>3. \A c, a : ~(Matches(filt[c], AlertMsg(a)) /\ AheadOf(t, p, c, a))
    BY <1>2, <1>3, Zenon
  <2> QED BY <2>1, <2>2, <2>3
<1>4. CASE sends # {}
  <2>1. q0 \in sends /\ \A x \in sends : q0 <= x
    <3>1. sends \in SUBSET Nat
      BY DEF Places
    <3> QED BY <1>4, <3>1, Least
  <2>2. /\ q0 \in Places(t, p) /\ q0 \in Places(t, 1) /\ q0 \in Nat \ {0}
        /\ Places(t, q0) \subseteq Places(t, p)
        /\ \A q \in Places(t, p) : q0 <= q => q \in Places(t, q0)
    <3> DEFINE end == Len(conns) * Len(t.msgs)
    <3>1. \A a : Places(t, a) = a..end
      BY DEF Places
    <3>2. q0 \in Places(t, p)
      BY <2>1
    <3>3. end \in Nat
      BY DEF HubInv, ConnInv, Sends
    <3> HIDE DEF end, q0
    <3> QED BY <3>1, <3>2, <3>3
  <2>3. lockq' = [lockq EXCEPT ![1] = u] /\ UNCHANGED <<conns, rest>>
    BY <1>1, <1>4
  <2> HIDE DEF sends, q0
  <2>4. /\ u \in Sends /\ u.op = "send" /\ u.msgs = t.msgs /\ u.base = t.base /\ u.at = q0
        /\ u.stale = t.stale
    BY <2>2 DEF Sends
  <2> HIDE DEF u
  <2>5. lockq \in Seq(Tasks) /\ 1 \in DOMAIN lockq
    <3>1. lockq \in Seq(Tasks)
      BY DEF HubInv, QueueInv, IsQueue
    <3> QED BY <3>1, AppendFacts
  <2>6. /\ lockq' \in Seq(Tasks) /\ DOMAIN lockq' = DOMAIN lockq /\ lockq' # <<>>
        /\ lockq'[1] = u /\ \A i \in DOMAIN lockq : i # 1 => lockq'[i] = lockq[i]
    <3>1. u \in Tasks
      BY <2>4, TaskForms
    <3> QED BY <2>3, <2>5, <3>1
  <2>7. UNCHANGED <<phase, dead, filt, soon, store, diagnosed, conns, rest>>
    BY <2>3 DEF connVars
  <2>8. ConnInv' /\ SenderInv'
    BY <2>7 DEF HubInv, ConnInv, SenderInv
  <2>9. QueueInv'
    <3>1. \A i \in DOMAIN lockq' :
            /\ lockq'[i].op = "join" => phase[lockq'[i].who] = "joining"
            /\ lockq'[i].op = "leave" => phase[lockq'[i].who] = "leaving"
      BY <2>4, <2>6 DEF HubInv, QueueInv, IsQueue
    <3>2. \A i, k \in DOMAIN lockq' : lockq'[i].op # "send" /\ lockq'[k].op # "send"
                                        /\ lockq'[i].who = lockq'[k].who => i = k
      BY <2>4, <2>6 DEF HubInv, QueueInv, IsQueue
    <3>3. \A i \in DOMAIN lockq' :
            lockq'[i].op = "send" => /\ i # 1 => lockq'[i].at = 0
                                     /\ lockq'[i].at = 0 => lockq'[i].stale = {}
                                     /\ lockq'[i].stale \subseteq dead
      BY <2>2, <2>4, <2>6 DEF HubInv, QueueInv, IsQueue
    <3> QED BY <2>6, <2>7, <3>1, <3>2, <3>3 DEF QueueInv, IsQueue
  <2>10. Running' /\ lockq'[1].at = q0 /\ lockq'[1].msgs = t.msgs /\ lockq'[1].base = t.base
    BY <2>2, <2>4, <2>6 DEF Running
  <2>11. /\ \A a : Places(lockq[1], a)' = Places(t, a)
         /\ \A q : ConnAt(lockq[1], q)' = ConnAt(t, q) /\ MsgAt(lockq[1], q)' = MsgAt(t, q)
    BY <2>7, <2>10 DEF Places, ConnAt, MsgAt
  <2>12. Places(lockq[1], lockq[1].at)' = Places(t, q0)
    BY <2>7, <2>10 DEF Places
  <2>13. FeedInv'
    <3>1. lockq'[1].base + Len(lockq'[1].msgs) = Len(published')
      BY <2>10
    <3>2. \A m \in DOMAIN lockq'[1].msgs : published'[lockq'[1].base + m] = lockq'[1].msgs[m]
      BY <2>10
    <3>3. lockq'[1].at \in Places(lockq[1], 1)'
      BY <2>2, <2>10, <2>11
    <3>4. \A q \in Places(lockq[1], lockq[1].at)' :
            \A e \in DOMAIN got'[ConnAt(lockq[1], q)'] :
              got'[ConnAt(lockq[1], q)'][e] < lockq'[1].base + MsgAt(lockq[1], q)'
      BY <2>2, <2>10, <2>11, <2>12
    <3> QED BY <3>1, <3>2, <3>3, <3>4, Zenon DEF FeedInv
  <2>14. ASSUME NEW a, Waiting(a)
         PROVE  Waiting(a)' \/ (lockq[1].at = 0 /\ a \in AlertsIn(lockq[1].msgs))
    <3>1. CASE Queued(a)
      <4>1. PICK i \in DOMAIN lockq :
              lockq[i].op = "send" /\ lockq[i].at = 0 /\ a \in AlertsIn(lockq[i].msgs)
        BY <3>1 DEF Queued
      <4>2. CASE i = 1
        BY <4>1, <4>2
      <4>3. CASE i # 1
        <5>1. i \in DOMAIN lockq' /\ lockq'[i] = lockq[i]
          BY <2>6, <4>3
        <5> QED BY <4>1, <5>1 DEF Waiting
      <4> QED BY <4>2, <4>3
    <3>2. CASE ~Queued(a)
      BY <2>7, <2>14, <3>2 DEF Waiting, Queued
    <3> QED BY <3>1, <3>2
  <2>15. ASSUME NEW c, NEW a, Matches(filt[c], AlertMsg(a)) /\ AheadOf(t, p, c, a)
         PROVE  Ahead(c, a)'
    <3>1. PICK q \in sends : ConnAt(t, q) = c /\ t.msgs[MsgAt(t, q)] = AlertMsg(a)
      BY <1>2, <2>15
    <3>2. q \in Places(t, q0)
      BY <2>1, <2>2, <3>1 DEF sends
    <3>3. /\ q \in Places(lockq[1], lockq[1].at)' /\ ConnAt(lockq[1], q)' = c
          /\ lockq'[1].msgs[MsgAt(lockq[1], q)'] = AlertMsg(a)
      BY <2>10, <2>11, <2>12, <3>1, <3>2
    <3> QED BY <2>10, <3>3, Zenon DEF Ahead, AheadOf
  <2> QED BY <2>8, <2>9, <2>13, <2>14, <2>15
<1> QED BY <1>3, <1>4

\* The broadcast under way, and what of it is still owed.
LEMMA OwedDuring ==
  ASSUME HubInv, store' = store, UNCHANGED <<connVars, owed>>,
         \A c \in Clients : \A a : Received(c, a) => Received(c, a)',
         \A a : Waiting(a) => Waiting(a)' \/ (lockq[1].at = 0 /\ a \in AlertsIn(lockq[1].msgs)),
         NEW t, NEW p,
         \A c, a : Matches(filt[c], AlertMsg(a)) /\ AheadOf(t, p, c, a) => Ahead(c, a)',
         \A c \in Clients, a \in Alerts :
           /\ phase[c] = "in" /\ c \notin dead
           /\ Ahead(c, a) \/ (lockq[1].at = 0 /\ a \in AlertsIn(lockq[1].msgs))
           => Received(c, a)' \/ AheadOf(t, p, c, a)
  PROVE  OwedInv'
<1>1. \A q \in owed : /\ phase'[q[1]] = phase[q[1]] /\ q[1] \notin dead'
                      /\ filt'[q[1]] = filt[q[1]]
  BY DEF HubInv, OwedInv, connVars
<1>2. ASSUME NEW q \in owed
      PROVE  Received(q[1], q[2])' \/ Waiting(q[2])' \/ Ahead(q[1], q[2])'
  <2>1. /\ q \in Clients \X Alerts /\ phase[q[1]] = "in" /\ q[1] \notin dead
        /\ Matches(filt[q[1]], AlertMsg(q[2]))
        /\ Received(q[1], q[2]) \/ Waiting(q[2]) \/ Ahead(q[1], q[2])
    BY Zenon DEF HubInv, OwedInv
  <2>2. PICK c \in Clients, a \in Alerts : q[1] = c /\ q[2] = a
    BY <2>1
  <2>3. /\ phase[c] = "in" /\ c \notin dead /\ Matches(filt[c], AlertMsg(a))
        /\ Received(c, a) \/ Waiting(a) \/ Ahead(c, a)
    BY <2>1, <2>2, Zenon
  <2>4. Received(c, a)' \/ Waiting(a)' \/ Ahead(c, a)'
    BY <2>3, Zenon
  <2> QED BY <2>2, <2>4, Zenon
<1>3. OwedInv /\ store \subseteq store' /\ owed' \subseteq owed
  BY DEF HubInv
<1> QED BY <1>1, <1>2, <1>3, OwedStays, Zenon

LEMMA AcquiredKeeps ==
  ASSUME HubInv, lockq # <<>>, Acquired(1)
  PROVE  HubInv'
<1> DEFINE t == [lockq[1] EXCEPT !.base = Len(published)]
<1>1. /\ lockq[1].op = "send" /\ lockq[1].at = 0
      /\ published' = published \o lockq[1].msgs /\ Proceed(1, t, 1)
      /\ UNCHANGED <<connVars, soon, store, diagnosed, got, owed>>
  BY DEF Acquired
<1>2. lockq[1] \in Sends
  <2>1. lockq \in Seq(Tasks)
    BY DEF HubInv, QueueInv, IsQueue
  <2>2. lockq[1] \in Tasks
    BY <2>1, AppendFacts
  <2> QED BY <1>1, <2>2, TaskForms
<1>3. published \in Seq(Messages) /\ got \in [Clients -> Seq(1..Len(published))]
  BY DEF HubInv, FeedInv
<1>4. /\ t \in Sends /\ t.msgs = lockq[1].msgs /\ t.base = Len(published)
      /\ t.stale = lockq[1].stale
  <2>1. Len(published) \in Nat
    BY <1>3
  <2> QED BY <1>2, <2>1 DEF Sends
<1> HIDE DEF t
<1>5. /\ published' \in Seq(Messages) /\ Len(published') = t.base + Len(t.msgs)
      /\ \A i \in 1..Len(published) : published'[i] = published[i]
      /\ \A m \in DOMAIN t.msgs : published'[t.base + m] = t.msgs[m]
      /\ Len(published) <= Len(published') /\ Len(published) \in Nat /\ Len(published') \in Nat
  <2>1. t.msgs \in Seq(Messages)
    BY <1>4, TaskForms
  <2>2. published' = published \o t.msgs
    BY <1>1, <1>4
  <2> DEFINE ms == t.msgs
             n == Len(published)
             k == Len(ms)
  <2>3. /\ published \o ms \in Seq(Messages) /\ Len(published \o ms) = n + k
        /\ \A i \in 1..(n + k) :
             (published \o ms)[i] = IF i <= n THEN published[i] ELSE ms[i - n]
    BY <1>3, <2>1, ConcatProperties
  <2>4. n \in Nat /\ k \in Nat /\ DOMAIN ms = 1..k
    BY <1>3, <2>1
  <2>5. /\ published' \in Seq(Messages) /\ Len(published') = n + k
        /\ \A i \in 1..(n + k) : published'[i] = IF i <= n THEN published[i] ELSE ms[i - n]
    BY <2>2, <2>3
  <2> HIDE DEF ms, n, k
  <2>6. \A i \in 1..n : published'[i] = published[i]
    BY <2>4, <2>5
  <2>7. ASSUME NEW m \in 1..k PROVE published'[n + m] = ms[m]
    <3>1. n + m \in 1..(n + k) /\ ~(n + m <= n) /\ (n + m) - n = m
      BY <2>4
    <3> QED BY <2>5, <3>1
  <2>8. n <= n + k /\ n + k \in Nat
    BY <2>4
  <2> QED BY <1>4, <2>4, <2>5, <2>6, <2>7, <2>8 DEF ms, n, k
<1>6. got' \in [Clients -> Seq(1..Len(published'))]
  BY <1>1, <1>3, <1>5
<1>7. ASSUME NEW q \in Places(t, 1), NEW e \in DOMAIN got'[ConnAt(t, q)]
      PROVE  got'[ConnAt(t, q)][e] < t.base + MsgAt(t, q)
  <2>1. ConnAt(t, q) \in Clients /\ MsgAt(t, q) \in DOMAIN t.msgs
    BY <1>4, PlaceFacts DEF HubInv, ConnInv
  <2>2. MsgAt(t, q) \in Nat \ {0}
    BY <1>4, <2>1, TaskForms
  <2>3. got'[ConnAt(t, q)][e] \in 1..Len(published)
    BY <1>1, <1>3, <2>1
  <2> QED BY <1>4, <1>5, <2>2, <2>3
<1>8. t.stale \subseteq dead
  <2>1. lockq \in Seq(Tasks)
    BY DEF HubInv, QueueInv, IsQueue
  <2>2. 1 \in DOMAIN lockq
    BY <2>1, AppendFacts
  <2> QED BY <1>1, <1>4, <2>2 DEF HubInv, QueueInv, IsQueue
<1>9. /\ ConnInv' /\ QueueInv' /\ SenderInv' /\ FeedInv'
      /\ \A a : Waiting(a) =>
           Waiting(a)' \/ (lockq[1].at = 0 /\ a \in AlertsIn(lockq[1].msgs))
      /\ \A c, a : Matches(filt[c], AlertMsg(a)) /\ AheadOf(t, 1, c, a) => Ahead(c, a)'
  <2>1. 1 \in Nat \ {0} /\ UNCHANGED <<connVars, soon, store, diagnosed>>
    BY <1>1
  <2> QED BY <1>1, <1>4, <1>5, <1>6, <1>7, <1>8, <2>1, ProceedKeeps, Zenon
<1>10. \A c \in Clients : \A a : Received(c, a) => Received(c, a)'
  <2> SUFFICES ASSUME NEW c \in Clients, NEW a, Received(c, a) PROVE Received(c, a)'
    OBVIOUS
  <2>1. PICK i \in DOMAIN got[c] : published[got[c][i]] = AlertMsg(a)
    BY DEF Received
  <2>2. got[c][i] \in 1..Len(published) /\ got' = got
    BY <1>1, <1>3
  <2> QED BY <1>5, <2>1, <2>2 DEF Received
<1>11. ASSUME NEW c \in Clients, NEW a \in Alerts, phase[c] = "in", c \notin dead,
              Ahead(c, a) \/ (lockq[1].at = 0 /\ a \in AlertsIn(lockq[1].msgs))
       PROVE  AheadOf(t, 1, c, a)
  <2>1. a \in AlertsIn(lockq[1].msgs)
    BY <1>1, <1>11 DEF Ahead, Running
  <2>2. PICK m \in DOMAIN t.msgs : t.msgs[m].of = a /\ t.msgs[m].kind = "alert"
    BY <1>4, <2>1 DEF AlertsIn
  <2>3. t.msgs[m] = AlertMsg(a)
    <3>1. t.msgs[m] \in Messages
      BY <1>4, TaskForms
    <3> QED BY <2>2, <3>1 DEF Messages, AlertMsg
  <2>4. PICK x \in DOMAIN conns : conns[x] = c
    BY <1>11 DEF HubInv, ConnInv, Elements
  <2>5. \E q \in Places(t, 1) : ConnAt(t, q) = conns[x] /\ MsgAt(t, q) = m
    BY <1>4, PlaceOf DEF HubInv, ConnInv
  <2> QED BY <2>3, <2>4, <2>5 DEF AheadOf
<1>12. OwedInv'
  BY <1>1, <1>9, <1>10, <1>11, OwedDuring
<1> QED BY <1>9, <1>12 DEF HubInv

\* What is known of the broadcast under way.
LEMMA SendingFacts ==
  ASSUME HubInv, lockq # <<>>, Sending(1)
  PROVE  /\ Running /\ lockq[1] \in Sends /\ lockq[1].at \in Places(lockq[1], 1)
         /\ lockq[1].at # 0 /\ lockq[1].stale \subseteq dead
         /\ lockq[1].base \in Nat /\ lockq[1].base + Len(lockq[1].msgs) = Len(published)
         /\ \A m \in DOMAIN lockq[1].msgs : /\ lockq[1].base + m \in 1..Len(published)
                                            /\ published[lockq[1].base + m] = lockq[1].msgs[m]
         /\ \A q \in Places(lockq[1], lockq[1].at) :
              /\ q \in Places(lockq[1], 1)
              /\ \A e \in DOMAIN got[ConnAt(lockq[1], q)] :
                   got[ConnAt(lockq[1], q)][e] < lockq[1].base + MsgAt(lockq[1], q)
<1> DEFINE t == lockq[1]
<1>1. lockq \in Seq(Tasks) /\ 1 \in DOMAIN lockq
  <2>1. lockq \in Seq(Tasks)
    BY DEF HubInv, QueueInv, IsQueue
  <2> QED BY <2>1, AppendFacts
<1>2. t.op = "send" /\ t.at # 0 /\ t.at \in Places(t, 1)
  BY DEF Sending, Places
<1>3. Running
  BY <1>2 DEF Running
<1>4. t \in Sends /\ t.stale \subseteq dead
  BY <1>1, <1>2, TaskForms DEF HubInv, QueueInv, IsQueue
<1>5. /\ t.base + Len(t.msgs) = Len(published)
      /\ \A m \in DOMAIN t.msgs : published[t.base + m] = t.msgs[m]
      /\ \A q \in Places(t, t.at) : \A e \in DOMAIN got[ConnAt(t, q)] :
           got[ConnAt(t, q)][e] < t.base + MsgAt(t, q)
  BY <1>3, Zenon DEF HubInv, FeedInv
<1>6. t.base \in Nat /\ t.msgs \in Seq(Messages) /\ t.at \in Nat \ {0}
  BY <1>2, <1>4, TaskForms
<1>7. \A q \in Places(t, t.at) : q \in Places(t, 1)
  <2> DEFINE end == Len(conns) * Len(t.msgs)
  <2>1. \A a : Places(t, a) = a..end
    BY DEF Places
  <2>2. end \in Nat
    BY <1>6 DEF HubInv, ConnInv
  <2> HIDE DEF end
  <2> QED BY <1>6, <2>1, <2>2
<1> HIDE DEF t
<1>8. \A m \in DOMAIN t.msgs : t.base + m \in 1..Len(published)
  <2> DEFINE k == Len(t.msgs)
  <2>1. k \in Nat /\ DOMAIN t.msgs = 1..k /\ t.base + k = Len(published)
    BY <1>5, <1>6
  <2> HIDE DEF k
  <2> QED BY <1>6, <2>1
<1> QED BY <1>2, <1>3, <1>4, <1>5, <1>6, <1>7, <1>8 DEF t

\* The places after p of a task are those from p + 1 on.
LEMMA NextPlaces ==
  ASSUME conns \in Seq(Clients), NEW t \in Sends, NEW p \in Places(t, 1)
  PROVE  /\ \A q \in Places(t, p) : q # p => q \in Places(t, p + 1)
         /\ \A q \in Places(t, p + 1) : q \in Places(t, p) /\ p < q
         /\ p + 1 \in Nat \ {0}
         /\ \A k \in Nat : p <= k => Places(t, k) \subseteq Places(t, p)
         /\ \A k \in Nat, q \in Places(t, p) : k <= q => q \in Places(t, k)
<1> DEFINE end == Len(conns) * Len(t.msgs)
<1>1. \A a : Places(t, a) = a..end
  BY DEF Places
<1>2. end \in Nat
  BY DEF Sends
<1> HIDE DEF end
<1> QED BY <1>1, <1>2

LEMMA SendTextKeeps ==
  ASSUME HubInv, lockq # <<>>, SendText(1)
  PROVE  HubInv'
<1> DEFINE t == lockq[1]
           p == lockq[1].at
           k == t.base + MsgAt(t, p)
           c0 == ConnAt(t, p)
<1>1. /\ Sending(1) /\ Proceed(1, t, p + 1)
      /\ c0 \in dead => got' = got
      /\ c0 \notin dead => got' = [got EXCEPT ![c0] = Append(@, k)]
      /\ UNCHANGED <<connVars, soon, store, diagnosed, published, owed>>
  BY DEF SendText, Target
<1>2. /\ t \in Sends /\ p \in Places(t, 1) /\ p # 0 /\ t.stale \subseteq dead
      /\ t.base \in Nat /\ t.base + Len(t.msgs) = Len(published)
      /\ \A m \in DOMAIN t.msgs : /\ t.base + m \in 1..Len(published)
                                  /\ published[t.base + m] = t.msgs[m]
      /\ \A q \in Places(t, p) :
           /\ q \in Places(t, 1)
           /\ \A e \in DOMAIN got[ConnAt(t, q)] :
                got[ConnAt(t, q)][e] < t.base + MsgAt(t, q)
  BY <1>1, SendingFacts
<1>3. t.op = "send" /\ Running
  BY <1>1, SendingFacts DEF Sending
<1> HIDE DEF t, p
<1>4. conns \in Seq(Clients) /\ Distinct(conns)
  BY DEF HubInv, ConnInv
<1>5. /\ MsgAt(t, p) \in DOMAIN t.msgs /\ c0 \in Clients
      /\ \A q \in Places(t, 1) : MsgAt(t, q) \in DOMAIN t.msgs
      /\ DOMAIN t.msgs \subseteq Nat
  BY <1>2, <1>4, PlaceFacts, TaskForms, SMTT(30)
<1>6. published \in Seq(Messages) /\ got \in [Clients -> Seq(1..Len(published))]
  BY DEF HubInv, FeedInv
<1>7. k \in 1..Len(published) /\ k \in Nat /\ published[k] = t.msgs[MsgAt(t, p)]
  BY <1>2, <1>5, <1>6
<1> HIDE DEF k, c0
<1>8. /\ got[c0] \in Seq(1..Len(published)) /\ Append(got[c0], k) \in Seq(1..Len(published))
      /\ DOMAIN Append(got[c0], k) = DOMAIN got[c0] \cup {Len(got[c0]) + 1}
      /\ \A e \in DOMAIN got[c0] : Append(got[c0], k)[e] = got[c0][e]
      /\ Append(got[c0], k)[Len(got[c0]) + 1] = k
  <2>1. got[c0] \in Seq(1..Len(published))
    BY <1>5, <1>6
  <2> QED BY <1>7, <2>1, AppendFacts
<1>9. /\ got' \in [Clients -> Seq(1..Len(published'))]
      /\ \A c \in Clients : c # c0 => got'[c] = got[c]
      /\ c0 \notin dead => got'[c0] = Append(got[c0], k)
      /\ c0 \in dead => got'[c0] = got[c0]
  BY <1>1, <1>5, <1>6, <1>8
<1>10. ASSUME NEW q \in Places(t, p + 1), NEW e \in DOMAIN got'[ConnAt(t, q)]
       PROVE  got'[ConnAt(t, q)][e] < t.base + MsgAt(t, q)
  <2>1. q \in Places(t, p) /\ q \in Places(t, 1) /\ p < q
    BY <1>2, <1>4, NextPlaces
  <2>2. \A x \in DOMAIN got[ConnAt(t, q)] : got[ConnAt(t, q)][x] < t.base + MsgAt(t, q)
    BY <1>2, <2>1
  <2>3. ConnAt(t, q) \in Clients
    BY <1>2, <1>4, <2>1, PlaceFacts
  <2>4. CASE got'[ConnAt(t, q)] = got[ConnAt(t, q)]
    BY <2>2, <2>4
  <2>5. CASE got'[ConnAt(t, q)] # got[ConnAt(t, q)]
    <3>1. ConnAt(t, q) = c0 /\ got'[c0] = Append(got[c0], k)
      BY <1>9, <2>3, <2>5
    <3>2. CASE e \in DOMAIN got[c0]
      BY <1>8, <2>2, <3>1, <3>2
    <3>3. CASE e = Len(got[c0]) + 1
      <4>1. MsgAt(t, p) < MsgAt(t, q)
        <5>1. \/ c0 = ConnAt(t, q) /\ MsgAt(t, p) < MsgAt(t, q)
              \/ c0 # ConnAt(t, q) /\ PastConn(t, p) <= q
          BY <1>2, <1>4, <2>1, LaterPlace DEF c0
        <5> QED BY <3>1, <5>1
      <4>2. MsgAt(t, p) \in Nat /\ MsgAt(t, q) \in Nat
        BY <1>5, <2>1
      <4>3. got'[ConnAt(t, q)][e] = t.base + MsgAt(t, p)
        BY <1>8, <3>1, <3>3 DEF k
      <4> QED BY <1>2, <4>1, <4>2, <4>3
    <3> QED BY <1>8, <3>1, <3>2, <3>3
  <2> QED BY <2>4, <2>5
<1>11. /\ ConnInv' /\ QueueInv' /\ SenderInv' /\ FeedInv'
       /\ \A a : Waiting(a) =>
            Waiting(a)' \/ (lockq[1].at = 0 /\ a \in AlertsIn(lockq[1].msgs))
       /\ \A c, a : Matches(filt[c], AlertMsg(a)) /\ AheadOf(t, p + 1, c, a) => Ahead(c, a)'
  <2>1. p + 1 \in Nat \ {0}
    BY <1>2, <1>4, NextPlaces
  <2>2. /\ t.base + Len(t.msgs) = Len(published') /\ published' \in Seq(Messages)
        /\ \A m \in DOMAIN t.msgs : published'[t.base + m] = t.msgs[m]
        /\ UNCHANGED <<connVars, soon, store, diagnosed>>
    BY <1>1, <1>2, <1>6
  <2>3. lockq[1].op = "send" /\ t.msgs = lockq[1].msgs
    BY <1>3 DEF t
  <2> QED BY <1>1, <1>2, <1>9, <1>10, <2>1, <2>2, <2>3, ProceedKeeps, Zenon
<1>12. \A c \in Clients : \A a : Received(c, a) => Received(c, a)'
  <2> SUFFICES ASSUME NEW c \in Clients, NEW a, Received(c, a) PROVE Received(c, a)'
    OBVIOUS
  <2>1. PICK i \in DOMAIN got[c] : published[got[c][i]] = AlertMsg(a)
    BY DEF Received
  <2>2. i \in DOMAIN got'[c] /\ got'[c][i] = got[c][i]
    BY <1>8, <1>9
  <2>3. published' = published
    BY <1>1
  <2> QED BY <2>1, <2>2, <2>3, Zenon DEF Received
<1>13. ASSUME NEW c \in Clients, NEW a \in Alerts, phase[c] = "in", c \notin dead,
              Ahead(c, a) \/ (lockq[1].at = 0 /\ a \in AlertsIn(lockq[1].msgs))
       PROVE  Received(c, a)' \/ AheadOf(t, p + 1, c, a)
  <2>1. Ahead(c, a)
    BY <1>2, <1>13 DEF p
  <2>2. PICK q \in Places(t, p) : ConnAt(t, q) = c /\ t.msgs[MsgAt(t, q)] = AlertMsg(a)
    BY <2>1 DEF Ahead, AheadOf, t, p
  <2>3. CASE q = p
    <3>1. got'[c] = Append(got[c], k) /\ c = c0
      BY <1>9, <1>13, <2>2, <2>3 DEF c0
    <3>2. published' = published /\ published[k] = AlertMsg(a)
      BY <1>1, <1>7, <2>2, <2>3
    <3>3. Len(got[c]) + 1 \in DOMAIN got'[c] /\ got'[c][Len(got[c]) + 1] = k
      BY <1>8, <3>1
    <3>4. published'[k] = AlertMsg(a)
      BY <3>2
    <3> QED BY <3>3, <3>4 DEF Received
  <2>4. CASE q # p
    <3>1. q \in Places(t, p + 1)
      BY <1>2, <1>4, <2>4, NextPlaces
    <3> QED BY <2>2, <3>1 DEF AheadOf
  <2> QED BY <2>3, <2>4
<1>14. OwedInv'
  <2>1. store' = store /\ UNCHANGED <<connVars, owed>>
    BY <1>1
  <2> QED BY <1>11, <1>12, <1>13, <2>1, OwedDuring, Zenon
<1> QED BY <1>11, <1>14 DEF HubInv

LEMMA SendClosedKeeps ==
  ASSUME HubInv, lockq # <<>>, SendClosed(1)
  PROVE  HubInv'
<1> DEFINE h == lockq[1]
           c0 == ConnAt(h, h.at)
           t == [h EXCEPT !.stale = @ \cup {c0}]
           p == PastConn(h, h.at)
<1>1. /\ Sending(1) /\ c0 \in dead /\ Proceed(1, t, p)
      /\ UNCHANGED <<connVars, soon, store, diagnosed, published, got, owed>>
  BY DEF SendClosed, Target, histVars
<1>2. /\ h \in Sends /\ h.at \in Places(h, 1) /\ h.at # 0 /\ h.stale \subseteq dead
      /\ h.base \in Nat /\ h.base + Len(h.msgs) = Len(published)
      /\ \A m \in DOMAIN h.msgs : published[h.base + m] = h.msgs[m]
      /\ \A q \in Places(h, h.at) :
           /\ q \in Places(h, 1)
           /\ \A e \in DOMAIN got[ConnAt(h, q)] :
                got[ConnAt(h, q)][e] < h.base + MsgAt(h, q)
      /\ Running
  BY <1>1, SendingFacts
<1>3. conns \in Seq(Clients) /\ Distinct(conns) /\ dead \subseteq Clients
  BY DEF HubInv, ConnInv
<1>4. p \in Nat \ {0} /\ h.at <= p /\ c0 \in Clients /\ h.at \in Nat
  BY <1>2, <1>3, PlaceFacts
<1>5. /\ t \in Sends /\ t.msgs = h.msgs /\ t.base = h.base /\ t.stale = h.stale \cup {c0}
  <2>1. h.stale \cup {c0} \subseteq Clients
    BY <1>2, <1>4, TaskForms
  <2> HIDE DEF c0
  <2> QED BY <1>2, <2>1 DEF Sends
<1> HIDE DEF t, p
<1>6. /\ \A a : Places(t, a) = Places(h, a)
      /\ \A q : ConnAt(t, q) = ConnAt(h, q) /\ MsgAt(t, q) = MsgAt(h, q)
  BY <1>5 DEF Places, ConnAt, MsgAt
<1>7. /\ \A q \in Places(t, p) : q \in Places(h, h.at)
      /\ \A q \in Places(h, h.at) : p <= q => q \in Places(t, p)
  BY <1>2, <1>3, <1>4, <1>6, NextPlaces
<1>8. h.op = "send" /\ h = lockq[1]
  BY <1>1 DEF Sending
<1> HIDE DEF h, c0
<1>9. published \in Seq(Messages) /\ got \in [Clients -> Seq(1..Len(published))]
  BY DEF HubInv, FeedInv
<1>10. /\ ConnInv' /\ QueueInv' /\ SenderInv' /\ FeedInv'
       /\ \A a : Waiting(a) =>
            Waiting(a)' \/ (lockq[1].at = 0 /\ a \in AlertsIn(lockq[1].msgs))
       /\ \A c, a : Matches(filt[c], AlertMsg(a)) /\ AheadOf(t, p, c, a) => Ahead(c, a)'
  <2>1. /\ published' \in Seq(Messages) /\ got' \in [Clients -> Seq(1..Len(published'))]
        /\ t.base + Len(t.msgs) = Len(published')
        /\ \A m \in DOMAIN t.msgs : published'[t.base + m] = t.msgs[m]
        /\ UNCHANGED <<connVars, soon, store, diagnosed>>
        /\ got' = got
    BY <1>1, <1>2, <1>5, <1>9
  <2>2. \A q \in Places(t, p) : \A e \in DOMAIN got'[ConnAt(t, q)] :
          got'[ConnAt(t, q)][e] < t.base + MsgAt(t, q)
    BY <1>2, <1>5, <1>6, <1>7, <2>1
  <2>3. lockq[1].op = "send" /\ t.msgs = lockq[1].msgs /\ t.stale \subseteq dead
    BY <1>1, <1>2, <1>5, <1>8
  <2> QED BY <1>1, <1>4, <1>5, <2>1, <2>2, <2>3, ProceedKeeps, Zenon
<1>11. \A c \in Clients : \A a : Received(c, a) => Received(c, a)'
  BY <1>1 DEF Received
<1>12. ASSUME NEW c \in Clients, NEW a \in Alerts, phase[c] = "in", c \notin dead,
              Ahead(c, a) \/ (lockq[1].at = 0 /\ a \in AlertsIn(lockq[1].msgs))
       PROVE  Received(c, a)' \/ AheadOf(t, p, c, a)
  <2>1. PICK q \in Places(h, h.at) : ConnAt(h, q) = c /\ h.msgs[MsgAt(h, q)] = AlertMsg(a)
    BY <1>2, <1>8, <1>12 DEF Ahead, AheadOf
  <2>2. q \in Places(h, 1) /\ ConnAt(h, q) # c0 /\ q # h.at
    BY <1>1, <1>2, <1>12, <2>1 DEF c0
  <2>3. h.at < q
    BY <1>2, <1>3, <2>1, <2>2, NextPlaces
  <2>4. p <= q
    <3>1. \/ c0 = ConnAt(h, q) /\ MsgAt(h, h.at) < MsgAt(h, q)
          \/ c0 # ConnAt(h, q) /\ p <= q
      BY <1>2, <1>3, <2>2, <2>3, LaterPlace DEF c0, p
    <3> QED BY <2>2, <3>1
  <2>5. q \in Places(t, p)
    BY <1>7, <2>1, <2>4
  <2> QED BY <1>5, <1>6, <2>1, <2>5 DEF AheadOf
<1>13. OwedInv'
  <2>1. store' = store /\ UNCHANGED <<connVars, owed>>
    BY <1>1
  <2> QED BY <1>10, <1>11, <1>12, <2>1, OwedDuring, Zenon
<1> QED BY <1>10, <1>13 DEF HubInv

LEMMA AlertsOfBoth ==
  ASSUME NEW s \in Seq(Messages), NEW r \in Seq(Messages)
  PROVE  /\ AlertsIn(s) \subseteq AlertsIn(s \o r)
         /\ \A i \in DOMAIN r : r[i].kind = "alert" => r[i].of \in AlertsIn(s \o r)
<1> DEFINE b == s \o r
           n == Len(s)
           k == Len(r)
<1>1. /\ b \in Seq(Messages) /\ Len(b) = n + k
      /\ \A i \in 1..(n + k) : b[i] = IF i <= n THEN s[i] ELSE r[i - n]
  BY ConcatProperties
<1>2. n \in Nat /\ k \in Nat /\ DOMAIN s = 1..n /\ DOMAIN r = 1..k
  OBVIOUS
<1> HIDE DEF b, n, k
<1>3. DOMAIN b = 1..(n + k)
  BY <1>1
<1>4. \A i \in DOMAIN s : i \in DOMAIN b /\ b[i] = s[i]
  BY <1>1, <1>2, <1>3
<1>5. ASSUME NEW i \in DOMAIN r PROVE n + i \in DOMAIN b /\ b[n + i] = r[i]
  <2>1. n + i \in 1..(n + k) /\ ~(n + i <= n) /\ (n + i) - n = i
    BY <1>2
  <2> QED BY <1>1, <1>3, <2>1
<1>6. AlertsIn(s) \subseteq AlertsIn(b)
  <2> SUFFICES ASSUME NEW a \in AlertsIn(s) PROVE a \in AlertsIn(b)
    OBVIOUS
  <2>1. PICK i \in DOMAIN s : s[i].kind = "alert" /\ s[i].of = a
    BY DEF AlertsIn
  <2> QED BY <1>4, <2>1 DEF AlertsIn
<1>7. \A i \in DOMAIN r : r[i].kind = "alert" => r[i].of \in AlertsIn(b)
  BY <1>5 DEF AlertsIn
<1> QED BY <1>6, <1>7 DEF b

\* A broadcast that raises: what it had to send is not owed any more.
LEMMA SendRaisesKeeps ==
  ASSUME HubInv, lockq # <<>>, SendRaises(1)
  PROVE  HubInv'
<1> DEFINE by == lockq[1].by
           lost == IF by \in Loops THEN rest[by] ELSE <<>>
           msgs == lockq[1].msgs
<1>1. /\ Sending(1) /\ lockq' = RemoveAt(lockq, 1)
      /\ rest' = [l \in Loops |-> IF l = by THEN <<>> ELSE rest[l]]
      /\ NotOwed({}, AlertsIn(msgs \o lost))
      /\ UNCHANGED <<connVars, conns, soon, store, diagnosed, histVars>>
  BY DEF SendRaises
<1>2. lockq[1] \in Sends
  BY <1>1, SendingFacts
<1>3. rest \in [Loops -> Seq(Messages)]
  BY DEF HubInv, SenderInv
<1>4. msgs \in Seq(Messages) /\ lost \in Seq(Messages)
  BY <1>2, <1>3, TaskForms, EmptySeq
<1>5. /\ IsQueue(lockq', phase, dead)
      /\ \A i \in DOMAIN lockq' : lockq'[i].op = "send" => lockq'[i].at = 0
      /\ \A a : Queued(a) => Queued(a)' \/ a \in AlertsIn(msgs)
  BY <1>1, HeadLeaves DEF HubInv, Queued
<1>6. rest' \in [Loops -> Seq(Messages)] /\ (rest'["detector"] = rest["detector"] \/ by = "detector")
  BY <1>1, <1>3, EmptySeq DEF Loops
<1>7. by = "detector" => lost = rest["detector"] /\ rest'["detector"] = <<>>
  BY <1>1 DEF Loops
<1> HIDE DEF by, lost, msgs
<1>8. UNCHANGED <<phase, dead, filt, conns, soon, store, diagnosed, published, got>>
  BY <1>1 DEF connVars, histVars
<1>9. ConnInv' /\ QueueInv'
  BY <1>5, <1>8 DEF HubInv, ConnInv, QueueInv
<1>10. SenderInv'
  <2>1. \A i \in DOMAIN rest'["detector"] : rest'["detector"][i].kind = "alert"
    <3>1. CASE by = "detector"
      BY <1>7, <3>1
    <3>2. CASE by # "detector"
      BY <1>6, <3>2 DEF HubInv, SenderInv
    <3> QED BY <3>1, <3>2
  <2> QED BY <1>6, <1>8, <2>1 DEF HubInv, SenderInv
<1>11. ~Running'
  <2>1. lockq' # <<>> => 1 \in DOMAIN lockq'
    BY <1>5, AppendFacts DEF IsQueue
  <2> QED BY <1>5, <2>1 DEF Running
<1>12. FeedInv'
  BY <1>8, <1>11 DEF HubInv, FeedInv
<1>13. owed' \subseteq owed /\ \A q \in owed' : q[2] \notin AlertsIn(msgs \o lost)
  BY <1>1 DEF NotOwed
<1>14. AlertsIn(msgs) \subseteq AlertsIn(msgs \o lost)
  BY <1>4, AlertsOfBoth
<1>15. ASSUME NEW a, Waiting(a), a \notin AlertsIn(msgs \o lost) PROVE Waiting(a)'
  <2>1. CASE \E i \in DOMAIN soon : soon[i] = a
    BY <1>8, <2>1 DEF Waiting
  <2>2. CASE \E i \in DOMAIN rest["detector"] : rest["detector"][i].of = a
    <3>1. PICK i \in DOMAIN rest["detector"] : rest["detector"][i].of = a
      BY <2>2
    <3>2. rest["detector"][i].kind = "alert"
      BY DEF HubInv, SenderInv
    <3>3. by # "detector"
      BY <1>4, <1>7, <1>15, <3>1, <3>2, AlertsOfBoth
    <3>4. rest'["detector"] = rest["detector"]
      BY <1>6, <3>3
    <3> QED BY <3>1, <3>4 DEF Waiting
  <2>3. CASE Queued(a)
    BY <1>5, <1>14, <1>15, <2>3 DEF Waiting, Queued
  <2> QED BY <1>15, <2>1, <2>2, <2>3 DEF Waiting, Queued
<1>16. ASSUME NEW c, NEW a, Ahead(c, a), c \in Clients PROVE a \in AlertsIn(msgs)
  <2>1. PICK q \in Places(lockq[1], lockq[1].at) : msgs[MsgAt(lockq[1], q)] = AlertMsg(a)
    BY <1>16 DEF Ahead, AheadOf, msgs
  <2>2. q \in Places(lockq[1], 1)
    BY <1>1, <2>1, SendingFacts
  <2>3. MsgAt(lockq[1], q) \in DOMAIN msgs
    BY <1>2, <2>2, PlaceFacts DEF HubInv, ConnInv, msgs
  <2> QED BY <2>1, <2>3 DEF AlertsIn, AlertMsg
<1>17. OwedInv'
  <2>1. \A q \in owed' : /\ phase'[q[1]] = phase[q[1]] /\ q[1] \notin dead'
                         /\ filt'[q[1]] = filt[q[1]]
    BY <1>8, <1>13 DEF HubInv, OwedInv
  <2>2. \A c, a : Received(c, a) => Received(c, a)'
    BY <1>8 DEF Received
  <2>3. \A q \in owed' : q[1] \in Clients
    BY <1>13 DEF HubInv, OwedInv
  <2>4. \A q \in owed' : Received(q[1], q[2]) \/ Waiting(q[2]) \/ Ahead(q[1], q[2]) =>
                           Received(q[1], q[2])' \/ Waiting(q[2])' \/ Ahead(q[1], q[2])'
    <3> SUFFICES ASSUME NEW q \in owed',
                        Received(q[1], q[2]) \/ Waiting(q[2]) \/ Ahead(q[1], q[2])
                 PROVE  Received(q[1], q[2])' \/ Waiting(q[2])'
      BY Zenon
    <3>1. q[2] \notin AlertsIn(msgs \o lost) /\ q[2] \notin AlertsIn(msgs)
      BY <1>13, <1>14
    <3>2. ~Ahead(q[1], q[2])
      BY <1>16, <2>3, <3>1
    <3> QED BY <1>15, <2>2, <3>1, <3>2
  <2>5. OwedInv /\ store \subseteq store'
    BY <1>8 DEF HubInv
  <2> QED BY <1>13, <2>1, <2>4, <2>5, OwedStays, Zenon
<1> QED BY <1>9, <1>10, <1>12, <1>17 DEF HubInv

-----------------------------------------------------------------------------

LEMMA HubStart == Init => HubInv
<1> SUFFICES ASSUME Init PROVE HubInv
  OBVIOUS
<1>1. ConnInv
  BY EmptySeq DEF Init, ConnInv, Elements, Distinct
<1>2. QueueInv
  BY EmptySeq DEF Init, QueueInv, IsQueue
<1>3. SenderInv
  BY EmptySeq DEF Init, SenderInv, Loops
<1>4. FeedInv
  BY EmptySeq DEF Init, FeedInv, Running
<1>5. OwedInv
  BY DEF Init, OwedInv
<1> QED BY <1>1, <1>2, <1>3, <1>4, <1>5 DEF HubInv

LEMMA UnchangedKeeps ==
  ASSUME HubInv, UNCHANGED vars
  PROVE  HubInv'
<1>1. /\ UNCHANGED <<phase, dead, filt, conns, lockq, soon, store, rest, diagnosed>>
      /\ UNCHANGED <<published, got, owed, histVars>>
  BY DEF vars, connVars, sendVars, histVars
<1>2. ConnInv' /\ QueueInv' /\ SenderInv'
  BY <1>1 DEF HubInv, ConnInv, QueueInv, SenderInv
<1>3. /\ FeedInv'
      /\ \A c, a : Ahead(c, a) => Ahead(c, a)'
      /\ \A c, a : Received(c, a) => Received(c, a)'
      /\ \A a : Queued(a) => Queued(a)'
  BY <1>1, SameKeepsFeed DEF HubInv
<1>4. \A a : Waiting(a) => Waiting(a)'
  BY <1>1, <1>3, WaitingStays
<1>5. OwedInv'
  <2>1. \A q \in owed' : /\ phase'[q[1]] = phase[q[1]] /\ q[1] \notin dead'
                         /\ filt'[q[1]] = filt[q[1]]
    BY <1>1 DEF HubInv, OwedInv
  <2>2. OwedInv /\ store \subseteq store' /\ owed' \subseteq owed
    BY <1>1 DEF HubInv
  <2> QED BY <1>3, <1>4, <2>1, <2>2, OwedStays, Zenon
<1> QED BY <1>2, <1>3, <1>5 DEF HubInv

LEMMA HubStep ==
  ASSUME HubInv, [Next]_vars
  PROVE  HubInv'
<1>1. CASE Peers
  BY <1>1, ConnectKeeps, DieKeeps, SetFilterKeeps DEF Peers
<1>2. CASE Senders
  BY <1>2, ReportAlertKeeps, DiagnosisReadyKeeps, DetectorPassKeeps, DetectorFailsKeeps,
     SummaryTickKeeps DEF Senders
<1>3. CASE \E c \in Clients : Disconnect(c)
  BY <1>3, DisconnectKeeps
<1>4. CASE ScheduleBroadcast
  BY <1>4, ScheduleKeeps
<1>5. CASE \E i \in DOMAIN lockq : LockStep(i) \/ (HoldsLock(i) /\ SendRaises(i))
  <2>1. 1 \in DOMAIN lockq /\ (LockStep(1) \/ SendRaises(1))
    BY <1>5 DEF LockStep, HoldsLock
  <2>2. lockq # <<>>
    BY <2>1
  <2> QED BY <2>1, <2>2, JoinedKeeps, LeftKeeps, AcquiredKeeps, SendTextKeeps, SendClosedKeeps,
             SendRaisesKeeps DEF LockStep
<1>6. CASE UNCHANGED vars
  BY <1>6, UnchangedKeeps
<1> QED BY <1>1, <1>2, <1>3, <1>4, <1>5, <1>6 DEF Next
\* The invariant of the hub: its first task is the only one that sends, its messages are the
\* end of the feed, and what it has still to send lies ahead of what anyone received.
THEOREM HubInvariant == Spec => []HubInv
<1>1. HubInv /\ [Next]_vars => HubInv'
  BY HubStep
<1> QED BY <1>1, HubStart, PTL DEF Spec

LEMMA HubInvTypes == HubInv => TypeOK
<1> SUFFICES ASSUME HubInv PROVE TypeOK
  OBVIOUS
<1>1. /\ phase \in [Clients -> {"out", "joining", "in", "leaving", "done"}]
      /\ dead \subseteq Clients
      /\ filt \in [Clients -> Filters \cup {AnyFilter}]
      /\ conns \in Seq(Clients) /\ Distinct(conns)
      /\ \A i \in DOMAIN conns : phase[conns[i]] \in {"in", "leaving"}
  BY DEF HubInv, ConnInv, Elements
<1>2. /\ \A i \in DOMAIN lockq : lockq[i].op \in {"join", "leave", "send"}
      /\ \A i \in 2..Len(lockq) : lockq[i].op = "send" => lockq[i].at = 0
  <2>1. lockq \in Seq(Tasks)
    BY DEF HubInv, QueueInv, IsQueue
  <2>2. \A i \in DOMAIN lockq : lockq[i] \in Tasks
    BY <2>1
  <2>3. \A i \in 2..Len(lockq) : i \in DOMAIN lockq /\ i # 1
    BY <2>1
  <2>4. \A i \in DOMAIN lockq : lockq[i].op = "send" => (i # 1 => lockq[i].at = 0)
    BY DEF HubInv, QueueInv, IsQueue
  <2>5. \A t \in Tasks : t.op \in {"join", "leave", "send"}
    BY DEF Tasks, Sends
  <2> QED BY <2>2, <2>3, <2>4, <2>5
<1>3. /\ soon \in Seq(Alerts) /\ store \subseteq Alerts /\ diagnosed \subseteq Alerts
      /\ rest \in [Loops -> Seq(Messages)] /\ published \in Seq(Messages)
  BY DEF HubInv, SenderInv, FeedInv
<1> QED BY <1>1, <1>2, <1>3 DEF TypeOK, Distinct

\* Every variable has its type, no connection is listed twice or listed when its endpoint
\* has left, and only the task that holds the lock is in the middle of a broadcast.
THEOREM HubTypeCorrect == Spec => []TypeOK
<1> QED BY HubInvariant, HubInvTypes, PTL

\* What is ahead of a connection is an alert of the broadcast that has the lock.
LEMMA NothingOwedIsLost == HubInv => NothingMissed
<1> SUFFICES ASSUME HubInv, NEW q \in owed PROVE Received(q[1], q[2]) \/ InFlight(q[2])
  BY DEF NothingMissed
<1>1. Received(q[1], q[2]) \/ Waiting(q[2]) \/ Ahead(q[1], q[2])
  BY DEF HubInv, OwedInv
<1>2. Waiting(q[2]) => InFlight(q[2])
  BY DEF Waiting, InFlight
<1>3. ASSUME Ahead(q[1], q[2]) PROVE InFlight(q[2])
  <2>1. lockq \in Seq(Tasks) /\ lockq # <<>> /\ lockq[1].op = "send" /\ lockq[1].at # 0
    BY <1>3 DEF Ahead, Running, HubInv, QueueInv, IsQueue
  <2>2. 1 \in DOMAIN lockq
    BY <2>1, AppendFacts
  <2>3. lockq[1] \in Sends
    BY <2>1, <2>2, TaskForms
  <2>4. conns \in Seq(Clients) /\ lockq[1].at \in Places(lockq[1], 1)
    BY <1>3 DEF Ahead, HubInv, ConnInv, FeedInv
  <2>5. PICK x \in Places(lockq[1], lockq[1].at) : lockq[1].msgs[MsgAt(lockq[1], x)] = AlertMsg(q[2])
    BY <1>3 DEF Ahead, AheadOf
  <2>6. Sending(1)
    BY <2>1, <2>4 DEF Sending, Places
  <2>7. x \in Places(lockq[1], 1)
    BY <2>1, <2>5, <2>6, SendingFacts
  <2>8. MsgAt(lockq[1], x) \in DOMAIN lockq[1].msgs
    BY <2>3, <2>4, <2>7, PlaceFacts
  <2>9. q[2] \in AlertsIn(lockq[1].msgs)
    BY <2>5, <2>8 DEF AlertsIn, AlertMsg
  <2> QED BY <2>1, <2>2, <2>9 DEF InFlight
<1> QED BY <1>1, <1>2, <1>3

\* A connection that was in when an alert was stored, and stayed well with a filter that
\* lets it through, has received it once no task has it any more: stale connections that
\* are collected during the loop (websocket.py:103-116) cost the others nothing.
THEOREM NothingEverMissed == Spec => []NothingMissed
<1> QED BY HubInvariant, NothingOwedIsLost, PTL

-----------------------------------------------------------------------------
(* Every step of the hub is one of the feed, or leaves it as it is. *)

\* The task that gets the lock publishes its messages.
LEMMA AcquiredPublishes ==
  ASSUME HubInv, lockq # <<>>, Acquired(1)
  PROVE  F!Publish
<1>1. published' = published \o lockq[1].msgs /\ got' = got /\ lockq[1].op = "send"
  BY DEF Acquired
<1>2. published \in Seq(Messages) /\ lockq \in Seq(Tasks)
  BY DEF HubInv, FeedInv, QueueInv, IsQueue
<1>3. lockq[1].msgs \in Seq(Messages)
  <2>1. 1 \in DOMAIN lockq
    BY <1>2, AppendFacts
  <2>2. lockq[1] \in Sends
    BY <1>1, <1>2, <2>1, TaskForms
  <2> QED BY <2>2, TaskForms
<1> DEFINE ms == lockq[1].msgs
           n == Len(published)
           k == Len(ms)
<1>4. /\ published \o ms \in Seq(Messages) /\ Len(published \o ms) = n + k
      /\ \A i \in 1..(n + k) :
           (published \o ms)[i] = IF i <= n THEN published[i] ELSE ms[i - n]
  BY <1>2, <1>3, ConcatProperties
<1>5. n \in Nat /\ k \in Nat /\ published' = published \o ms
  BY <1>1, <1>2, <1>3
<1> HIDE DEF ms, n, k
<1>6. /\ published' \in Seq(Messages) /\ Len(published') = n + k /\ n <= n + k /\ n + k \in Nat
      /\ \A i \in 1..n : published'[i] = published[i]
  BY <1>4, <1>5
<1>7. published = SubSeq(published', 1, n)
  <2>1. SubSeq(published', 1, n) = [i \in 1..n |-> published'[i]]
    BY <1>5, <1>6
  <2>2. published = [i \in 1..n |-> published[i]]
    BY <1>2 DEF n
  <2> QED BY <1>6, <2>1, <2>2
<1> QED BY <1>1, <1>6, <1>7 DEF F!Publish, n

\* A send that completes delivers the message at a place after all that the connection has.
LEMMA SendDelivers ==
  ASSUME HubInv, lockq # <<>>, SendText(1)
  PROVE  F!FeedNext \/ UNCHANGED <<published, got>>
<1> DEFINE t == lockq[1]
           p == lockq[1].at
           k == t.base + MsgAt(t, p)
           c0 == ConnAt(t, p)
<1>1. /\ Sending(1) /\ published' = published
      /\ c0 \in dead => got' = got
      /\ c0 \notin dead => got' = [got EXCEPT ![c0] = Append(@, k)]
  BY DEF SendText, Target
<1>2. /\ t \in Sends /\ p \in Places(t, 1) /\ t.base \in Nat
      /\ \A m \in DOMAIN t.msgs : t.base + m \in 1..Len(published)
      /\ \A q \in Places(t, p) : \A e \in DOMAIN got[ConnAt(t, q)] :
           got[ConnAt(t, q)][e] < t.base + MsgAt(t, q)
  BY <1>1, SendingFacts
<1>3. conns \in Seq(Clients) /\ published \in Seq(Messages)
  BY DEF HubInv, ConnInv, FeedInv
<1> HIDE DEF t, p
<1>4. c0 \in Clients /\ MsgAt(t, p) \in DOMAIN t.msgs
  BY <1>2, <1>3, PlaceFacts
<1>5. k \in DOMAIN published
  BY <1>2, <1>3, <1>4
<1>6. p \in Places(t, p)
  <2> DEFINE end == Len(conns) * Len(t.msgs)
  <2>1. \A a : Places(t, a) = a..end
    BY DEF Places
  <2>2. end \in Nat
    BY <1>2, <1>3 DEF Sends
  <2> HIDE DEF end
  <2> QED BY <1>2, <2>1, <2>2
<1>7. \A e \in DOMAIN got[c0] : got[c0][e] < k
  BY <1>2, <1>6
<1> HIDE DEF k, c0
<1> QED BY <1>1, <1>4, <1>5, <1>7 DEF F!FeedNext, F!Deliver

LEMMA HubStepIsFeedStep ==
  ASSUME HubInv, [Next]_vars
  PROVE  [F!FeedNext]_(F!feedVars)
<1> SUFFICES F!FeedNext \/ UNCHANGED <<published, got>>
  BY DEF F!feedVars
<1>1. CASE Peers
  BY <1>1 DEF Peers, Connect, Die, SetFilter, histVars
<1>2. CASE Senders
  BY <1>2 DEF Senders, ReportAlert, DiagnosisReady, DetectorPass, DetectorFails, SummaryTick,
              histVars
<1>3. CASE \E c \in Clients : Disconnect(c)
  BY <1>3 DEF Disconnect, histVars
<1>4. CASE ScheduleBroadcast
  BY <1>4 DEF ScheduleBroadcast, histVars
<1>5. CASE \E i \in DOMAIN lockq : LockStep(i) \/ (HoldsLock(i) /\ SendRaises(i))
  <2>1. 1 \in DOMAIN lockq /\ (LockStep(1) \/ SendRaises(1))
    BY <1>5 DEF LockStep, HoldsLock
  <2>2. lockq # <<>>
    BY <2>1
  <2>3. CASE Joined(1) \/ Left(1) \/ SendClosed(1) \/ SendRaises(1)
    BY <2>3 DEF Joined, Left, SendClosed, SendRaises, histVars
  <2>4. CASE Acquired(1)
    BY <2>2, <2>4, AcquiredPublishes DEF F!FeedNext
  <2>5. CASE SendText(1)
    BY <2>2, <2>5, SendDelivers
  <2> QED BY <2>1, <2>3, <2>4, <2>5 DEF LockStep
<1>6. CASE UNCHANGED vars
  BY <1>6 DEF vars, histVars
<1> QED BY <1>1, <1>2, <1>3, <1>4, <1>5, <1>6 DEF Next

\* The hub implements the feed: all connections receive the messages in one order, each at
\* most once, whatever joins, leaves, dies and raises (websocket.py:103-116).
THEOREM HubImplementsFeed == Spec => ImplementsFeed
<1>1. Init => F!FeedInit
  BY DEF Init, F!FeedInit
<1>2. HubInv /\ [Next]_vars => [F!FeedNext]_(F!feedVars)
  BY HubStepIsFeedStep
<1> QED BY <1>1, <1>2, HubInvariant, PTL DEF Spec, ImplementsFeed, F!FeedSpec
=============================================================================
