------------------------ MODULE StallDetectionProofs ------------------------
(***************************************************************************)
(* Proofs about the registry of jobs and the training_stalled detector,    *)
(* for any jobs, nodes, steps, capacity and times.                         *)
(***************************************************************************)
EXTENDS StallDetection, SequenceTheorems, TLAPS

USE JobAssumption

-----------------------------------------------------------------------------
(* Sequences. *)

\* What is left of a sequence without its element at i.
LEMMA RemoveAtProperties ==
  ASSUME NEW S, NEW s \in Seq(S), NEW i \in DOMAIN s
  PROVE  /\ Seqs!RemoveAt(s, i) \in Seq(S)
         /\ Len(Seqs!RemoveAt(s, i)) = Len(s) - 1
         /\ \A k \in 1..(Len(s) - 1) :
              Seqs!RemoveAt(s, i)[k] = IF k < i THEN s[k] ELSE s[k + 1]
<1> DEFINE front == SubSeq(s, 1, i - 1)
           back  == SubSeq(s, i + 1, Len(s))
<1>1. Len(s) \in Nat /\ i \in 1..Len(s)
  OBVIOUS
<1>2. front \in Seq(S) /\ Len(front) = i - 1 /\ \A k \in 1..(i - 1) : front[k] = s[k]
  BY <1>1, SubSeqProperties
<1>3. /\ back \in Seq(S) /\ Len(back) = Len(s) - i
      /\ \A k \in 1..(Len(s) - i) : back[k] = s[i + k]
  BY <1>1, SubSeqProperties
<1> HIDE DEF front, back
<1>4. /\ front \o back \in Seq(S) /\ Len(front \o back) = Len(s) - 1
      /\ \A k \in 1..(Len(s) - 1) :
           (front \o back)[k] = IF k < i THEN front[k] ELSE back[k - i + 1]
  BY <1>1, <1>2, <1>3, ConcatProperties, SMTT(30)
<1>5. \A k \in 1..(Len(s) - 1) : (front \o back)[k] = IF k < i THEN s[k] ELSE s[k + 1]
  <2> TAKE k \in 1..(Len(s) - 1)
  <2>1. CASE k < i
    BY <1>1, <1>2, <1>4, <2>1
  <2>2. CASE ~(k < i)
    <3>1. k - i + 1 \in 1..(Len(s) - i) /\ i + (k - i + 1) = k + 1
      BY <1>1, <2>2
    <3>2. back[k - i + 1] = s[k + 1]
      BY <1>3, <3>1
    <3> QED
      BY <1>4, <2>2, <3>2
  <2> QED
    BY <2>1, <2>2
<1>6. Seqs!RemoveAt(s, i) = front \o back
  BY DEF Seqs!RemoveAt, front, back
<1> QED
  BY <1>4, <1>5, <1>6

LEMMA MoveToEndProperties ==
  ASSUME NEW S, NEW s \in Seq(S), NEW i \in DOMAIN s
  PROVE  /\ MoveToEnd(s, i) \in Seq(S)
         /\ Len(MoveToEnd(s, i)) = Len(s)
         /\ \A k \in 1..Len(s) :
              MoveToEnd(s, i)[k] = IF k = Len(s) THEN s[i]
                                   ELSE IF k < i THEN s[k] ELSE s[k + 1]
<1> DEFINE rest == Seqs!RemoveAt(s, i)
<1>1. /\ rest \in Seq(S) /\ Len(rest) = Len(s) - 1
      /\ \A k \in 1..(Len(s) - 1) : rest[k] = IF k < i THEN s[k] ELSE s[k + 1]
  BY RemoveAtProperties
<1>2. MoveToEnd(s, i) = Append(rest, s[i])
  BY DEF MoveToEnd
<1>3. Len(s) \in Nat /\ s[i] \in S
  OBVIOUS
<1> HIDE DEF rest
<1>4. /\ Append(rest, s[i]) \in Seq(S) /\ Len(Append(rest, s[i])) = Len(s)
      /\ \A k \in 1..(Len(s) - 1) : Append(rest, s[i])[k] = rest[k]
      /\ Append(rest, s[i])[Len(s)] = s[i]
  BY <1>1, <1>3, AppendProperties
<1> QED
  BY <1>1, <1>2, <1>3, <1>4

-----------------------------------------------------------------------------
(* The registry. *)

\* The registry is the end of the history of registrations, in which no job comes twice.
JobInv ==
  /\ JobTypeOK
  /\ \A a, b \in DOMAIN recency : recency[a] = recency[b] => a = b
  /\ KeepsNewest

\* Where the jobs of the registry are in the history.
LEMMA JobPlaces ==
  ASSUME JobInv
  PROVE  /\ Len(jobs) \in Nat /\ Len(recency) \in Nat
         /\ Len(jobs) = IF Len(recency) > MaxJobs THEN MaxJobs ELSE Len(recency)
         /\ \A i \in 1..Len(jobs) : jobs[i].id = recency[Len(recency) - Len(jobs) + i]
         /\ jobs \in Seq(Entry) /\ recency \in Seq(Jobs)
<1> DEFINE kept == IF Len(recency) > MaxJobs THEN MaxJobs ELSE Len(recency)
<1>1. jobs \in Seq(Entry) /\ recency \in Seq(Jobs)
  BY DEF JobInv, JobTypeOK
<1>2. Len(jobs) = kept /\ \A i \in 1..kept : jobs[i].id = recency[Len(recency) - kept + i]
  BY DEF JobInv, KeepsNewest
<1>3. \A i \in 1..Len(jobs) : jobs[i].id = recency[Len(recency) - Len(jobs) + i]
  BY <1>2
<1>4. Len(jobs) \in Nat /\ Len(recency) \in Nat
  BY <1>1, LenProperties
<1> QED
  BY <1>1, <1>2, <1>3, <1>4, Zenon

\* So a job has one entry, and its status is that of its entry.
LEMMA OneEntry ==
  ASSUME JobInv
  PROVE  \A i, k \in DOMAIN jobs : jobs[i].id = jobs[k].id => i = k
<1> DEFINE n == Len(jobs)
           m == Len(recency)
<1>1. /\ n \in Nat /\ m \in Nat /\ n <= m /\ DOMAIN jobs = 1..n /\ DOMAIN recency = 1..m
      /\ \A i \in 1..n : jobs[i].id = recency[m - n + i]
  BY JobPlaces, JobAssumption
<1>2. \A a, b \in 1..m : recency[a] = recency[b] => a = b
  BY <1>1 DEF JobInv
<1> HIDE DEF n, m
<1> SUFFICES ASSUME NEW i \in 1..n, NEW k \in 1..n, jobs[i].id = jobs[k].id PROVE i = k
  BY <1>1
<1>3. m - n + i \in 1..m /\ m - n + k \in 1..m
  BY <1>1
<1>4. recency[m - n + i] = recency[m - n + k]
  BY <1>1
<1>5. m - n + i = m - n + k
  BY <1>2, <1>3, <1>4
<1> QED
  BY <1>1, <1>5

LEMMA StatusOfEntry ==
  ASSUME JobInv, NEW i \in DOMAIN jobs
  PROVE  StatusOf(jobs[i].id) = jobs[i].status
<1>1. \A k \in DOMAIN jobs : jobs[k].id = jobs[i].id => k = i
  BY OneEntry
<1>2. Known(jobs[i].id)
  BY DEF Known, JobIds
<1> QED
  BY <1>1, <1>2 DEF StatusOf

LEMMA StatusOfUnknown == \A j : ~Known(j) => StatusOf(j) = "unknown"
BY DEF StatusOf

LEMMA StatusType ==
  ASSUME JobInv, NEW j
  PROVE  StatusOf(j) \in JobStatuses \cup {"unknown"}
<1>1. CASE Known(j)
  <2>1. PICK i \in DOMAIN jobs : jobs[i].id = j
    BY <1>1 DEF Known, JobIds
  <2>2. jobs[i] \in Entry
    BY JobPlaces
  <2> QED
    BY <2>1, <2>2, StatusOfEntry DEF Entry
<1> QED
  BY <1>1, StatusOfUnknown

\* An update that keeps the entries' ids, as every one but a registration does.
LEMMA UpdateKeepsJobs ==
  ASSUME JobInv, NEW upd, jobs' = [i \in DOMAIN jobs |-> upd[i]],
         \A i \in DOMAIN jobs : upd[i] \in Entry /\ upd[i].id = jobs[i].id,
         mark' \in Mark \cup {NoMark}, declared' \in [Jobs -> JobStatuses],
         UNCHANGED recency
  PROVE  JobInv'
<1>1. DOMAIN jobs = 1..Len(jobs) /\ Len(jobs) \in Nat
  BY JobPlaces
<1>2. jobs' \in Seq(Entry) /\ Len(jobs') = Len(jobs)
  BY <1>1
<1>3. \A i \in 1..Len(jobs) : jobs'[i].id = jobs[i].id
  BY <1>1
<1>4. KeepsNewest'
  BY <1>2, <1>3, JobPlaces DEF KeepsNewest
<1> QED
  BY <1>2, <1>4 DEF JobInv, JobTypeOK

LEMMA JobStart == JobInit => JobInv
<1> SUFFICES ASSUME JobInit PROVE JobInv
  OBVIOUS
<1>1. jobs \in Seq(Entry) /\ recency \in Seq(Jobs) /\ Len(jobs) = 0 /\ Len(recency) = 0
  BY EmptySeq DEF JobInit
<1> QED
  BY <1>1 DEF JobInit, JobInv, JobTypeOK, KeepsNewest, JobStatuses

\* A job of the registry is put at the end of both.
LEMMA RegisterKnown ==
  ASSUME JobInv, NEW j \in Jobs, Known(j), RegisterAgain(j),
         \/ \E i \in DOMAIN recency : recency[i] = j /\ recency' = MoveToEnd(recency, i)
         \/ j \notin {recency[i] : i \in DOMAIN recency}
  PROVE  /\ jobs' \in Seq(Entry) /\ recency' \in Seq(Jobs)
         /\ \A a, b \in DOMAIN recency' : recency'[a] = recency'[b] => a = b
         /\ KeepsNewest'
<1> DEFINE n == Len(jobs)
           m == Len(recency)
<1>1. /\ n \in Nat /\ m \in Nat /\ n = (IF m > MaxJobs THEN MaxJobs ELSE m)
      /\ \A i \in 1..n : jobs[i].id = recency[m - n + i]
      /\ jobs \in Seq(Entry) /\ recency \in Seq(Jobs)
      /\ DOMAIN recency = 1..m /\ DOMAIN jobs = 1..n
  BY JobPlaces
<1>2. PICK p \in 1..n : jobs[p].id = j /\ jobs' = MoveToEnd(jobs, p)
  BY <1>1 DEF RegisterAgain
<1> DEFINE q == m - n + p
<1>3. q \in 1..m /\ recency[q] = j
  BY <1>1, <1>2
<1>4. recency' = MoveToEnd(recency, q)
  BY <1>1, <1>3 DEF JobInv
<1> HIDE DEF n, m
<1>5. /\ jobs' \in Seq(Entry) /\ Len(jobs') = n
      /\ \A k \in 1..n : jobs'[k] = IF k = n THEN jobs[p]
                                    ELSE IF k < p THEN jobs[k] ELSE jobs[k + 1]
  <2>1. jobs \in Seq(Entry) /\ p \in DOMAIN jobs
    BY <1>1
  <2> QED
    BY <1>2, <2>1, MoveToEndProperties, Zenon DEF n
<1>6. /\ recency' \in Seq(Jobs) /\ Len(recency') = m
      /\ \A k \in 1..m : recency'[k] = IF k = m THEN recency[q]
                                       ELSE IF k < q THEN recency[k] ELSE recency[k + 1]
  <2>1. recency \in Seq(Jobs) /\ q \in DOMAIN recency
    BY <1>1, <1>3
  <2> QED
    BY <1>4, <2>1, MoveToEndProperties, Zenon DEF m
<1>7. \A a, b \in 1..m : recency'[a] = recency'[b] => a = b
  <2> DEFINE old(k) == IF k = m THEN q ELSE IF k < q THEN k ELSE k + 1
  <2>1. \A k \in 1..m : old(k) \in 1..m /\ recency'[k] = recency[old(k)]
    BY <1>1, <1>3, <1>6
  <2>2. \A a, b \in 1..m : old(a) = old(b) => a = b
    BY <1>1, <1>3
  <2>3. \A a, b \in 1..m : recency[a] = recency[b] => a = b
    BY <1>1 DEF JobInv
  <2> QED
    BY <2>1, <2>2, <2>3
<1>8. ASSUME NEW k \in 1..n PROVE jobs'[k].id = recency'[m - n + k]
  <2>1. m - n + k \in 1..m /\ (m - n + k = m <=> k = n) /\ (m - n + k < q <=> k < p)
    BY <1>1, <1>2
  <2>2. CASE k = n
    BY <1>2, <1>3, <1>5, <1>6, <2>1, <2>2
  <2>3. CASE k # n /\ k < p
    BY <1>1, <1>5, <1>6, <2>1, <2>3
  <2>4. CASE k # n /\ ~(k < p)
    <3>1. k + 1 \in 1..n /\ m - n + (k + 1) = (m - n + k) + 1
      BY <1>1, <2>4
    <3>2. jobs'[k] = jobs[k + 1] /\ recency'[m - n + k] = recency[(m - n + k) + 1]
      BY <1>5, <1>6, <2>1, <2>4
    <3> QED
      BY <1>1, <3>1, <3>2
  <2> QED
    BY <2>2, <2>3, <2>4
<1>9. KeepsNewest'
  BY <1>1, <1>5, <1>6, <1>8, ZenonT(30) DEF KeepsNewest, n, m
<1> QED
  BY <1>5, <1>6, <1>7, <1>9

\* A new job is put at the end, and the oldest is dropped when the registry is full.
LEMMA NewEntry ==
  ASSUME JobInv, NEW j \in Jobs, RegisterNew(j)
  PROVE  LET n == Len(jobs)
             d == IF n + 1 > MaxJobs THEN 1 ELSE 0
         IN /\ jobs' \in Seq(Entry) /\ Len(jobs') = n + 1 - d
            /\ \A k \in 1..(n - d) : jobs'[k] = jobs[k + d]
            /\ jobs'[n + 1 - d].id = j
<1> DEFINE n == Len(jobs)
           new == [id |-> j, status |-> "registered"]
           all == Append(jobs, new)
<1>1. n \in Nat /\ jobs \in Seq(Entry)
  BY JobPlaces
<1>2. new \in Entry /\ new.id = j
  BY DEF Entry, JobStatuses
<1>3. jobs' = IF Len(all) > MaxJobs THEN Tail(all) ELSE all
  BY DEF RegisterNew
<1> HIDE DEF new
<1>4. /\ all \in Seq(Entry) /\ Len(all) = n + 1 /\ all # <<>>
      /\ \A k \in 1..n : all[k] = jobs[k]
      /\ all[n + 1] = new
  BY <1>1, <1>2, AppendProperties
<1> HIDE DEF all, n
<1>5. /\ Tail(all) \in Seq(Entry) /\ Len(Tail(all)) = n
      /\ \A k \in 1..n : Tail(all)[k] = all[k + 1]
  BY <1>1, <1>4, HeadTailProperties
<1>6. CASE n + 1 > MaxJobs
  <2>1. jobs' = Tail(all)
    BY <1>3, <1>4, <1>6
  <2>2. \A k \in 1..(n - 1) : jobs'[k] = jobs[k + 1]
    BY <1>1, <1>4, <1>5, <2>1
  <2>3. jobs'[n].id = j
    <3>1. n \in 1..n
      BY <1>1, <1>6
    <3> QED
      BY <1>2, <1>4, <1>5, <2>1, <3>1
  <2> QED
    BY <1>1, <1>5, <1>6, <2>1, <2>2, <2>3 DEF n
<1>7. CASE ~(n + 1 > MaxJobs)
  <2>1. jobs' = all
    BY <1>3, <1>4, <1>7
  <2> QED
    BY <1>1, <1>2, <1>4, <1>7, <2>1 DEF n
<1> QED
  BY <1>6, <1>7

LEMMA RegisterUnknown ==
  ASSUME JobInv, NEW j \in Jobs, ~Known(j), RegisterNew(j),
         \/ \E i \in DOMAIN recency : recency[i] = j /\ recency' = MoveToEnd(recency, i)
         \/ /\ j \notin {recency[i] : i \in DOMAIN recency}
            /\ recency' = Append(recency, j)
  PROVE  /\ jobs' \in Seq(Entry) /\ recency' \in Seq(Jobs)
         /\ \A a, b \in DOMAIN recency' : recency'[a] = recency'[b] => a = b
         /\ KeepsNewest'
<1> DEFINE n == Len(jobs)
           m == Len(recency)
           d == IF n + 1 > MaxJobs THEN 1 ELSE 0
<1>1. /\ n \in Nat /\ m \in Nat /\ n = (IF m > MaxJobs THEN MaxJobs ELSE m)
      /\ \A i \in 1..n : jobs[i].id = recency[m - n + i]
      /\ jobs \in Seq(Entry) /\ recency \in Seq(Jobs)
      /\ DOMAIN recency = 1..m /\ DOMAIN jobs = 1..n
  BY JobPlaces
<1>2. /\ jobs' \in Seq(Entry) /\ Len(jobs') = n + 1 - d
      /\ \A k \in 1..(n - d) : jobs'[k] = jobs[k + d]
      /\ jobs'[n + 1 - d].id = j
  BY NewEntry
<1>3. \A i \in 1..n : jobs[i].id # j
  BY <1>1 DEF Known, JobIds
<1>4. \A a, b \in 1..m : recency[a] = recency[b] => a = b
  BY <1>1 DEF JobInv
<1>5. DOMAIN recency = 1..m
  BY <1>1
<1> HIDE DEF n, m
<1>6. CASE \E i \in DOMAIN recency : recency[i] = j /\ recency' = MoveToEnd(recency, i)
  <2>1. PICK q \in 1..m : recency[q] = j /\ recency' = MoveToEnd(recency, q)
    BY <1>5, <1>6
  <2>2. q <= m - n /\ n = MaxJobs /\ d = 1
    <3>1. ASSUME q > m - n PROVE FALSE
      <4>1. q - (m - n) \in 1..n /\ m - n + (q - (m - n)) = q
        BY <1>1, <2>1, <3>1
      <4> QED
        BY <1>1, <1>3, <2>1, <4>1
    <3> QED
      BY <1>1, <3>1
  <2>3. /\ recency' \in Seq(Jobs) /\ Len(recency') = m
        /\ \A k \in 1..m : recency'[k] = IF k = m THEN recency[q]
                                         ELSE IF k < q THEN recency[k] ELSE recency[k + 1]
    <3>1. recency \in Seq(Jobs) /\ q \in DOMAIN recency
      BY <1>1
    <3> QED
      BY <2>1, <3>1, MoveToEndProperties, Zenon DEF m
  <2>4. \A a, b \in 1..m : recency'[a] = recency'[b] => a = b
    <3> DEFINE old(k) == IF k = m THEN q ELSE IF k < q THEN k ELSE k + 1
    <3>1. \A k \in 1..m : old(k) \in 1..m /\ recency'[k] = recency[old(k)]
      BY <1>1, <2>1, <2>3
    <3>2. \A a, b \in 1..m : old(a) = old(b) => a = b
      BY <1>1, <2>1
    <3> QED
      BY <1>4, <3>1, <3>2
  <2>5. ASSUME NEW k \in 1..n PROVE jobs'[k].id = recency'[m - n + k]
    <3>1. CASE k = n
      <4>1. jobs'[k].id = j /\ m - n + k = m /\ m \in 1..m
        BY <1>1, <1>2, <2>1, <2>2, <3>1, SMTT(30)
      <4> QED
        BY <2>1, <2>3, <4>1
    <3>2. CASE k # n
      <4>1. k \in 1..(n - 1) /\ k + 1 \in 1..n /\ m - n + (k + 1) = (m - n + k) + 1
        BY <1>1, <3>2
      <4>2. m - n + k \in 1..m /\ m - n + k # m /\ ~(m - n + k < q)
        BY <1>1, <2>1, <2>2, <4>1
      <4>3. jobs'[k] = jobs[k + 1] /\ recency'[m - n + k] = recency[(m - n + k) + 1]
        BY <1>2, <2>2, <2>3, <4>1, <4>2
      <4> QED
        BY <1>1, <4>1, <4>3
    <3> QED
      BY <3>1, <3>2
  <2>6. Len(jobs') = n
    BY <1>1, <1>2, <2>2
  <2>7. KeepsNewest'
    BY <1>1, <2>3, <2>5, <2>6 DEF KeepsNewest
  <2> QED
    BY <1>2, <2>3, <2>4, <2>7
<1>7. CASE /\ j \notin {recency[i] : i \in DOMAIN recency}
           /\ recency' = Append(recency, j)
  <2>1. /\ recency' \in Seq(Jobs) /\ Len(recency') = m + 1
        /\ \A k \in 1..m : recency'[k] = recency[k]
        /\ recency'[m + 1] = j
    <3>1. recency \in Seq(Jobs) /\ j \in Jobs
      BY <1>1
    <3>2. /\ Append(recency, j) \in Seq(Jobs) /\ Len(Append(recency, j)) = Len(recency) + 1
          /\ \A k \in 1..Len(recency) : Append(recency, j)[k] = recency[k]
          /\ Append(recency, j)[Len(recency) + 1] = j
      BY <3>1, AppendProperties
    <3> QED
      BY <1>7, <3>2 DEF m
  <2>2. \A k \in 1..m : recency[k] # j
    BY <1>5, <1>7
  <2>3. \A a, b \in 1..(m + 1) : recency'[a] = recency'[b] => a = b
    <3>1. \A a \in 1..(m + 1) : a \in 1..m \/ a = m + 1
      BY <1>1
    <3> QED
      BY <1>4, <2>1, <2>2, <3>1
  <2>4. /\ d \in 0..n /\ n + 1 - d = (IF m + 1 > MaxJobs THEN MaxJobs ELSE m + 1)
        /\ (m + 1) - (n + 1 - d) = m - n + d
    BY <1>1
  <2> HIDE DEF d
  <2>5. ASSUME NEW k \in 1..(n + 1 - d)
        PROVE  jobs'[k].id = recency'[(m + 1) - (n + 1 - d) + k]
    <3>1. CASE k = n + 1 - d
      <4>1. (m + 1) - (n + 1 - d) + k = m + 1
        BY <1>1, <2>4, <3>1
      <4> QED
        BY <1>2, <2>1, <3>1, <4>1
    <3>2. CASE k # n + 1 - d
      <4>1. k \in 1..(n - d) /\ k + d \in 1..n
        <5>1. n \in Nat /\ d \in Nat /\ d <= n /\ n + 1 - d \in Nat
          <6>1. n \in Nat
            BY <1>1
          <6>2. d \in 0..n
            BY <2>4
          <6> QED
            BY <6>1, <6>2
        <5>2. k \in Nat /\ 1 <= k /\ k <= n + 1 - d
          BY <5>1
        <5> QED
          BY <3>2, <5>1, <5>2
      <4>2. m - n + (k + d) \in 1..m /\ (m + 1) - (n + 1 - d) + k = m - n + (k + d)
        BY <1>1, <2>4, <4>1
      <4>3. jobs'[k] = jobs[k + d]
        BY <1>2, <4>1
      <4>4. recency'[m - n + (k + d)] = recency[m - n + (k + d)]
        BY <2>1, <4>2
      <4> QED
        BY <1>1, <4>1, <4>2, <4>3, <4>4
    <3> QED
      BY <3>1, <3>2
  <2>6. KeepsNewest'
    <3>1. /\ Len(recency') = m + 1 /\ Len(jobs') = n + 1 - d
          /\ n + 1 - d = (IF m + 1 > MaxJobs THEN MaxJobs ELSE m + 1)
      BY <1>2, <2>1, <2>4 DEF d
    <3> QED
      BY <2>5, <3>1 DEF KeepsNewest
  <2> QED
    BY <1>2, <2>1, <2>3, <2>6
<1> QED
  BY <1>6, <1>7

LEMMA RegisterStep ==
  ASSUME JobInv, NEW j \in Jobs, Register(j)
  PROVE  JobInv'
<1>1. /\ jobs' \in Seq(Entry) /\ recency' \in Seq(Jobs)
      /\ \A a, b \in DOMAIN recency' : recency'[a] = recency'[b] => a = b
      /\ KeepsNewest'
  <2>1. CASE Known(j) /\ RegisterAgain(j)
    BY <2>1, RegisterKnown DEF Register
  <2>2. CASE ~Known(j) /\ RegisterNew(j)
    BY <2>2, RegisterUnknown DEF Register
  <2> QED
    BY <2>1, <2>2 DEF Register
<1>2. mark' \in Mark \cup {NoMark} /\ declared' \in [Jobs -> JobStatuses]
  BY DEF Register, JobInv, JobTypeOK, JobStatuses
<1> QED
  BY <1>1, <1>2 DEF JobInv, JobTypeOK

\* An entry given another status.
LEMMA StatusField ==
  ASSUME NEW e \in Entry, NEW s
  PROVE  [e EXCEPT !.status = s] = [id |-> e.id, status |-> s]
BY DEF Entry

LEMMA UpdateStatusStep ==
  ASSUME JobInv, NEW j, NEW s \in JobStatuses, UpdateStatus(j, s),
         mark' \in Mark \cup {NoMark}, declared' \in [Jobs -> JobStatuses],
         UNCHANGED recency
  PROVE  JobInv'
<1> DEFINE upd == [i \in DOMAIN jobs |-> IF jobs[i].id = j
                                          THEN [id |-> jobs[i].id, status |-> s] ELSE jobs[i]]
<1>1. \A i \in DOMAIN jobs : jobs[i] \in Entry
  BY JobPlaces
<1>2. jobs' = [i \in DOMAIN jobs |-> upd[i]]
  BY <1>1, StatusField DEF UpdateStatus
<1>3. \A i \in DOMAIN jobs : upd[i] \in Entry /\ upd[i].id = jobs[i].id
  BY <1>1 DEF Entry
<1> HIDE DEF upd
<1> QED
  BY <1>2, <1>3, UpdateKeepsJobs

\* The registry does not change.
LEMMA SameJobs ==
  ASSUME JobInv, mark' \in Mark \cup {NoMark}, UNCHANGED <<jobs, recency, declared>>
  PROVE  JobInv'
BY DEF JobInv, JobTypeOK, KeepsNewest

LEMMA PatchStep ==
  ASSUME JobInv, NEW p \in Patches, PatchJobStatus(p[1], p[2])
  PROVE  JobInv'
<1>1. p[1] \in Jobs /\ p[2] \in JobStatuses
  OBVIOUS
<1>2. declared' \in [Jobs -> JobStatuses] /\ mark' \in Mark \cup {NoMark} /\ UNCHANGED recency
  BY <1>1 DEF PatchJobStatus, JobInv, JobTypeOK
<1> QED
  BY <1>1, <1>2, UpdateStatusStep DEF PatchJobStatus

LEMMA MarkReadStep ==
  ASSUME JobInv, NEW j \in Jobs \cup {NoJob}, NEW then \in Jobs \cup {NoJob},
         MarkRead(j, then)
  PROVE  JobInv'
<1> DEFINE first  == IF j = NoJob THEN then ELSE j
           second == IF j = NoJob THEN NoJob ELSE then
<1>1. mark' = IF first = NoJob THEN NoMark
              ELSE [job |-> first, seen |-> StatusOf(first), then |-> second]
  BY DEF MarkRead, StartMark
<1>2. StatusOf(first) \in JobStatuses \cup {"unknown"}
  BY StatusType
<1>3. mark' \in Mark \cup {NoMark}
  BY <1>1, <1>2 DEF Mark
<1> QED
  BY <1>3, SameJobs DEF MarkRead

LEMMA MarkWriteStep ==
  ASSUME JobInv, MarkWrite
  PROVE  JobInv'
<1>1. mark \in Mark
  BY DEF MarkWrite, JobInv, JobTypeOK
<1>2. mark' \in Mark \cup {NoMark}
  BY <1>1 DEF MarkWrite, Mark
<1>3. UNCHANGED <<recency, declared>> /\ declared \in [Jobs -> JobStatuses]
  BY DEF MarkWrite, JobInv, JobTypeOK
<1>4. CASE mark.seen = "registered"
  <2>1. UpdateStatus(mark.job, "running")
    BY <1>4 DEF MarkWrite, MarkAs
  <2>2. "running" \in JobStatuses
    BY DEF JobStatuses
  <2> QED
    BY <1>2, <1>3, <2>1, <2>2, UpdateStatusStep
<1>5. CASE mark.seen # "registered"
  BY <1>2, <1>3, <1>5, SameJobs DEF MarkWrite, MarkAs
<1> QED
  BY <1>4, <1>5

LEMMA MarkThenStep ==
  ASSUME JobInv, MarkThen
  PROVE  JobInv'
<1>1. mark \in Mark
  BY DEF MarkThen, JobInv, JobTypeOK, NoMark
<1>2. mark.then \in Jobs \cup {NoJob}
  BY <1>1 DEF Mark
<1> QED
  BY <1>2, MarkReadStep DEF MarkThen

LEMMA MarkProgressStep ==
  ASSUME JobInv, NEW j, NEW then, MarkProgress(j, then)
  PROVE  JobInv'
<1> DEFINE upd == [i \in DOMAIN jobs |->
                     IF jobs[i].id \in {j, then} /\ jobs[i].status = "registered"
                       THEN [id |-> jobs[i].id, status |-> "running"] ELSE jobs[i]]
<1>1. \A i \in DOMAIN jobs : jobs[i] \in Entry
  BY JobPlaces
<1>2. jobs' = [i \in DOMAIN jobs |-> upd[i]]
  BY <1>1, StatusField DEF MarkProgress
<1>3. \A i \in DOMAIN jobs : upd[i] \in Entry /\ upd[i].id = jobs[i].id
  BY <1>1 DEF Entry, JobStatuses
<1>4. mark' \in Mark \cup {NoMark} /\ declared' \in [Jobs -> JobStatuses] /\ UNCHANGED recency
  BY DEF MarkProgress, JobInv, JobTypeOK
<1> HIDE DEF upd
<1> QED
  BY <1>2, <1>3, <1>4, UpdateKeepsJobs

LEMMA JobStep == JobInv /\ [JobNext]_jobVars => JobInv'
<1> SUFFICES ASSUME JobInv, [JobNext]_jobVars PROVE JobInv'
  OBVIOUS
<1>1. ASSUME NEW j \in Jobs, Register(j) PROVE JobInv'
  BY <1>1, RegisterStep
<1>2. ASSUME NEW p \in Patches, PatchJobStatus(p[1], p[2]) PROVE JobInv'
  BY <1>2, PatchStep
<1>3. ASSUME NEW j \in Jobs, NEW then \in Jobs \cup {NoJob},
             MarkRead(j, then) \/ MarkProgress(j, then)
      PROVE  JobInv'
  BY <1>3, MarkReadStep, MarkProgressStep
<1>4. CASE MarkWrite \/ MarkThen
  BY <1>4, MarkWriteStep, MarkThenStep
<1>5. CASE UNCHANGED jobVars
  <2>1. mark' \in Mark \cup {NoMark} /\ UNCHANGED <<jobs, recency, declared>>
    BY <1>5 DEF jobVars, JobInv, JobTypeOK
  <2> QED
    BY <2>1, SameJobs
<1> QED
  BY <1>1, <1>2, <1>3, <1>4, <1>5 DEF JobNext

\* The registry holds the jobs registered last, in that order, whatever its capacity and
\* whatever telemetry and patches do to them meanwhile (stores.py, JobStore.register).
THEOREM NewestAlwaysKept == JobSpec => []KeepsNewest
<1>1. JobInv => KeepsNewest
  BY DEF JobInv
<1> QED
  BY <1>1, JobStart, JobStep, PTL DEF JobSpec

-----------------------------------------------------------------------------
(* The detector. *)

USE StallAssumption

BufferShape == [known : BOOLEAN, seen : Int, count : Int, last : Int, span : Int,
                step : Steps, job : Jobs \cup {NoJob}]

BuffersInv ==
  /\ buf \in [Nodes -> BufferShape]
  /\ \A n \in Nodes : buf[n].count > 0 => buf[n].known

\* The alerts of the last cooldown are just those the deduplication would suppress again.
AlertInv ==
  /\ \A k \in DOMAIN lastAlerted : lastAlerted[k] \in Nat
  /\ \A k \in DOMAIN lastAlerted : lastAlerted[k] < Cooldown => k \in DOMAIN recent
  /\ \A k \in DOMAIN recent :
       /\ recent[k] \in [job : Jobs \cup {NoJob}, age : Nat, gap : Int]
       /\ k \in DOMAIN lastAlerted /\ lastAlerted[k] = recent[k].age
       /\ recent[k].age < Cooldown \/ recent[k].age = 0
       /\ recent[k].gap >= Cooldown

\* A node with an alert for its step.
Reported(n) == \E k \in DOMAIN recent : k.node = n /\ k.step = buf[n].step

\* A node that is due is still to be visited, is being visited and as it was read, or has
\* its alert.
PassInv ==
  /\ todo \subseteq Nodes /\ due \subseteq Nodes
  /\ hist \in BufferShape
  /\ pass = "idle" => due = {}
  /\ \A n \in due : /\ buf[n].count > 0 /\ IsRunning(buf[n].job)
                    /\ MissingSample(buf[n], buf[n].seen) \/ SameStep(buf[n])
  /\ pass \in {"next", "job", "fresh"} =>
       \A n \in due : \/ n \in todo
                      \/ Reported(n)
                      \/ pass # "next" /\ node = n /\ hist = buf[n]
  /\ pass = "fresh" => IsRunning(hist.job)

StallInv == JobInv /\ BuffersInv /\ AlertInv /\ PassInv

\* Telemetry stops no job.
LEMMA RunningKept ==
  ASSUME JobInv, MarkWrite, NEW j, IsRunning(j)
  PROVE  IsRunning(j)'
<1>1. Known(j)
  BY StatusOfUnknown DEF IsRunning
<1>2. PICK i \in DOMAIN jobs : jobs[i].id = j
  BY <1>1 DEF Known, JobIds
<1>3. jobs[i].status = "running"
  BY <1>2, StatusOfEntry DEF IsRunning
<1>4. /\ DOMAIN jobs' = DOMAIN jobs
      /\ \A k \in DOMAIN jobs : jobs'[k].id = jobs[k].id
      /\ jobs'[i].status = "running"
  <2>1. CASE mark.seen = "registered"
    <3>1. \A k \in DOMAIN jobs : jobs[k] \in Entry
      BY JobPlaces
    <3>2. jobs' = [k \in DOMAIN jobs |-> IF jobs[k].id = mark.job
                                         THEN [id |-> jobs[k].id, status |-> "running"]
                                         ELSE jobs[k]]
      BY <2>1, <3>1, StatusField, ZenonT(30) DEF MarkWrite, MarkAs, UpdateStatus
    <3> QED
      BY <1>3, <3>2
  <2>2. CASE mark.seen # "registered"
    BY <1>3, <2>2 DEF MarkWrite, MarkAs
  <2> QED
    BY <2>1, <2>2
<1>5. \A k \in DOMAIN jobs : jobs[k].id = j => k = i
  BY <1>2, OneEntry
<1>6. StatusOf(j)' = jobs'[i].status
  <2>1. Known(j)'
    BY <1>2, <1>4 DEF Known, JobIds
  <2>2. \A k \in DOMAIN jobs' : jobs'[k].id = j <=> k = i
    BY <1>2, <1>4, <1>5
  <2> QED
    BY <1>4, <2>1, <2>2 DEF StatusOf
<1> QED
  BY <1>4, <1>6 DEF IsRunning

\* A running job is one of the jobs.
LEMMA RunningJob ==
  ASSUME JobInv, NEW j, IsRunning(j)
  PROVE  j \in Jobs
<1>1. PICK i \in DOMAIN jobs : jobs[i].id = j
  BY StatusOfUnknown DEF IsRunning, Known, JobIds
<1>2. jobs[i] \in Entry
  BY JobPlaces
<1> QED
  BY <1>1, <1>2 DEF Entry

-----------------------------------------------------------------------------
(* What each step does to the buffers and the alerts. *)

LEMMA SeenFields ==
  ASSUME NEW b \in BufferShape, NEW k, NEW s
  PROVE  [b EXCEPT !.known = k, !.seen = s] =
           [known |-> k, seen |-> s, count |-> b.count, last |-> b.last, span |-> b.span,
            step |-> b.step, job |-> b.job]
<1> DEFINE r == [known |-> k, seen |-> b.seen, count |-> b.count, last |-> b.last,
                 span |-> b.span, step |-> b.step, job |-> b.job]
<1>1. [b EXCEPT !.known = k] = r
  BY DEF BufferShape
<1>2. [b EXCEPT !.known = k, !.seen = s] = [[b EXCEPT !.known = k] EXCEPT !.seen = s]
  BY Zenon
<1>3. [r EXCEPT !.seen = s] =
        [known |-> k, seen |-> s, count |-> b.count, last |-> b.last, span |-> b.span,
         step |-> b.step, job |-> b.job]
  OBVIOUS
<1> QED
  BY <1>1, <1>2, <1>3, Zenon

LEMMA SeenShape ==
  ASSUME NEW b \in BufferShape, NEW age \in Int
  PROVE  Seen(b, age) \in BufferShape /\ Seen(b, age).known
<1>1. Min2(b.seen, age) \in Int
  BY DEF Min2, BufferShape
<1>2. Seen(b, age) = [known |-> TRUE, seen |-> Min2(b.seen, age), count |-> b.count,
                      last |-> b.last, span |-> b.span, step |-> b.step, job |-> b.job]
  BY SeenFields, Zenon DEF Seen
<1> QED
  BY <1>1, <1>2 DEF BufferShape

LEMMA TrainedShape ==
  ASSUME NEW b \in BufferShape, NEW age \in Int, NEW step \in Steps,
         NEW job \in Jobs \cup {NoJob}
  PROVE  Trained(b, age, step, job) \in BufferShape
<1> DEFINE joins == b.count > 0 /\ b.step = step
           c == IF joins THEN Min2(b.count + 1, MinSamples) ELSE 1
           w == IF joins THEN Min2(b.span + b.last - age, SampleCap) ELSE 0
           s == Seen(b, age)
<1>1. s \in BufferShape
  BY SeenShape
<1>2. c \in Int /\ w \in Int
  BY DEF Min2, BufferShape, SampleCap
<1>3. Trained(b, age, step, job) =
        [s EXCEPT !.count = c, !.span = w, !.last = age, !.step = step, !.job = job]
  BY DEF Trained
<1> HIDE DEF c, w, s
<1>4. Trained(b, age, step, job) =
        [known |-> s.known, seen |-> s.seen, count |-> c, last |-> age, span |-> w,
         step |-> step, job |-> job]
  BY <1>1, <1>3 DEF BufferShape
<1> QED
  BY <1>1, <1>2, <1>4 DEF BufferShape

\* A batch changes the buffer of its node only.
LEMMA IngestStep ==
  ASSUME BuffersInv, NEW n \in Nodes,
         NEW j \in SampleJobs \cup {NoJob}, NEW then \in SampleJobs \cup {NoJob},
         Ingest(n, j, then)
  PROVE  BuffersInv' /\ \A m \in Nodes \ {n} : buf'[m] = buf[m]
<1>1. PICK b \in BufferShape : b.known /\ buf' = [buf EXCEPT ![n] = b]
  <2>1. buf[n] \in BufferShape
    BY DEF BuffersInv
  <2>2. CASE \E age \in 0..MaxDelay : buf' = [buf EXCEPT ![n] = Seen(@, age)]
    <3>1. PICK age \in 0..MaxDelay : buf' = [buf EXCEPT ![n] = Seen(buf[n], age)]
      BY <2>2
    <3>2. age \in Int
      OBVIOUS
    <3>3. Seen(buf[n], age) \in BufferShape /\ Seen(buf[n], age).known
      BY <2>1, <3>2, SeenShape
    <3> QED
      BY <3>1, <3>3
  <2>3. CASE \E age \in 0..MaxDelay, seen \in 0..MaxDelay, step \in Steps :
               buf' = [buf EXCEPT ![n] = Seen(Trained(@, age, step, j), seen)]
    <3>1. PICK age \in 0..MaxDelay, seen \in 0..MaxDelay, step \in Steps :
            buf' = [buf EXCEPT ![n] = Seen(Trained(buf[n], age, step, j), seen)]
      BY <2>3
    <3>2. Trained(buf[n], age, step, j) \in BufferShape
      BY <2>1, TrainedShape
    <3>3. /\ Seen(Trained(buf[n], age, step, j), seen) \in BufferShape
          /\ Seen(Trained(buf[n], age, step, j), seen).known
      BY <3>2, SeenShape
    <3> QED
      BY <3>1, <3>3
  <2> QED
    BY <2>2, <2>3 DEF Ingest
<1> QED
  BY <1>1 DEF BuffersInv

LEMMA OlderShape ==
  ASSUME NEW b \in BufferShape
  PROVE  Older(b) \in BufferShape /\ Older(b).known = b.known /\ Older(b).count = b.count
<1> DEFINE s == Min2(b.seen + 1, SeenCap)
           l == Min2(b.last + 1, SampleCap)
<1>1. s \in Int /\ l \in Int
  BY DEF Min2, SeenCap, SampleCap, BufferShape
<1>2. Older(b) = [b EXCEPT !.seen = s, !.last = l]
  BY DEF Older
<1> HIDE DEF s, l
<1>3. Older(b) = [known |-> b.known, seen |-> s, count |-> b.count, last |-> l,
                  span |-> b.span, step |-> b.step, job |-> b.job]
  BY <1>2 DEF BufferShape
<1> QED
  BY <1>1, <1>3 DEF BufferShape

\* After a finding its key has an alert within the cooldown, new or not.
LEMMA EmitStep ==
  ASSUME AlertInv, hist \in BufferShape, NEW mode, Emit(mode)
  PROVE  /\ AlertInv'
         /\ DOMAIN recent \subseteq DOMAIN recent'
         /\ [node |-> node, step |-> hist.step, mode |-> mode] \in DOMAIN recent'
<1> DEFINE key == [node |-> node, step |-> hist.step, mode |-> mode]
<1> HIDE DEF key
<1>1. CASE key \in DOMAIN lastAlerted /\ lastAlerted[key] < Cooldown
  <2>1. UNCHANGED <<lastAlerted, recent>>
    BY <1>1 DEF Emit, alertVars, key
  <2>2. key \in DOMAIN recent
    BY <1>1 DEF AlertInv
  <2> QED
    BY <2>1, <2>2 DEF AlertInv, key
<1>2. CASE ~(key \in DOMAIN lastAlerted /\ lastAlerted[key] < Cooldown)
  <2> DEFINE g == IF key \in DOMAIN recent THEN recent[key].age ELSE Cooldown
             a == [job |-> hist.job, age |-> 0, gap |-> g]
  <2>1. lastAlerted' = With(lastAlerted, key, 0) /\ recent' = With(recent, key, a)
    BY <1>2 DEF Emit, Raise, key
  <2>2. g \in Int /\ g >= Cooldown
    <3>1. CASE key \in DOMAIN recent
      BY <1>2, <3>1 DEF AlertInv
    <3>2. CASE key \notin DOMAIN recent
      BY <3>2
    <3> QED
      BY <3>1, <3>2
  <2> HIDE DEF g
  <2>3. a \in [job : Jobs \cup {NoJob}, age : Nat, gap : Int] /\ a.age = 0 /\ a.gap >= Cooldown
    BY <2>2 DEF BufferShape
  <2> HIDE DEF a
  <2>4. /\ DOMAIN lastAlerted' = DOMAIN lastAlerted \cup {key}
        /\ \A k \in DOMAIN lastAlerted' : lastAlerted'[k] = IF k = key THEN 0 ELSE lastAlerted[k]
    BY <2>1 DEF With
  <2>5. /\ DOMAIN recent' = DOMAIN recent \cup {key}
        /\ \A k \in DOMAIN recent' : recent'[k] = IF k = key THEN a ELSE recent[k]
    BY <2>1 DEF With
  <2> QED
    BY <2>3, <2>4, <2>5 DEF AlertInv, key
<1> QED
  BY <1>1, <1>2

\* Time passes: an alert leaves the history when its cooldown is over.
LEMMA AlertsAge ==
  ASSUME AlertInv, Tick
  PROVE  AlertInv'
<1>1. /\ DOMAIN lastAlerted' = DOMAIN lastAlerted
      /\ \A k \in DOMAIN lastAlerted : lastAlerted'[k] = Min2(lastAlerted[k] + 1, AlertCap)
  BY DEF Tick
<1>2. /\ DOMAIN recent' = {k \in DOMAIN recent : recent[k].age + 1 < Cooldown}
      /\ \A k \in DOMAIN recent' : recent'[k] = [recent[k] EXCEPT !.age = @ + 1]
  BY DEF Tick
<1>3. ASSUME NEW k \in DOMAIN recent'
      PROVE  recent'[k] = [job |-> recent[k].job, age |-> recent[k].age + 1,
                           gap |-> recent[k].gap]
  <2>1. recent[k] \in [job : Jobs \cup {NoJob}, age : Nat, gap : Int]
    BY <1>2 DEF AlertInv
  <2> QED
    BY <1>2, <2>1
<1>4. AlertCap \in Nat /\ Cooldown < AlertCap
  BY DEF AlertCap
<1>5. ASSUME NEW k \in DOMAIN lastAlerted'
      PROVE  /\ lastAlerted'[k] \in Nat
             /\ lastAlerted'[k] < Cooldown => k \in DOMAIN recent'
  <2>1. lastAlerted[k] \in Nat
    BY <1>1 DEF AlertInv
  <2>2. lastAlerted'[k] \in Nat
    BY <1>1, <1>4, <2>1 DEF Min2
  <2>3. lastAlerted'[k] < Cooldown => lastAlerted[k] + 1 < Cooldown
    BY <1>1, <1>4, <2>1 DEF Min2
  <2>4. lastAlerted[k] + 1 < Cooldown => k \in DOMAIN recent /\ recent[k].age + 1 < Cooldown
    BY <1>1, <2>1 DEF AlertInv
  <2> QED
    BY <1>2, <2>2, <2>3, <2>4
<1>6. ASSUME NEW k \in DOMAIN recent'
      PROVE  /\ recent'[k] \in [job : Jobs \cup {NoJob}, age : Nat, gap : Int]
             /\ k \in DOMAIN lastAlerted' /\ lastAlerted'[k] = recent'[k].age
             /\ recent'[k].age < Cooldown
             /\ recent'[k].gap >= Cooldown
  <2>1. /\ recent[k] \in [job : Jobs \cup {NoJob}, age : Nat, gap : Int]
        /\ k \in DOMAIN lastAlerted /\ lastAlerted[k] = recent[k].age
        /\ recent[k].age + 1 < Cooldown /\ recent[k].gap >= Cooldown
    BY <1>2 DEF AlertInv
  <2>2. lastAlerted'[k] = recent[k].age + 1
    BY <1>1, <1>4, <2>1 DEF Min2
  <2> QED
    BY <1>1, <1>3, <2>1, <2>2
<1> QED
  BY <1>5, <1>6 DEF AlertInv

\* The eviction forgets only what the deduplication has no more use for.
LEMMA EvictionStep ==
  ASSUME AlertInv, EndPass
  PROVE  AlertInv'
<1>1. /\ DOMAIN lastAlerted' = {k \in DOMAIN lastAlerted : lastAlerted[k] <= 2 * Cooldown}
      /\ \A k \in DOMAIN lastAlerted' : lastAlerted'[k] = lastAlerted[k]
      /\ recent' = recent
  BY DEF EndPass, FreshKeys
<1>2. \A k \in DOMAIN recent : k \in DOMAIN lastAlerted'
  BY <1>1 DEF AlertInv
<1> QED
  BY <1>1, <1>2 DEF AlertInv

-----------------------------------------------------------------------------
(* The steps keep the invariant. *)

LEMMA StallStart == Init => StallInv
<1> SUFFICES ASSUME Init PROVE StallInv
  OBVIOUS
<1>1. NoBuffer \in BufferShape /\ ~(NoBuffer.count > 0)
  BY DEF NoBuffer, BufferShape, SeenCap, SampleCap
<1>2. BuffersInv
  BY <1>1 DEF Init, BuffersInv
<1>3. DOMAIN lastAlerted = {} /\ DOMAIN recent = {}
  BY DEF Init
<1>4. AlertInv
  BY <1>3 DEF AlertInv
<1>5. PassInv
  BY <1>1 DEF Init, PassInv
<1> QED
  BY <1>2, <1>4, <1>5, JobStart DEF Init, StallInv

\* A batch on a stream, or one of a request: its node is not due any more.
LEMMA BatchStep ==
  ASSUME StallInv, NEW n \in Nodes, StreamMetrics(n) \/ PostMetricsBatches(n)
  PROVE  StallInv'
<1>1. PICK j \in SampleJobs \cup {NoJob}, then \in SampleJobs \cup {NoJob} :
        /\ Ingest(n, j, then)
        /\ MarkRead(j, then) \/ (MarkProgress(j, then) /\ pass = "idle")
  BY DEF StreamMetrics, PostMetricsBatches, EventLoopFree
<1>2. JobInv'
  BY <1>1, MarkReadStep, MarkProgressStep DEF StallInv
<1>3. BuffersInv' /\ \A m \in Nodes \ {n} : buf'[m] = buf[m]
  BY <1>1, IngestStep DEF StallInv
<1>4. due' = due \ {n} /\ UNCHANGED <<pass, todo, node, hist, lastAlerted, recent>>
  BY DEF StreamMetrics, PostMetricsBatches, passVars, alertVars
<1>5. AlertInv'
  BY <1>4 DEF StallInv, AlertInv
<1>6. PassInv'
  <2>1. CASE pass = "idle"
    BY <1>4, <2>1 DEF StallInv, PassInv
  <2>2. CASE MarkRead(j, then)
    <3>1. \A k : IsRunning(k)' <=> IsRunning(k)
      BY <2>2 DEF MarkRead, IsRunning, StatusOf, Known, JobIds
    <3>2. \A m \in due' : m \in due /\ buf'[m] = buf[m]
      BY <1>3, <1>4 DEF StallInv, PassInv
    <3> QED
      BY <1>4, <3>1, <3>2 DEF StallInv, PassInv, Reported
  <2> QED
    BY <1>1, <2>1, <2>2
<1> QED
  BY <1>2, <1>3, <1>5, <1>6 DEF StallInv

LEMMA MarkStep ==
  ASSUME StallInv, MarkSteps
  PROVE  StallInv'
<1>1. JobInv'
  BY MarkWriteStep, MarkThenStep DEF StallInv, MarkSteps
<1>2. UNCHANGED <<buf, pass, todo, node, hist, lastAlerted, recent, due>>
  BY DEF MarkSteps, passVars, alertVars
<1>3. \A j : IsRunning(j) => IsRunning(j)'
  <2>1. CASE MarkWrite
    BY <2>1, RunningKept DEF StallInv
  <2>2. CASE MarkThen
    BY <2>2 DEF MarkThen, MarkRead, IsRunning, StatusOf, Known, JobIds
  <2> QED
    BY <2>1, <2>2 DEF MarkSteps
<1>4. BuffersInv' /\ AlertInv'
  BY <1>2 DEF StallInv, BuffersInv, AlertInv
<1>5. PassInv'
  BY <1>2, <1>3 DEF StallInv, PassInv, Reported
<1> QED
  BY <1>1, <1>4, <1>5 DEF StallInv

\* The handlers run when no pass does.
LEMMA HandlerStep ==
  ASSUME StallInv, JobHandlers
  PROVE  StallInv'
<1>1. JobInv'
  BY RegisterStep, PatchStep DEF StallInv, JobHandlers
<1>2. UNCHANGED <<buf, pass, todo, node, hist, lastAlerted, recent, due>> /\ pass = "idle"
  BY DEF JobHandlers, EventLoopFree, passVars, alertVars
<1>3. BuffersInv' /\ AlertInv' /\ PassInv'
  BY <1>2 DEF StallInv, BuffersInv, AlertInv, PassInv
<1> QED
  BY <1>1, <1>3 DEF StallInv

LEMMA NoBufferShape == NoBuffer \in BufferShape
BY DEF NoBuffer, BufferShape, SeenCap, SampleCap

\* The steps of a pass up to the check of a node change neither jobs nor alerts.
LEMMA ReadingStep ==
  ASSUME StallInv, StartPass \/ ListNodes \/ ReadHistory \/ CheckJob
  PROVE  StallInv'
<1>1. UNCHANGED <<jobs, mark, recency, declared, buf, lastAlerted, recent>>
  BY DEF StartPass, ListNodes, ReadHistory, CheckJob, jobVars, alertVars
<1>2. JobInv' /\ BuffersInv' /\ AlertInv'
  BY <1>1 DEF StallInv, JobInv, JobTypeOK, KeepsNewest, BuffersInv, AlertInv
<1>3. \A j : IsRunning(j)' <=> IsRunning(j)
  BY <1>1 DEF IsRunning, StatusOf, Known, JobIds
<1>4. \A n : Reported(n)' <=> Reported(n)
  BY <1>1 DEF Reported
<1> SUFFICES PassInv'
  BY <1>2 DEF StallInv
<1>5. CASE StartPass
  BY <1>1, <1>3, <1>5 DEF StartPass, StallInv, PassInv
<1>6. CASE ListNodes
  <2>1. \A n \in due : n \in Nodes /\ buf[n].known
    <3>1. \A n \in due : n \in Nodes /\ buf[n].count > 0
      BY DEF StallInv, PassInv
    <3> QED
      BY <3>1 DEF StallInv, BuffersInv
  <2>2. \A n \in due' : n \in todo'
    BY <1>6, <2>1 DEF ListNodes
  <2> QED
    BY <1>1, <1>3, <1>6, <2>2 DEF ListNodes, StallInv, PassInv
<1>7. CASE ReadHistory
  <2>1. PICK n \in todo :
          /\ todo' = todo \ {n}
          /\ \/ (buf[n].count = 0 \/ buf[n].job = NoJob) /\ NextNode
             \/ /\ buf[n].count > 0 /\ buf[n].job # NoJob
                /\ pass' = "job" /\ node' = n /\ hist' = buf[n]
    BY <1>7 DEF ReadHistory
  <2>2. pass = "next" /\ due' = due
    BY <1>7 DEF ReadHistory
  <2>3. n \in due => buf[n].count > 0 /\ buf[n].job # NoJob
    <3>1. n \in due => buf[n].count > 0 /\ IsRunning(buf[n].job)
      BY DEF StallInv, PassInv
    <3>2. IsRunning(buf[n].job) => buf[n].job \in Jobs
      BY RunningJob DEF StallInv
    <3> QED
      BY <3>1, <3>2
  <2>4. n \in Nodes /\ buf[n] \in BufferShape
    BY DEF StallInv, PassInv, BuffersInv
  <2>5. CASE (buf[n].count = 0 \/ buf[n].job = NoJob) /\ NextNode
    <3>1. n \notin due
      BY <2>3, <2>4, <2>5 DEF BufferShape
    <3> QED
      BY <1>1, <1>3, <1>4, <2>1, <2>2, <2>5, <3>1, NoBufferShape DEF NextNode, StallInv, PassInv
  <2>6. CASE pass' = "job" /\ node' = n /\ hist' = buf[n]
    BY <1>1, <1>3, <1>4, <2>1, <2>2, <2>4, <2>6 DEF StallInv, PassInv
  <2> QED
    BY <2>1, <2>5, <2>6
<1>8. CASE CheckJob
  <2>1. pass = "job" /\ UNCHANGED <<todo, due>>
    BY <1>8 DEF CheckJob
  <2>2. CASE IsRunning(hist.job) /\ pass' = "fresh" /\ UNCHANGED <<node, hist>>
    BY <1>1, <1>3, <1>4, <2>1, <2>2 DEF StallInv, PassInv
  <2>3. CASE ~IsRunning(hist.job) /\ NextNode
    <3>1. \A n \in due : IsRunning(buf[n].job)
      BY DEF StallInv, PassInv
    <3>2. \A n \in due : ~(node = n /\ hist = buf[n])
      BY <2>3, <3>1
    <3> QED
      BY <1>1, <1>3, <1>4, <2>1, <2>3, <3>2, NoBufferShape DEF NextNode, StallInv, PassInv
  <2> QED
    BY <1>8, <2>2, <2>3 DEF CheckJob
<1> QED
  BY <1>5, <1>6, <1>7, <1>8

\* A node that is due and as it was read is stalled in one of the two modes.
LEMMA CheckStep ==
  ASSUME StallInv, CheckStall
  PROVE  StallInv'
<1>1. /\ UNCHANGED <<jobs, mark, recency, declared, buf, todo, due>>
      /\ pass = "fresh" /\ NextNode
  BY DEF CheckStall, jobVars
<1>2. JobInv' /\ BuffersInv'
  BY <1>1 DEF StallInv, JobInv, JobTypeOK, KeepsNewest, BuffersInv
<1>3. \A j : IsRunning(j)' <=> IsRunning(j)
  BY <1>1 DEF IsRunning, StatusOf, Known, JobIds
<1>4. /\ AlertInv'
      /\ DOMAIN recent \subseteq DOMAIN recent'
      /\ node \in due /\ hist = buf[node] =>
           \E k \in DOMAIN recent' : k.node = node /\ k.step = hist.step
  <2> DEFINE missing == MissingSample(hist, buf[node].seen)
             key(mode) == [node |-> node, step |-> hist.step, mode |-> mode]
  <2>1. ASSUME NEW mode, Emit(mode)
        PROVE  /\ AlertInv' /\ DOMAIN recent \subseteq DOMAIN recent'
               /\ key(mode) \in DOMAIN recent'
    BY <2>1, EmitStep DEF StallInv, PassInv
  <2>2. CASE ~missing /\ ~SameStep(hist) /\ UNCHANGED alertVars
    <3>1. ~(node \in due /\ hist = buf[node])
      BY <2>2 DEF StallInv, PassInv
    <3> QED
      BY <2>2, <3>1 DEF StallInv, AlertInv, alertVars
  <2>3. CASE Emit("no_fresh_training_sample") \/ Emit("repeated_same_step")
    <3>1. PICK mode : Emit(mode)
      BY <2>3
    <3>2. AlertInv' /\ DOMAIN recent \subseteq DOMAIN recent' /\ key(mode) \in DOMAIN recent'
      BY <2>1, <3>1
    <3>3. key(mode).node = node /\ key(mode).step = hist.step
      OBVIOUS
    <3> QED
      BY <3>2, <3>3
  <2> QED
    BY <2>2, <2>3 DEF CheckStall
<1>5. \A n \in due : n \in todo \/ Reported(n)'
  <2> TAKE n \in due
  <2>1. CASE Reported(n)
    BY <1>1, <1>4, <2>1 DEF Reported
  <2>2. CASE node = n /\ hist = buf[n]
    BY <1>1, <1>4, <2>2 DEF Reported
  <2> QED
    BY <1>1, <2>1, <2>2 DEF StallInv, PassInv
<1>6. PassInv'
  BY <1>1, <1>3, <1>5, NoBufferShape DEF NextNode, StallInv, PassInv
<1> QED
  BY <1>2, <1>4, <1>6 DEF StallInv

LEMMA EndStep ==
  ASSUME StallInv, EndPass \/ Tick
  PROVE  StallInv'
<1>1. UNCHANGED <<jobs, mark, recency, declared, todo, node, hist>> /\ pass' = "idle" /\ due' = {}
  BY DEF EndPass, Tick, jobVars, passVars, StallInv, PassInv
<1>2. JobInv'
  BY <1>1 DEF StallInv, JobInv, JobTypeOK, KeepsNewest
<1>3. BuffersInv'
  <2>1. CASE EndPass
    BY <2>1 DEF EndPass, StallInv, BuffersInv
  <2>2. CASE Tick
    <3>1. \A n \in Nodes : buf[n] \in BufferShape
      BY DEF StallInv, BuffersInv
    <3>2. buf' = [n \in Nodes |-> Older(buf[n])]
      BY <2>2 DEF Tick
    <3> QED
      BY <3>1, <3>2, OlderShape DEF StallInv, BuffersInv
  <2> QED
    BY <2>1, <2>2
<1>4. AlertInv'
  BY AlertsAge, EvictionStep DEF StallInv
<1>5. PassInv'
  BY <1>1 DEF StallInv, PassInv
<1> QED
  BY <1>2, <1>3, <1>4, <1>5 DEF StallInv

LEMMA StallStep == StallInv /\ [Next]_vars => StallInv'
<1> SUFFICES ASSUME StallInv, [Next]_vars PROVE StallInv'
  OBVIOUS
<1>1. ASSUME NEW n \in Nodes, StreamMetrics(n) \/ PostMetricsBatches(n) PROVE StallInv'
  BY <1>1, BatchStep
<1>2. CASE MarkSteps
  BY <1>2, MarkStep
<1>3. CASE JobHandlers
  BY <1>3, HandlerStep
<1>4. CASE Pass
  BY <1>4, ReadingStep, CheckStep, EndStep DEF Pass
<1>5. CASE Tick
  BY <1>5, EndStep
<1>6. CASE UNCHANGED vars
  <2>1. UNCHANGED <<jobs, mark, recency, declared, buf, pass, todo, node, hist, lastAlerted,
                    recent, due>>
    BY <1>6 DEF vars, jobVars, passVars, alertVars
  <2>2. \A j : IsRunning(j)' <=> IsRunning(j)
    BY <2>1 DEF IsRunning, StatusOf, Known, JobIds
  <2> QED
    BY <2>1, <2>2 DEF StallInv, JobInv, JobTypeOK, KeepsNewest, BuffersInv, AlertInv, PassInv,
                      Reported
<1> QED
  BY <1>1, <1>2, <1>3, <1>4, <1>5, <1>6 DEF Next

LEMMA StallInvariant == Spec => []StallInv
BY StallStart, StallStep, PTL DEF Spec

\* Two stall alerts with one key are a cooldown apart, whatever the evictions forget.
THEOREM AlertsAlwaysSpaced == Spec => []AlertsSpaced
<1>1. StallInv => AlertsSpaced
  BY DEF StallInv, AlertInv, AlertsSpaced
<1> QED
  BY <1>1, StallInvariant, PTL

\* A pass leaves no stall unreported, for any nodes and jobs, although the node, its job
\* and its freshness are read at different moments and streams go on meanwhile.
THEOREM StallNeverMissed == Spec => []StallNotMissed
<1>1. StallInv => StallNotMissed
  <2> SUFFICES ASSUME StallInv, pass = "next", todo = {}, NEW n \in due
               PROVE  \E k \in DOMAIN recent :
                        /\ k.node = n /\ k.step = buf[n].step
                        /\ recent[k].age < Cooldown \/ recent[k].age = 0
    BY DEF StallNotMissed
  <2>1. Reported(n)
    BY DEF StallInv, PassInv
  <2> QED
    BY <2>1 DEF Reported, StallInv, AlertInv
<1> QED
  BY <1>1, StallInvariant, PTL

\* No alert is raised for a job that is not running at that moment, although its status
\* was read earlier in the pass.
THEOREM AlertsAlwaysWhileRunning == Spec => AlertsWhileRunning
<1>1. StallInv /\ [Next]_vars => [Raised => IsRunning(hist.job)]_vars
  BY DEF StallInv, PassInv, Raised
<1> QED
  BY <1>1, StallInvariant, PTL DEF Spec, AlertsWhileRunning
=============================================================================
