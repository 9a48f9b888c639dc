------------------------------ MODULE Channel -------------------------------
(***************************************************************************)
(* The shared page through which a training process hands its metrics to   *)
(* the sidecar: SolProbeCallback and SolProbeDiLoCoCallback write it,      *)
(* TrainingMetricsReader and DiLoCoMetricsReader read it, and nothing      *)
(* synchronises them. Neither side may assume an order between the copies  *)
(* of the fields of a record: the writer's memory copy is one action per   *)
(* field, in any order, and the reader reads one field at a time.          *)
(*                                                                         *)
(* Writes are numbered; a field holds the number of the write it is from.  *)
(* log_metric posts from threads of its own.                               *)
(***************************************************************************)
EXTENDS Integers, FiniteSets

CONSTANTS
  Payload,           \* the fields of a record beside the flag and the time
  CloseInvalidates,  \* whether close() clears the flag: only the DiLoCo callback's does
  StaleAfter,        \* the 5 seconds of the readers
  MaxWrites,         \* BOUND: writes, those of zeros included
  MaxPosts,          \* BOUND: log_metric calls under way
  MaxClock           \* BOUND: the clock

ASSUME ChannelAssumption ==
  /\ {"flag", "time", "idle", "dead"} \cap Payload = {}
  /\ CloseInvalidates \in BOOLEAN
  /\ {StaleAfter, MaxWrites, MaxPosts} \subseteq Nat /\ MaxClock \in Nat \ {0}

VARIABLES
  clock,    \* the clock of the node
  size,     \* of the file: 0, or 1 for that of a record
  page,     \* its fields: the write each is from
  valid,    \* the flag
  writes,   \* history: per write, its time, and whether it has been copied in full
  trainer,  \* the process: "none", "empty" (inside __init__), "open", or "closed"
  copying,  \* the fields the current write has still to copy
  posts,    \* the threads of log_metric
  warned,   \* _log_metric_warned
  reader,   \* the sidecar: "idle", the field to read next, or "dead"
  got,      \* the fields read so far
  base,     \* history: the last write completed when the read began
  sample    \* history: the record of the last read, if it returned one

fileVars   == <<size, page, valid, writes>>
readerVars == <<reader, got, base, sample>>
chVars     == <<clock, fileVars, trainer, copying, posts, warned, readerVars>>

Fields == {"flag", "time"} \cup Payload
Numbers == 0..MaxWrites
NoSample == <<>>

ChTypeOK ==
  /\ clock \in 0..MaxClock /\ size \in {0, 1} /\ {valid, warned} \subseteq BOOLEAN
  /\ page \in [Fields -> Numbers]
  /\ DOMAIN writes \subseteq Numbers
  /\ trainer \in {"none", "empty", "open", "closed"} /\ copying \subseteq Fields
  /\ posts \in 0..MaxPosts
  /\ reader \in {"idle", "dead"} \cup Fields
  /\ DOMAIN got \subseteq Fields /\ base \in Numbers

Latest == Cardinality(DOMAIN writes) - 1
Completed == {w \in DOMAIN writes : writes[w].done}
LastCompleted == CHOOSE w \in Completed : \A x \in Completed : x <= w

\* The history of writes with one more.
Started(time, done) ==
  [w \in 0..(Latest + 1) |-> IF w = Latest + 1 THEN [time |-> time, done |-> done] ELSE writes[w]]

Finished == [writes EXCEPT ![Latest].done = TRUE]

-----------------------------------------------------------------------------
(* The callbacks. *)

\* __init__ opens the file anew, which makes it empty, ...
Truncate ==
  /\ trainer \in {"none", "closed"} /\ copying = {}
  /\ Latest < MaxWrites - 1
  /\ trainer' = "empty" /\ warned' = FALSE
  /\ size' = 0
  /\ UNCHANGED <<clock, page, valid, writes, copying, posts, readerVars>>

\* ... fills it with zeros, and maps it.
FillZeros ==
  /\ trainer = "empty"
  /\ trainer' = "open"
  /\ size' = 1 /\ valid' = FALSE
  /\ page' = [f \in Fields |-> Latest + 1]
  /\ writes' = Started(0, TRUE)
  /\ UNCHANGED <<clock, copying, posts, warned, readerVars>>

\* MUTANT: the record is packed without one of its fields.
AllButOne == Fields \ {CHOOSE f \in Payload : TRUE}

Record == Fields

\* on_train_batch_end, on_inner_step, on_outer_step: the whole record is packed anew ...
WriteRecord ==
  /\ trainer = "open" /\ copying = {}
  /\ Latest < MaxWrites
  /\ writes' = Started(clock, FALSE)
  /\ copying' = Record
  /\ UNCHANGED <<clock, size, page, valid, trainer, posts, warned, readerVars>>

\* ... and copied to the page.
CopyField ==
  /\ \E f \in copying :
       /\ page' = [page EXCEPT ![f] = Latest]
       /\ valid' = (valid \/ f = "flag")
       /\ copying' = copying \ {f}
       /\ writes' = IF copying = {f} THEN Finished ELSE writes
  /\ UNCHANGED <<clock, size, trainer, posts, warned, readerVars>>

\* on_train_end, and close: both leave the rest of the record as it is.
End(invalidate) ==
  /\ trainer = "open" /\ copying = {}
  /\ trainer' = "closed"
  /\ valid' = (valid /\ ~invalidate)
  /\ UNCHANGED <<clock, size, page, writes, copying, posts, warned, readerVars>>

OnTrainEnd == End(TRUE)
Close      == End(CloseInvalidates)

\* The process ends, in the middle of a copy perhaps, and its daemon threads with it.
Crash ==
  /\ trainer \in {"empty", "open"}
  /\ trainer' = "none"
  /\ copying' = {} /\ posts' = 0
  /\ UNCHANGED <<clock, fileVars, warned, readerVars>>

\* Without a job or a backend to post to, it warns once.
LogMetric(configured) ==
  /\ trainer \in {"open", "closed"}
  /\ \/ configured /\ posts < MaxPosts /\ posts' = posts + 1 /\ UNCHANGED warned
     \/ ~configured /\ ~warned /\ warned' = TRUE /\ UNCHANGED posts
  /\ UNCHANGED <<clock, fileVars, trainer, copying, readerVars>>

\* A post is answered, or given up after two seconds: nobody learns which.
PostEnds ==
  /\ posts > 0
  /\ posts' = posts - 1
  /\ UNCHANGED <<clock, fileVars, trainer, copying, warned, readerVars>>

-----------------------------------------------------------------------------
(* The readers. *)

NothingRead == /\ reader' = "idle" /\ got' = <<>> /\ sample' = NoSample

Keep(f) == got' = [x \in DOMAIN got \cup {f} |-> IF x = f THEN page[f] ELSE got[x]]

\* The file is opened, mapped and measured.
MapFile ==
  /\ reader = "idle"
  /\ base' = LastCompleted
  /\ \/ size = 0 /\ NothingRead
     \/ size = 1 /\ reader' = "flag" /\ got' = <<>> /\ sample' = NoSample
  /\ UNCHANGED <<clock, fileVars, trainer, copying, posts, warned>>

ReadFlag ==
  /\ reader = "flag" /\ size = 1
  /\ \/ ~valid /\ NothingRead
     \/ valid /\ Keep("flag") /\ reader' = "time" /\ UNCHANGED sample
  /\ UNCHANGED <<clock, fileVars, trainer, copying, posts, warned, base>>

Fresh(t) == clock - t <= StaleAfter

\* A record of zeros has a time far in the past.
Written(w) == writes[w].time > 0

ReadTime ==
  /\ reader = "time" /\ size = 1
  /\ IF Fresh(writes[page["time"]].time) /\ Written(page["time"])
       THEN /\ Keep("time") /\ UNCHANGED sample
            /\ reader' \in Payload
       ELSE NothingRead
  /\ UNCHANGED <<clock, fileVars, trainer, copying, posts, warned, base>>

\* The rest of the record, field by field; the last one makes it a sample.
ReadField ==
  /\ reader \in Payload /\ size = 1
  /\ LET left == Payload \ (DOMAIN got \cup {reader}) IN
       /\ Keep(reader)
       /\ \/ reader' \in left /\ UNCHANGED sample
          \/ left = {} /\ reader' = "idle" /\ sample' = got'
  /\ UNCHANGED <<clock, fileVars, trainer, copying, posts, warned, base>>

\* The page of a file that has become empty cannot be read: the process gets SIGBUS.
ReadBeyondEnd ==
  /\ reader \in Fields /\ size = 0
  /\ reader' = "dead"
  /\ UNCHANGED <<clock, fileVars, trainer, copying, posts, warned, got, base, sample>>

\* BOUND: a read takes less than a unit of time.
ChTick ==
  /\ reader \in {"idle", "dead"} /\ clock < MaxClock
  /\ clock' = clock + 1 /\ sample' = NoSample
  /\ UNCHANGED <<fileVars, trainer, copying, posts, warned, reader, got, base>>

ChInit ==
  /\ clock = 1
  /\ size = 0 /\ page = [f \in Fields |-> 0] /\ valid = FALSE
  /\ writes = [w \in {0} |-> [time |-> 0, done |-> TRUE]]
  /\ trainer = "none" /\ copying = {} /\ posts = 0 /\ warned = FALSE
  /\ reader = "idle" /\ got = <<>> /\ base = 0 /\ sample = NoSample

ChNext ==
  \/ Truncate \/ FillZeros \/ WriteRecord \/ CopyField \/ OnTrainEnd \/ Close \/ Crash
  \/ (\E configured \in BOOLEAN : LogMetric(configured)) \/ PostEnds
  \/ MapFile \/ ReadFlag \/ ReadTime \/ ReadField \/ ReadBeyondEnd
  \/ ChTick

ChSpec == ChInit /\ [][ChNext]_chVars

-----------------------------------------------------------------------------
(* Properties. *)

\* A sample may mix fields of several writes, but none that was already overwritten when
\* the read began, and it tells of a training that has written lately: a finished or a
\* crashed one falls silent, whatever it left on the page (training.rs, "discard data
\* older than 5 seconds").
SampleRegular ==
  sample # NoSample =>
    /\ \A f \in Fields : sample[f] \in base..Latest
    /\ \E w \in DOMAIN writes : Written(w) /\ clock - writes[w].time <= StaleAfter

\* "we only read from the mmap; the PyTorch side is the writer" (training.rs:50): mapping
\* the file needs no more care than that, and reading never kills the sidecar.
ReaderSurvives == reader # "dead"
=============================================================================
