------------------------------- MODULE Panes -------------------------------
(***************************************************************************)
(* Two panes of the dashboard whose subject changes while requests about   *)
(* the previous one are under way: the summary of the active job, which is *)
(* polled, and the panel of the selected alert, whose diagnosis is fetched *)
(* by the panel or handed to it by the page. What a pane shows is named by *)
(* the job or the alert it is about.                                       *)
(*                                                                         *)
(* A click runs the effects it causes before anything else; after an       *)
(* answer or a message, other events may come before the effects.          *)
(***************************************************************************)
EXTENDS Naturals, FiniteSets

CONSTANTS
  PaneJobs, PaneAlerts

Blank == "blank"

ASSUME PanesAssumption == Blank \notin PaneJobs \cup PaneAlerts

VARIABLES
  job,       \* of useActiveJob: a job or Blank
  polled,    \* the job of the latest run of useJobSummary's effect
  polls,     \* its requests under way
  summary,   \* the job whose summary is shown
  selected,  \* selectedAlert
  given,     \* selectedDiagnosis: the alert it is about
  viewed,    \* what the panel's effect last ran for, and whether that still holds
  fetches,   \* the panel's requests for a diagnosis under way
  shown      \* the diagnosis in the panel: its alert, and where it is from

jobPane == <<job, polled, polls, summary>>
panel == <<selected, given, viewed, fetches, shown>>
paneVars == <<jobPane, panel>>

Requests(subjects) == SUBSET [of : subjects, aborted : BOOLEAN]
NoDiagnosis == [of |-> Blank, by |-> "page"]

PaneTypeOK ==
  /\ {job, polled, summary} \subseteq PaneJobs \cup {Blank}
  /\ polls \in Requests(PaneJobs) /\ fetches \in Requests(PaneAlerts)
  /\ {selected, given} \subseteq PaneAlerts \cup {Blank}
  /\ viewed \in [alert : PaneAlerts \cup {Blank}, given : PaneAlerts \cup {Blank},
                 current : BOOLEAN]
  /\ shown \in [of : PaneAlerts \cup {Blank}, by : {"page", "fetch"}]

Sent(subject) == {[of |-> subject, aborted |-> FALSE]}

\* MUTANT: the cleanup of the effect only stops the interval.
NotAborted(requests) == requests

Abort(requests) == {[of |-> r.of, aborted |-> TRUE] : r \in requests}

-----------------------------------------------------------------------------
(* The summary of the active job. *)

\* pickActiveJob, on any list of jobs.
PickJob ==
  /\ job' \in (PaneJobs \cup {Blank}) \ {job}
  /\ UNCHANGED <<polled, polls, summary, panel>>

\* The new run asks at once. The summary of the job before stays until the answer.
JobEffect ==
  /\ polled # job
  /\ polled' = job
  /\ polls' = Abort(polls) \cup IF job = Blank THEN {} ELSE Sent(job)
  /\ summary' = IF job = Blank THEN Blank ELSE summary
  /\ UNCHANGED <<job, panel>>

PollTick ==
  /\ polled # Blank
  /\ polls' = polls \cup Sent(polled)
  /\ UNCHANGED <<job, polled, summary, panel>>

\* A failure leaves the summary; so does an answer to an aborted request.
PollAnswered ==
  \E r \in polls, ok \in BOOLEAN :
    /\ polls' = polls \ {r}
    /\ summary' = IF ok /\ ~r.aborted THEN r.of ELSE summary
    /\ UNCHANGED <<job, polled, panel>>

-----------------------------------------------------------------------------
(* The panel of the selected alert. *)

\* The effect of AlertDetail, and the cleanup of its previous run.
View(alert, diagnosis) ==
  /\ viewed' = [alert |-> alert, given |-> diagnosis, current |-> TRUE]
  /\ shown' = [of |-> diagnosis, by |-> "page"]
  /\ fetches' = Abort(fetches)
                  \cup IF alert # Blank /\ diagnosis = Blank THEN Sent(alert) ELSE {}

Outdated == viewed # [alert |-> selected, given |-> given, current |-> TRUE]

PanelEffect ==
  /\ Outdated
  /\ View(selected, given)
  /\ UNCHANGED <<jobPane, selected, given>>

\* A click on an alert, on the panel's cross or, as selectSeverity, on a severity.
SelectAlert ==
  \E a \in PaneAlerts \cup {Blank} :
    /\ selected' = a /\ given' = Blank
    /\ IF viewed = [alert |-> a, given |-> Blank, current |-> TRUE]
         THEN UNCHANGED <<viewed, shown, fetches>>
         ELSE View(a, Blank)
    /\ UNCHANGED jobPane

\* handleDiagnosisCreated: the answer to a request made from the list.
DiagnosisCreated ==
  \E a \in PaneAlerts :
    /\ selected' = a /\ given' = a
    /\ UNCHANGED <<jobPane, viewed, fetches, shown>>

\* onDiagnosis compares with the alert that was selected when the effects last ran.
DiagnosisReceived ==
  \E a \in PaneAlerts :
    /\ a = viewed.alert
    /\ given' = a
    /\ UNCHANGED <<jobPane, selected, viewed, fetches, shown>>

\* handleLifecycleChange: the effect depends on the lifecycle of the alert, too.
LifecycleChanged ==
  /\ selected # Blank
  /\ viewed' = [viewed EXCEPT !.current = FALSE]
  /\ UNCHANGED <<jobPane, selected, given, fetches, shown>>

\* A failure leaves the panel: the button that would ask for a diagnosis waits for "404" in
\* the message of an error (alert-detail.tsx:61), and the messages of apiFetch do not have
\* it (api.ts:25), so handleRequestDiagnosis is never called.
DiagnosisFetched ==
  \E r \in fetches, ok \in BOOLEAN :
    /\ fetches' = fetches \ {r}
    /\ shown' = IF ok /\ ~r.aborted THEN [of |-> r.of, by |-> "fetch"] ELSE shown
    /\ UNCHANGED <<jobPane, selected, given, viewed>>

PaneInit ==
  /\ job = Blank /\ polled = Blank /\ polls = {} /\ summary = Blank
  /\ selected = Blank /\ given = Blank /\ fetches = {} /\ shown = NoDiagnosis
  /\ viewed = [alert |-> Blank, given |-> Blank, current |-> TRUE]

PaneNext ==
  \/ PickJob \/ JobEffect \/ PollTick \/ PollAnswered
  \/ PanelEffect \/ SelectAlert \/ DiagnosisCreated \/ DiagnosisReceived
  \/ LifecycleChanged \/ DiagnosisFetched

PaneSpec == PaneInit /\ [][PaneNext]_paneVars

-----------------------------------------------------------------------------
(* Properties. *)

\* No late answer puts the previous subject back: a summary that appears is of the job
\* being polled, and a diagnosis that the panel fetched is of the alert it views, however
\* selections, answers and messages interleave.
PanesKeepSubject ==
  [][/\ summary' \in {summary, polled', Blank}
     /\ shown'.by = "fetch" => shown'.of = viewed'.alert]_paneVars
=============================================================================
