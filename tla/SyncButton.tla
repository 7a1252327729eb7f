----------------------------- MODULE SyncButton -----------------------------
(***************************************************************************)
(* The "Sync Data" button (SyncButton.tsx) with its poller                 *)
(* (useSyncPolling.ts), one user, and the three things they talk to: POST  *)
(* /admin/sync-all, GET /admin/sync-status and the sync runs behind them.  *)
(* One step is one browser event (a click, a response, a timer) together   *)
(* with the React effects it triggers, or one step of the backend.  A poll *)
(* is read by the backend and its answer delivered in two steps, so        *)
(* answers may be late and out of order.                                   *)
(***************************************************************************)
EXTENDS Naturals, FiniteSets

CONSTANTS
    MaxClicks,    \* clicks of the user, a bound of the model
    MaxPolls,     \* polls in flight at once, a bound of the model
    MaxTimers,    \* pending reset timers, a bound of the model
    StatusFields, \* the fields an answer may hold the status in: "sync_status"
                  \* in the answer of routes/admin.py, "status" in the poller's
                  \* interface and its tests
    Allowed       \* what may happen, a subset of Conditions

\* impatient: the user clicks while the last result is still shown.
\* slow:      a poll takes longer than the interval, so several are in flight.
\* rerender:  SyncWidget renders again and passes a new onSyncComplete.
\* timeout:   polling goes on for more than maxDuration.
\* direct:    the scheduler is not running, sync-all runs the sync itself.
\* offline:   requests fail on their way.
\* degraded:  sync-status cannot read the table and answers "failed".
Conditions == {"impatient", "slow", "rerender", "timeout", "direct", "offline", "degraded"}

ASSUME SyncButtonAssumption ==
    /\ MaxClicks \in Nat \ {0}
    /\ MaxPolls \in Nat \ {0}
    /\ MaxTimers \in Nat \ {0}
    /\ StatusFields \subseteq {"status", "sync_status"}
    /\ Allowed \subseteq Conditions

VARIABLES
    status,      \* what the button shows
    pollActive,  \* pollActive of SyncButton
    polling,     \* the poller's interval is set
    syncStatus,  \* the status in the poller's last answer, for the effect
    heard,       \* the status answered last in this polling session
    polls,       \* the polls in flight
    timers,      \* pending setTimeout callbacks
    latest,      \* number of the last click
    reply,       \* the POST of each click
    run,         \* the sync run of each click
    meta         \* status of the sync_metadata row

button == <<status, pollActive, polling, syncStatus, heard, timers>>
backend == <<run, meta>>
vars == <<button, polls, latest, reply, backend>>

Clicks == 1 .. MaxClicks
PollIds == 1 .. MaxPolls
Terminal == {"success", "failed"}
StatusRow == {"never", "running", "success", "failed"}

-----------------------------------------------------------------------------
(* Variants: plausible mistakes in the code, none of which it makes.       *)

\* The effect of the button does not deactivate the poller, or that of the
\* poller does not clear the interval then.
StaysActive == pollActive
IntervalSurvives == polling

\* A setTimeout is missing.
NoTimerAdded(t) == timers[t]

-----------------------------------------------------------------------------
Init ==
    /\ status = "idle"
    /\ pollActive = FALSE
    /\ polling = FALSE
    /\ syncStatus = "none"
    /\ heard = "none"
    /\ polls = [i \in PollIds |-> "free"]
    /\ timers = [t \in {"reset", "idle"} |-> 0]
    /\ latest = 0
    /\ reply = [c \in Clicks |-> "none"]
    /\ run = [c \in Clicks |-> "none"]
    /\ meta \in {"never", "success", "failed"}

\* data.status, as the poller and the effect read it from an answer with the
\* status in the given field.
Read(answer, field) == IF field = "status" THEN answer ELSE "undefined"

\* setPollActive(false) and what the effect of the poller then does.
Deactivated == FALSE
PollingWhenInactive == FALSE

TimerAdded(t) == timers[t] + 1
StartTimer(t) == timers' = [timers EXCEPT ![t] = TimerAdded(t)]

\* A poll takes a free place; the immediate one of a new session is left out
\* when MaxPolls are in flight.
SendPoll ==
    IF \E i \in PollIds : polls[i] = "free"
    THEN \E i \in PollIds : polls[i] = "free" /\ polls' = [polls EXCEPT ![i] = "sent"]
    ELSE UNCHANGED polls

\* The effect of SyncButton that reacts to a terminal status.
ShowResult(result) ==
    /\ status' = IF result = "success" THEN "success" ELSE "error"
    /\ pollActive' = Deactivated
    /\ StartTimer("reset")

-----------------------------------------------------------------------------
(* The user and the POST.                                                  *)

Click ==
    /\ status = "idle" \/ ("impatient" \in Allowed /\ status # "loading")
    /\ latest < MaxClicks
    /\ latest' = latest + 1
    /\ status' = "loading"
    /\ polling' = FALSE
    /\ syncStatus' = "none"
    /\ reply' = [reply EXCEPT ![latest + 1] = "waiting"]
    /\ run' = [run EXCEPT ![latest + 1] = "asked"]
    /\ UNCHANGED <<pollActive, heard, polls, timers, meta>>

\* setPollActive(true): when it is already set, nothing starts.
StartPolling ==
    \/ pollActive /\ UNCHANGED <<pollActive, polling, heard, polls>>
    \/ /\ ~ pollActive
       /\ pollActive' = TRUE
       /\ polling' = TRUE
       /\ heard' = "none"
       /\ SendPoll

\* sync_queued or sync_completed.
PostAnswered(c) ==
    /\ reply[c] \in {"queued", "completed"}
    /\ reply' = [reply EXCEPT ![c] = "done"]
    /\ \/ /\ reply[c] = "queued"
          /\ StartPolling
          /\ UNCHANGED <<status, timers>>
       \/ /\ reply[c] = "completed" /\ timers["idle"] < MaxTimers
          /\ status' = "success"
          /\ StartTimer("idle")
          /\ UNCHANGED <<pollActive, polling, heard, polls>>
    /\ UNCHANGED <<syncStatus, latest, backend>>

\* HTTP 400 without an endpoint, or the answer is lost (a proxy gives up);
\* the backend goes on in the second case.
PostFails(c) ==
    /\ timers["idle"] < MaxTimers
    /\ \/ /\ reply[c] = "waiting" /\ run[c] = "asked"
          /\ run' = [run EXCEPT ![c] = "rejected"]
       \/ /\ "offline" \in Allowed
          /\ reply[c] \in {"waiting", "queued", "completed"}
          /\ UNCHANGED run
    /\ reply' = [reply EXCEPT ![c] = "done"]
    /\ status' = "error"
    /\ StartTimer("idle")
    /\ UNCHANGED <<pollActive, polling, syncStatus, heard, polls, latest, meta>>

-----------------------------------------------------------------------------
(* The poller.                                                             *)

Tick ==
    /\ polling
    /\ \E i \in PollIds : polls[i] = "free"
    /\ "slow" \in Allowed \/ \A i \in PollIds : polls[i] = "free"
    /\ SendPoll
    /\ UNCHANGED <<button, latest, reply, backend>>

Timeout ==
    /\ "timeout" \in Allowed
    /\ polling
    /\ polling' = FALSE
    /\ UNCHANGED <<status, pollActive, syncStatus, heard, polls, timers,
                   latest, reply, backend>>

AnswerArrives(i) ==
    /\ polls[i] \in StatusRow
    /\ timers["reset"] < MaxTimers
    /\ polls' = [polls EXCEPT ![i] = "free"]
    /\ heard' = polls[i]
    /\ \E field \in StatusFields : syncStatus' = Read(polls[i], field)
    /\ \/ /\ syncStatus' \in Terminal
          /\ polling' = FALSE
          /\ ShowResult(syncStatus')
       \/ /\ syncStatus' \notin Terminal
          /\ UNCHANGED <<status, pollActive, polling, timers>>
    /\ UNCHANGED <<latest, reply, backend>>

\* Only a warning; polling goes on.
PollFails(i) ==
    /\ "offline" \in Allowed
    /\ polls[i] # "free"
    /\ polls' = [polls EXCEPT ![i] = "free"]
    /\ UNCHANGED <<button, latest, reply, backend>>

\* onSyncComplete is a dependency of the effect and new in every render.
Rerender ==
    /\ "rerender" \in Allowed
    /\ syncStatus \in Terminal
    /\ timers["reset"] < MaxTimers
    /\ ShowResult(syncStatus)
    /\ polling' = PollingWhenInactive
    /\ UNCHANGED <<syncStatus, heard, polls, latest, reply, backend>>

\* After a polled result: setStatus("idle") and resetPolling().
ResetTimer ==
    /\ timers["reset"] > 0
    /\ timers' = [timers EXCEPT !["reset"] = @ - 1]
    /\ status' = "idle"
    /\ polling' = FALSE
    /\ syncStatus' = "none"
    /\ UNCHANGED <<pollActive, heard, polls, latest, reply, backend>>

\* After the answer to the POST: setStatus("idle").
IdleTimer ==
    /\ timers["idle"] > 0
    /\ timers' = [timers EXCEPT !["idle"] = @ - 1]
    /\ status' = "idle"
    /\ UNCHANGED <<pollActive, polling, syncStatus, heard, polls, latest, reply, backend>>

-----------------------------------------------------------------------------
(* The backend.                                                            *)

QueueRun(c) ==
    /\ run[c] = "asked"
    /\ run' = [run EXCEPT ![c] = "queued"]
    /\ reply' = [reply EXCEPT ![c] = IF @ = "waiting" THEN "queued" ELSE @]
    /\ UNCHANGED <<button, polls, latest, meta>>

\* Queued runs start when the scheduler gets to them; a direct one keeps its
\* POST waiting.
StartRun(c) ==
    /\ \/ run[c] = "queued"
       \/ "direct" \in Allowed /\ run[c] = "asked"
    /\ run' = [run EXCEPT ![c] = "running"]
    /\ meta' = "running"
    /\ UNCHANGED <<button, polls, latest, reply>>

EndRun(c) ==
    /\ run[c] = "running"
    /\ \E result \in Terminal :
          /\ run' = [run EXCEPT ![c] = result]
          /\ meta' = result
    /\ reply' = [reply EXCEPT ![c] = IF @ = "waiting" THEN "completed" ELSE @]
    /\ UNCHANGED <<button, polls, latest>>

\* GET /admin/sync-status.
AnswerPoll(i) ==
    /\ polls[i] = "sent"
    /\ \E answer \in {meta} \union (IF "degraded" \in Allowed THEN {"failed"} ELSE {}) :
          polls' = [polls EXCEPT ![i] = answer]
    /\ UNCHANGED <<button, latest, reply, backend>>

Next ==
    \/ Click \/ Tick \/ Timeout \/ Rerender \/ ResetTimer \/ IdleTimer
    \/ \E c \in Clicks : \/ PostAnswered(c) \/ PostFails(c)
                         \/ QueueRun(c) \/ StartRun(c) \/ EndRun(c)
    \/ \E i \in PollIds : AnswerArrives(i) \/ PollFails(i) \/ AnswerPoll(i)

Spec == Init /\ [][Next]_vars

\* Timers fire, sync runs end, and a request that is sent again and again is
\* in the end answered; the user need not do anything.
Fairness ==
    /\ WF_vars(Tick) /\ WF_vars(ResetTimer) /\ WF_vars(IdleTimer)
    /\ \A c \in Clicks :
          /\ WF_vars(QueueRun(c) \/ StartRun(c)) /\ WF_vars(EndRun(c))
          /\ WF_vars(PostAnswered(c))
    /\ \A i \in PollIds : SF_vars(AnswerPoll(i)) /\ SF_vars(AnswerArrives(i))

FairSpec == Spec /\ Fairness

-----------------------------------------------------------------------------
(* Properties.                                                             *)

TypeOK ==
    /\ status \in {"idle", "loading", "success", "error"}
    /\ pollActive \in BOOLEAN
    /\ polling \in BOOLEAN
    /\ syncStatus \in StatusRow \union {"none", "undefined"}
    /\ heard \in StatusRow \union {"none"}
    /\ polls \in [PollIds -> StatusRow \union {"free", "sent"}]
    /\ timers \in [{"reset", "idle"} -> 0 .. MaxTimers]
    /\ latest \in 0 .. MaxClicks
    /\ reply \in [Clicks -> {"none", "waiting", "queued", "completed", "done"}]
    /\ run \in [Clicks -> {"none", "asked", "queued", "running", "rejected"} \union Terminal]
    /\ meta \in StatusRow

\* "Stops automatically when status changes from running (terminal state
\* reached)" (useSyncPolling.ts:6-7): the interval does not outlive an answer
\* that says the sync is over.
StopsOnTerminal == polling => heard \notin Terminal

\* The interval runs only while the button wants it to: no leak
\* (useSyncPolling.ts:12), although a late answer of an earlier session or a
\* new render may end a session.
NoLeakedInterval == polling => pollActive

\* A result is never left on the button: a timer that takes it away is pending
\* (SyncButton.tsx:11-12).
ResultGoesAway == status \in {"success", "error"} => \E t \in DOMAIN timers : timers[t] > 0

\* "loading: apps done inline; CVE polling active" (SyncButton.tsx:10): while
\* the button is disabled something is under way that can enable it again.
LoadingIsAlive ==
    status = "loading" =>
       \/ polling
       \/ \E i \in PollIds : polls[i] # "free"
       \/ \E c \in Clicks : reply[c] \in {"waiting", "queued", "completed"}
       \/ \E t \in DOMAIN timers : timers[t] > 0

\* "loading: apps done inline; CVE polling active" (SyncButton.tsx:10): a
\* disabled button does not stay so with nothing asking for the status.  The
\* click ends in a result, or its answer starts a polling session; that the
\* session ends is not claimed, the real one does not (ButtonPollsOn).
EveryClickLeadsOn == status = "loading" ~> status # "loading" \/ polling

\* Polling confirms the completion of the run the click has queued
\* (admin.py:262): the button shows success only after that run succeeded.
SuccessIsEarned == status = "success" => run[latest] = "success"
=============================================================================
