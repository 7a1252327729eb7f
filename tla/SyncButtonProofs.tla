-------------------------- MODULE SyncButtonProofs --------------------------
(***************************************************************************)
(* Proofs about SyncButton, for any number of clicks, polls and timers and *)
(* everything that may happen in between.                                  *)
(***************************************************************************)
EXTENDS SyncButton, TLAPS

ButtonInv == TypeOK /\ NoLeakedInterval /\ ResultGoesAway

\* The places of the polls after SendPoll.
LEMMA SendPollType ==
    ASSUME TypeOK, SendPoll
    PROVE  polls' \in [PollIds -> StatusRow \union {"free", "sent"}]
BY DEF TypeOK, SendPoll

\* A timer more or less.
LEMMA TimerTypes ==
    ASSUME TypeOK, NEW t \in {"reset", "idle"}, timers[t] < MaxTimers, StartTimer(t)
    PROVE  /\ timers' \in [{"reset", "idle"} -> 0 .. MaxTimers]
           /\ timers'[t] > 0
BY SyncButtonAssumption DEF TypeOK, StartTimer, TimerAdded

LEMMA ButtonInit == Init => ButtonInv
<1> SUFFICES ASSUME Init PROVE ButtonInv
  OBVIOUS
<1>1. timers \in [{"reset", "idle"} -> 0 .. MaxTimers]
  BY SyncButtonAssumption DEF Init
<1>2. latest \in 0 .. MaxClicks
  BY SyncButtonAssumption DEF Init
<1>3. TypeOK
  BY <1>1, <1>2 DEF Init, TypeOK, StatusRow
<1>4. NoLeakedInterval /\ ResultGoesAway
  BY DEF Init, NoLeakedInterval, ResultGoesAway
<1> QED BY <1>3, <1>4 DEF ButtonInv

-----------------------------------------------------------------------------
\* Every step keeps the types, the tie between the poller's interval and
\* pollActive, and a timer for a result that is shown.
LEMMA ButtonStep == ButtonInv /\ [Next]_vars => ButtonInv'
<1> SUFFICES ASSUME ButtonInv, [Next]_vars PROVE ButtonInv'
  OBVIOUS
<1> USE SyncButtonAssumption DEF ButtonInv, NoLeakedInterval, ResultGoesAway, button, backend,
        Deactivated, PollingWhenInactive
<1>1. CASE Click
  <2>1. latest + 1 \in Clicks /\ latest' \in 0 .. MaxClicks
    BY <1>1 DEF Click, TypeOK, Clicks
  <2>2. TypeOK'
    BY <1>1, <2>1 DEF Click, TypeOK
  <2> QED BY <1>1, <2>2 DEF Click
<1>2. CASE Tick
  <2>1. polls' \in [PollIds -> StatusRow \union {"free", "sent"}]
    BY <1>2, SendPollType DEF Tick
  <2> QED BY <1>2, <2>1 DEF Tick, TypeOK
<1>3. CASE Timeout
  BY <1>3 DEF Timeout, TypeOK
<1>4. CASE Rerender
  <2>1. timers' \in [{"reset", "idle"} -> 0 .. MaxTimers] /\ timers'["reset"] > 0
    BY <1>4, TimerTypes DEF Rerender, ShowResult
  <2> QED BY <1>4, <2>1 DEF Rerender, ShowResult, TypeOK
<1>5. CASE ResetTimer
  <2>1. timers' \in [{"reset", "idle"} -> 0 .. MaxTimers]
    BY <1>5 DEF ResetTimer, TypeOK
  <2>2. TypeOK'
    BY <1>5, <2>1 DEF ResetTimer, TypeOK
  <2> QED BY <1>5, <2>2 DEF ResetTimer
<1>6. CASE IdleTimer
  BY <1>6 DEF IdleTimer, TypeOK
<1>7. ASSUME NEW c \in Clicks, PostAnswered(c) PROVE ButtonInv'
  <2>1. CASE reply[c] = "queued"
    <3>1. polls' \in [PollIds -> StatusRow \union {"free", "sent"}]
      BY <1>7, <2>1, SendPollType DEF PostAnswered, StartPolling, TypeOK
    <3>2. pollActive' \in BOOLEAN /\ polling' \in BOOLEAN /\ (polling' => pollActive')
      <4>1. StartPolling
        BY <1>7, <2>1 DEF PostAnswered
      <4>2. CASE pollActive' = pollActive /\ polling' = polling
        BY <4>2 DEF TypeOK
      <4>3. CASE pollActive' = TRUE /\ polling' = TRUE
        BY <4>3
      <4> QED BY <4>1, <4>2, <4>3 DEF StartPolling
    <3>3. heard' \in StatusRow \union {"none"}
      BY <1>7, <2>1 DEF PostAnswered, StartPolling, TypeOK
    <3>4. UNCHANGED <<status, syncStatus, timers, latest, run, meta>>
      BY <1>7, <2>1 DEF PostAnswered
    <3>5. reply' \in [Clicks -> {"none", "waiting", "queued", "completed", "done"}]
      BY <1>7 DEF PostAnswered, TypeOK
    <3>6. TypeOK'
      BY <3>1, <3>2, <3>3, <3>4, <3>5 DEF TypeOK
    <3>7. NoLeakedInterval'
      BY <3>2
    <3>8. ResultGoesAway'
      BY <3>4
    <3> QED BY <3>6, <3>7, <3>8
  <2>2. CASE reply[c] = "completed"
    <3>1. timers' \in [{"reset", "idle"} -> 0 .. MaxTimers] /\ timers'["idle"] > 0
      BY <1>7, <2>2, TimerTypes DEF PostAnswered
    <3> QED BY <1>7, <2>2, <3>1 DEF PostAnswered, TypeOK
  <2> QED BY <1>7, <2>1, <2>2 DEF PostAnswered
<1>8. ASSUME NEW c \in Clicks, PostFails(c) PROVE ButtonInv'
  <2>1. timers' \in [{"reset", "idle"} -> 0 .. MaxTimers] /\ timers'["idle"] > 0
    BY <1>8, TimerTypes DEF PostFails
  <2> QED BY <1>8, <2>1 DEF PostFails, TypeOK
<1>9. ASSUME NEW c \in Clicks, QueueRun(c) PROVE ButtonInv'
  BY <1>9 DEF QueueRun, TypeOK
<1>10. ASSUME NEW c \in Clicks, StartRun(c) PROVE ButtonInv'
  BY <1>10 DEF StartRun, TypeOK, StatusRow
<1>11. ASSUME NEW c \in Clicks, EndRun(c) PROVE ButtonInv'
  BY <1>11 DEF EndRun, TypeOK, StatusRow, Terminal
<1>12. ASSUME NEW i \in PollIds, AnswerArrives(i) PROVE ButtonInv'
  <2>1. polls' \in [PollIds -> StatusRow \union {"free", "sent"}]
    BY <1>12 DEF AnswerArrives, TypeOK
  <2>2. syncStatus' \in StatusRow \union {"none", "undefined"}
    BY <1>12 DEF AnswerArrives, Read
  <2>3. CASE syncStatus' \in Terminal
    <3>1. timers' \in [{"reset", "idle"} -> 0 .. MaxTimers] /\ timers'["reset"] > 0
      BY <1>12, <2>3, TimerTypes DEF AnswerArrives, ShowResult
    <3> QED BY <1>12, <2>1, <2>2, <2>3, <3>1 DEF AnswerArrives, ShowResult, TypeOK
  <2>4. CASE syncStatus' \notin Terminal
    BY <1>12, <2>1, <2>2, <2>4 DEF AnswerArrives, TypeOK
  <2> QED BY <2>3, <2>4
<1>13. ASSUME NEW i \in PollIds, PollFails(i) PROVE ButtonInv'
  BY <1>13 DEF PollFails, TypeOK
<1>14. ASSUME NEW i \in PollIds, AnswerPoll(i) PROVE ButtonInv'
  BY <1>14 DEF AnswerPoll, TypeOK, StatusRow
<1>15. CASE UNCHANGED vars
  BY <1>15 DEF vars, TypeOK
<1> QED
  BY <1>1, <1>2, <1>3, <1>4, <1>5, <1>6, <1>7, <1>8, <1>9, <1>10, <1>11, <1>12, <1>13,
     <1>14, <1>15 DEF Next

LEMMA ButtonAlways == Spec => []ButtonInv
BY ButtonInit, ButtonStep, PTL DEF Spec

\* The variables of the button, the poller and the backend keep their types.
THEOREM ButtonTypes == Spec => []TypeOK
<1>1. ButtonInv => TypeOK
  BY DEF ButtonInv
<1> QED BY ButtonAlways, <1>1, PTL

\* The poller's interval never runs after the button has deactivated it,
\* whatever late answers, renders, timeouts and clicks come in between.
THEOREM IntervalNeverLeaks == Spec => []NoLeakedInterval
<1>1. ButtonInv => NoLeakedInterval
  BY DEF ButtonInv
<1> QED BY ButtonAlways, <1>1, PTL

\* A result shown on the button has a timer that takes it away.
THEOREM ResultAlwaysGoesAway == Spec => []ResultGoesAway
<1>1. ButtonInv => ResultGoesAway
  BY DEF ButtonInv
<1> QED BY ButtonAlways, <1>1, PTL

-----------------------------------------------------------------------------
(* The button without impatient clicks, overlapping polls, new renders and *)
(* the time limit: one click is dealt with before the next is possible.    *)

Calm == Allowed \subseteq {"direct", "offline", "degraded"}

\* The POST of click c is not done with.
Open(c) == reply[c] \in {"waiting", "queued", "completed"}

\* A poll more than the one in flight is never sent.
OnePoll == \A i, j \in PollIds : polls[i] # "free" /\ polls[j] # "free" => i = j

\* What is under way for each face of the button.  A click that waits for its
\* POST finds the poller inactive, so the answer starts it.
InTurn ==
    /\ OnePoll
    /\ \A c \in Clicks : Open(c) => c = latest /\ status = "loading" /\ ~ pollActive
    /\ pollActive = polling
    /\ polling => status = "loading"
    /\ ~ polling => \A i \in PollIds : polls[i] = "free"
    /\ status = "loading" => polling \/ \E c \in Clicks : Open(c)
    /\ status \in {"idle", "loading"} => timers["reset"] = 0 /\ timers["idle"] = 0
    /\ status \in {"success", "error"} => timers["reset"] + timers["idle"] = 1

\* A poll that is sent when none is in flight is the only one.
LEMMA SendsOne ==
    ASSUME TypeOK, SendPoll, \A i \in PollIds : polls[i] = "free"
    PROVE  OnePoll'
BY DEF TypeOK, SendPoll, OnePoll

\* A pending timer is one or the other.
LEMMA OneTimer ==
    ASSUME TypeOK, NEW t \in {"reset", "idle"}, StartTimer(t),
           timers["reset"] = 0, timers["idle"] = 0
    PROVE  timers'["reset"] + timers'["idle"] = 1
<1>1. timers' = [timers EXCEPT ![t] = 1]
  <2>1. timers[t] = 0
    OBVIOUS
  <2> QED BY <2>1 DEF StartTimer, TimerAdded
<1>2. \/ timers'["reset"] = 1 /\ timers'["idle"] = 0
      \/ timers'["reset"] = 0 /\ timers'["idle"] = 1
  BY <1>1 DEF TypeOK
<1> QED BY <1>2

\* Before the first click nothing is under way.
LEMMA TurnInit == Init => InTurn
<1> SUFFICES ASSUME Init PROVE InTurn
  OBVIOUS
<1>1. /\ \A i \in PollIds : polls[i] = "free"
      /\ \A c \in Clicks : ~ Open(c)
      /\ timers["reset"] = 0 /\ timers["idle"] = 0
  BY DEF Init, Open
<1> QED BY <1>1 DEF Init, InTurn, OnePoll

\* Every step leaves one click under way at most.
LEMMA TurnStep == ASSUME Calm PROVE ButtonInv /\ InTurn /\ [Next]_vars => InTurn'
<1> SUFFICES ASSUME ButtonInv, InTurn, [Next]_vars PROVE InTurn'
  OBVIOUS
<1>0. TypeOK
  BY DEF ButtonInv
<1> USE DEF button, backend, Deactivated, PollingWhenInactive
<1>1. CASE Click
  <2>1. status = "idle"
    BY <1>1 DEF Click, Calm
  <2>2. /\ latest' = latest + 1 /\ status' = "loading" /\ polling' = FALSE
        /\ reply' = [reply EXCEPT ![latest + 1] = "waiting"]
        /\ UNCHANGED <<pollActive, polls, timers>>
    BY <1>1 DEF Click
  <2>3. latest + 1 \in Clicks
    BY <1>0, <1>1, SyncButtonAssumption DEF Click, TypeOK, Clicks
  <2>4. ~ polling /\ ~ pollActive /\ \A c \in Clicks : ~ Open(c)
    BY <2>1 DEF InTurn
  <2>5. /\ reply'[latest + 1] = "waiting"
        /\ \A c \in Clicks : reply'[c] \in {"waiting", "queued", "completed"} => c = latest'
    BY <1>0, <2>2, <2>3, <2>4 DEF Open, TypeOK
  <2>6. OnePoll'
    BY <2>2 DEF InTurn, OnePoll
  <2>7. \E c \in Clicks : reply'[c] \in {"waiting", "queued", "completed"}
    BY <2>3, <2>5
  <2>8. timers["reset"] = 0 /\ timers["idle"] = 0
    BY <2>1 DEF InTurn
  <2>9. /\ pollActive' = FALSE /\ polling' = FALSE
        /\ \A i \in PollIds : polls'[i] = "free"
    BY <2>2, <2>4 DEF InTurn
  <2> QED BY <2>2, <2>5, <2>6, <2>7, <2>8, <2>9 DEF InTurn, Open
<1>2. CASE Tick
  <2>1. /\ polling /\ SendPoll /\ \A i \in PollIds : polls[i] = "free"
        /\ UNCHANGED <<button, latest, reply>>
    BY <1>2 DEF Tick, Calm
  <2>2. OnePoll'
    BY <1>0, <2>1, SendsOne
  <2> QED BY <2>1, <2>2 DEF InTurn, Open
<1>3. CASE Timeout \/ Rerender
  BY <1>3 DEF Timeout, Rerender, Calm
<1>4. CASE ResetTimer \/ IdleTimer
  <2>1. timers["reset"] \in Nat /\ timers["idle"] \in Nat
    BY <1>0, SyncButtonAssumption DEF TypeOK
  <2>2. timers["reset"] > 0 \/ timers["idle"] > 0
    BY <1>4 DEF ResetTimer, IdleTimer
  <2>3. status \in {"success", "error"}
    BY <1>0, <2>2 DEF InTurn, TypeOK
  <2>4. timers["reset"] + timers["idle"] = 1 /\ ~ polling /\ ~ pollActive
    BY <2>3 DEF InTurn
  <2>5. timers'["reset"] = 0 /\ timers'["idle"] = 0
    <3>1. CASE ResetTimer
      <4>1. timers["reset"] = 1 /\ timers["idle"] = 0
        BY <2>1, <2>4, <3>1 DEF ResetTimer
      <4> QED BY <1>0, <3>1, <4>1 DEF ResetTimer, TypeOK
    <3>2. CASE IdleTimer
      <4>1. timers["idle"] = 1 /\ timers["reset"] = 0
        BY <2>1, <2>4, <3>2 DEF IdleTimer
      <4> QED BY <1>0, <3>2, <4>1 DEF IdleTimer, TypeOK
    <3> QED BY <1>4, <3>1, <3>2
  <2>6. /\ UNCHANGED <<pollActive, polls, reply, latest>>
        /\ polling' = FALSE /\ status' = "idle"
    BY <1>4, <2>4 DEF ResetTimer, IdleTimer, InTurn
  <2>7. \A c \in Clicks : ~ Open(c)
    BY <2>3 DEF InTurn
  <2>8. pollActive' = FALSE /\ \A i \in PollIds : polls'[i] = "free"
    <3>1. pollActive = FALSE
      BY <1>0, <2>4 DEF TypeOK
    <3>2. \A i \in PollIds : polls[i] = "free"
      BY <2>4 DEF InTurn
    <3> QED BY <2>6, <3>1, <3>2
  <2> QED BY <2>5, <2>6, <2>7, <2>8 DEF InTurn, Open, OnePoll
<1>5. ASSUME NEW c \in Clicks, PostAnswered(c) PROVE InTurn'
  <2>1. Open(c)
    BY <1>5 DEF PostAnswered, Open
  <2>2. /\ c = latest /\ status = "loading" /\ ~ pollActive /\ ~ polling
        /\ timers["reset"] = 0 /\ timers["idle"] = 0
        /\ \A i \in PollIds : polls[i] = "free"
    BY <2>1 DEF InTurn
  <2>3. \A d \in Clicks : ~ Open(d)'
    BY <1>0, <1>5, <2>2 DEF PostAnswered, Open, InTurn, TypeOK
  <2>4. latest' = latest
    BY <1>5 DEF PostAnswered
  <2>5. CASE reply[c] = "queued"
    <3>1. StartPolling /\ UNCHANGED <<status, timers>>
      BY <1>5, <2>5 DEF PostAnswered
    <3>2. pollActive' = TRUE /\ polling' = TRUE /\ SendPoll
      BY <2>2, <3>1 DEF StartPolling
    <3>3. OnePoll'
      BY <1>0, <2>2, <3>2, SendsOne
    <3> QED BY <2>2, <2>3, <3>1, <3>2, <3>3 DEF InTurn
  <2>6. CASE reply[c] = "completed"
    <3>1. /\ status' = "success" /\ StartTimer("idle")
          /\ UNCHANGED <<pollActive, polling, polls>>
      BY <1>5, <2>6 DEF PostAnswered
    <3>2. timers'["reset"] + timers'["idle"] = 1
      BY <1>0, <2>2, <3>1, OneTimer
    <3> QED BY <2>2, <2>3, <3>1, <3>2 DEF InTurn, OnePoll
  <2> QED BY <1>5, <2>5, <2>6 DEF PostAnswered
<1>6. ASSUME NEW c \in Clicks, PostFails(c) PROVE InTurn'
  <2>1. Open(c)
    BY <1>6 DEF PostFails, Open
  <2>2. /\ c = latest /\ status = "loading" /\ ~ pollActive /\ ~ polling
        /\ timers["reset"] = 0 /\ timers["idle"] = 0
        /\ \A i \in PollIds : polls[i] = "free"
    BY <2>1 DEF InTurn
  <2>3. \A d \in Clicks : ~ Open(d)'
    BY <1>0, <1>6, <2>2 DEF PostFails, Open, InTurn, TypeOK
  <2>4. /\ status' = "error" /\ StartTimer("idle")
        /\ UNCHANGED <<pollActive, polling, polls>>
    BY <1>6 DEF PostFails
  <2>5. timers'["reset"] + timers'["idle"] = 1
    BY <1>0, <2>2, <2>4, OneTimer
  <2> QED BY <2>2, <2>3, <2>4, <2>5 DEF InTurn, OnePoll
<1>7. ASSUME NEW c \in Clicks, QueueRun(c) \/ StartRun(c) \/ EndRun(c) PROVE InTurn'
  <2>1. UNCHANGED <<button, polls, latest>>
    BY <1>7 DEF QueueRun, StartRun, EndRun
  <2>2. \A d \in Clicks : Open(d)' <=> Open(d)
    BY <1>0, <1>7 DEF QueueRun, StartRun, EndRun, Open, TypeOK
  <2> QED BY <2>1, <2>2 DEF InTurn, OnePoll
<1>8. ASSUME NEW i \in PollIds, AnswerArrives(i) PROVE InTurn'
  <2>1. polls[i] # "free"
    BY <1>8 DEF AnswerArrives, StatusRow
  <2>2. /\ polling /\ pollActive /\ status = "loading"
        /\ timers["reset"] = 0 /\ timers["idle"] = 0
        /\ \A c \in Clicks : ~ Open(c)
    BY <2>1 DEF InTurn
  <2>3. \A j \in PollIds : polls'[j] = "free"
    BY <1>0, <1>8, <2>1 DEF AnswerArrives, TypeOK, InTurn, OnePoll
  <2>4. UNCHANGED <<latest, reply>>
    BY <1>8 DEF AnswerArrives
  <2>5. CASE syncStatus' \in Terminal
    <3>1. /\ polling' = FALSE /\ pollActive' = FALSE /\ StartTimer("reset")
          /\ status' \in {"success", "error"}
      BY <1>8, <2>5 DEF AnswerArrives, ShowResult
    <3>2. timers'["reset"] + timers'["idle"] = 1
      BY <1>0, <2>2, <3>1, OneTimer
    <3> QED BY <2>2, <2>3, <2>4, <3>1, <3>2 DEF InTurn, OnePoll, Open
  <2>6. CASE syncStatus' \notin Terminal
    <3>1. UNCHANGED <<status, pollActive, polling, timers>>
      BY <1>8, <2>6 DEF AnswerArrives
    <3> QED BY <2>2, <2>3, <2>4, <3>1 DEF InTurn, OnePoll, Open
  <2> QED BY <2>5, <2>6
<1>9. ASSUME NEW i \in PollIds, PollFails(i) \/ AnswerPoll(i) PROVE InTurn'
  <2>1. UNCHANGED <<button, latest, reply>> /\ polls[i] # "free"
    BY <1>9 DEF PollFails, AnswerPoll
  <2>2. \A j \in PollIds : polls'[j] # "free" => polls[j] # "free"
    BY <1>0, <1>9 DEF PollFails, AnswerPoll, TypeOK
  <2> QED BY <2>1, <2>2 DEF InTurn, OnePoll, Open
<1>10. CASE UNCHANGED vars
  BY <1>10 DEF vars, InTurn, OnePoll, Open
<1> QED
  BY <1>1, <1>2, <1>3, <1>4, <1>5, <1>6, <1>7, <1>8, <1>9, <1>10 DEF Next

\* The disabled button (SyncButton.tsx:10), for any number of clicks and polls
\* and whatever the backend answers: while it shows "loading" something is under
\* way that can enable it again, unless the user clicks on a result that is still
\* shown, polls overlap, SyncWidget renders again or the time limit strikes.
THEOREM LoadingIsAlwaysAlive == ASSUME Calm PROVE Spec => []LoadingIsAlive
<1>1. InTurn => LoadingIsAlive
  BY DEF InTurn, LoadingIsAlive, Open
<1> QED BY <1>1, TurnInit, TurnStep, ButtonInit, ButtonStep, PTL DEF Spec
=============================================================================
