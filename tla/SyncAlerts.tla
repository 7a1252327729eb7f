----------------------------- MODULE SyncAlerts -----------------------------
(***************************************************************************)
(* The circuit breaker at the end of perform_sync: after recording a       *)
(* failure it asks get_consecutive_failures and logs an alert.  streak is  *)
(* history: the failed runs recorded since the last recorded success.      *)
(***************************************************************************)
EXTENDS SyncEngine

VARIABLES
    alerted,   \* the "3 consecutive sync failures" line has been logged
    streak     \* consecutive failures recorded, counted up to Threshold

alertVars == <<vars, alerted, streak>>

Threshold == 3

\* get_consecutive_failures sees one row, so it never counts past one.
ConsecutiveFailures == IF meta.status \in {"none", "success"} THEN 0 ELSE 1

AlertInit == Init /\ alerted = FALSE /\ streak = 0

FailedSync(s) ==
    /\ WriteFailure(s)
    /\ streak' = IF streak < Threshold THEN streak + 1 ELSE streak
    /\ UNCHANGED alerted

SuccessfulSync(s) ==
    /\ WriteComplete(s)
    /\ streak' = 0
    /\ UNCHANGED alerted

CheckBreaker(s) ==
    /\ CheckAfterFailure(s)
    /\ alerted' = (alerted \/ ConsecutiveFailures >= Threshold)
    /\ UNCHANGED streak

Otherwise ==
    /\ \/ Crash
       \/ \E s \in Syncs :
             \/ Begin(s) \/ StartStep(s) \/ FetchStep(s) \/ ReplaceStep(s)
             \/ WriteArtifacts(s) \/ ReadComplete(s)
             \/ CheckAfterSuccess(s) \/ CompletionFails(s)
             \/ ReadFailure(s) \/ FailureRecordingFails(s)
    /\ UNCHANGED <<alerted, streak>>

AlertNext ==
    Otherwise \/ \E s \in Syncs : FailedSync(s) \/ SuccessfulSync(s) \/ CheckBreaker(s)

AlertSpec == AlertInit /\ [][AlertNext]_alertVars

\* "Circuit breaker: get_consecutive_failures() - alert on 3+ failures"
\* (sync_metadata.py:23): once three runs in a row have failed and the last is
\* over, the alert has been raised.
CircuitBreakerAlerts == Settled /\ streak = Threshold => alerted
=============================================================================
