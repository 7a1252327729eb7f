----------------------------- MODULE SyncEngine -----------------------------
(***************************************************************************)
(* perform_sync (backend/services/sync_service.py) run by several jobs at  *)
(* once: the scheduler's cron job, the startup job and any number of       *)
(* manual jobs have different job ids, so only runs of the same job        *)
(* exclude each other.  Each run owns a database session.  The tables live *)
(* in PostgreSQL at its default isolation level, READ COMMITTED: every     *)
(* statement sees the rows committed when it starts.  A DELETE takes its   *)
(* rows one by one, waits at a row that another open transaction has       *)
(* deleted and skips it if it is gone then; an INSERT puts its rows in one *)
(* by one and waits at a key that another open transaction has inserted or *)
(* deleted.  What a statement has taken it keeps while it waits, so two    *)
(* may wait for each other; PostgreSQL then makes one of them fail.        *)
(* There is one step per row, commit or remote call.                       *)
(***************************************************************************)
EXTENDS Naturals, FiniteSets

CONSTANTS
    Syncs,       \* job ids; runs with the same id never overlap
    Keys,        \* primary keys of the two strike tables
    Catalogues,  \* what a fetch from the controller may return
    MaxAttempts, \* passes of the retry loop, 3 in the code
    Faults       \* the failures that may happen, a subset of FaultKinds

Tables == {"cve", "ai"}

FaultKinds == {"cyperf", "replace", "metadata", "disk", "crash"}

\* clash: two of the fetched strikes without a CVE share a name, hence the
\* synthetic cve_id that ai_cves declares unique.
CatalogueType == [rows : [Tables -> SUBSET Keys], clash : BOOLEAN]

ASSUME SyncEngineAssumption ==
    /\ Catalogues \subseteq CatalogueType
    /\ MaxAttempts \in Nat \ {0}
    /\ Faults \subseteq FaultKinds

VARIABLES
    rows,       \* committed keys of each strike table
    meta,       \* the committed sync_metadata row
    artifacts,  \* keys written to the two JSON files
    pc,         \* the statement each run is at
    attempt,    \* attempt_number of the retry loop
    lastError,  \* last_error
    fetched,    \* fetch_result of the current attempt
    seen,       \* the sync_metadata record the session has loaded
    doomed,     \* rows the open transaction's DELETE matches and has not reached
    deleted,    \* rows the open transaction has deleted
    added       \* rows the open transaction has inserted

vars == <<rows, meta, artifacts, pc, attempt, lastError, fetched, seen,
          doomed, deleted, added>>

-----------------------------------------------------------------------------
(* Variants: plausible mistakes in the code, none of which it makes.  Each *)
(* is used in the place of a definition below to see that a property       *)
(* notices it.                                                             *)

\* The check for an empty result is missing.
UsableAlways(c) == TRUE

\* The loop counter is not advanced.
NextAttemptSame(s) == attempt[s]

\* DELETE only the CVEs that were fetched again.
MatchedRefetched(s, tb) == rows[tb] \intersect fetched[s].rows[tb]

\* record_sync_complete keeps an old message, forgets the status of a failed
\* run, or drops the "if success else" that protects profiles_synced.
SucceededWithOldError(old, c) ==
    [old EXCEPT !.status = "success", !.profiles = Cardinality(c.rows["cve"])]
FailedKeepsStatus(old, err) == [old EXCEPT !.error = err]
FailedResetsCount(old, err) ==
    [status |-> "failed", error |-> err, profiles |-> 0]

\* The AI artifact is not rewritten.
ArtifactsWithoutAi(s, tb) ==
    IF tb = "ai" THEN {artifacts[tb]} ELSE {fetched[s].rows[tb]}

-----------------------------------------------------------------------------
NoRows == [tb \in Tables |-> {}]
NoCatalogue == [rows |-> NoRows, clash |-> FALSE]

\* status "none" stands for a table without the job's row.
NoRecord == [status |-> "none", error |-> "none", profiles |-> 0]

Statuses == {"none", "running", "success", "failed"}
Errors == {"none", "empty", "cyperf", "db"}
Records == [status : Statuses, error : Errors,
            profiles : {0} \union {Cardinality(c.rows["cve"]) : c \in Catalogues}]

ReplaceStages == {"deleteCve", "lockCve", "insertCve",
                  "deleteAi", "lockAi", "insertAi", "commit"}
RecordStages == {"artifacts", "completeRead", "completeWrite", "checkFailures"}
Stages == {"idle", "startRead", "startWrite", "fetch",
           "failRead", "failWrite", "failCheck"}
              \union ReplaceStages \union RecordStages

\* A fetch with no CVE mapping is retried instead of stored.
Usable(c) == c.rows["cve"] # {}

Init ==
    /\ rows = NoRows
    /\ meta = NoRecord
    /\ artifacts = NoRows
    /\ pc = [s \in Syncs |-> "idle"]
    /\ attempt = [s \in Syncs |-> 0]
    /\ lastError = [s \in Syncs |-> "none"]
    /\ fetched = [s \in Syncs |-> NoCatalogue]
    /\ seen = [s \in Syncs |-> NoRecord]
    /\ doomed = [s \in Syncs |-> NoRows]
    /\ deleted = [s \in Syncs |-> NoRows]
    /\ added = [s \in Syncs |-> NoRows]

Goto(s, stage) == pc' = [pc EXCEPT ![s] = stage]

\* What a run holds in local variables goes away when it returns.
Return(s) ==
    /\ Goto(s, "idle")
    /\ attempt' = [attempt EXCEPT ![s] = 0]
    /\ lastError' = [lastError EXCEPT ![s] = "none"]
    /\ fetched' = [fetched EXCEPT ![s] = NoCatalogue]
    /\ seen' = [seen EXCEPT ![s] = NoRecord]

NextAttempt(s) == attempt[s] + 1

LastAttempt(s) == attempt[s] >= MaxAttempts

\* The attempt ends with err: the loop continues, or breaks after the third.
EndAttempt(s, err) ==
    /\ lastError' = [lastError EXCEPT ![s] = err]
    /\ fetched' = [fetched EXCEPT ![s] = NoCatalogue]
    /\ seen' = [seen EXCEPT ![s] = NoRecord]
    /\ \/ /\ ~ LastAttempt(s)
          /\ attempt' = [attempt EXCEPT ![s] = NextAttempt(s)]
          /\ Goto(s, "fetch")
       \/ /\ LastAttempt(s)
          /\ UNCHANGED attempt
          /\ Goto(s, "failRead")

Rollback(s) ==
    /\ doomed' = [doomed EXCEPT ![s] = NoRows]
    /\ deleted' = [deleted EXCEPT ![s] = NoRows]
    /\ added' = [added EXCEPT ![s] = NoRows]

-----------------------------------------------------------------------------
(* sync_metadata: a SELECT, then an UPDATE of the columns whose value      *)
(* differs from the loaded one.                                            *)

SelectRecord(s, stage) ==
    /\ seen' = [seen EXCEPT ![s] = meta]
    /\ Goto(s, stage)
    /\ UNCHANGED <<rows, meta, artifacts, attempt, lastError, fetched, doomed, deleted, added>>

Written(old, new, current) == IF new = old THEN current ELSE new

Flush(old, new) ==
    [status   |-> Written(old.status, new.status, meta.status),
     error    |-> Written(old.error, new.error, meta.error),
     profiles |-> Written(old.profiles, new.profiles, meta.profiles)]

Started(old) == [old EXCEPT !.status = "running"]

Succeeded(old, c) ==
    [status |-> "success", error |-> "none",
     profiles |-> Cardinality(c.rows["cve"])]

Failed(old, err) == [old EXCEPT !.status = "failed", !.error = err]

-----------------------------------------------------------------------------
(* Start of a run.                                                         *)

Begin(s) ==
    /\ pc[s] = "idle"
    /\ Goto(s, "startRead")
    /\ UNCHANGED <<rows, meta, artifacts, attempt, lastError, fetched, seen, doomed, deleted, added>>

ReadStart(s) ==
    /\ pc[s] = "startRead"
    /\ SelectRecord(s, "startWrite")

WriteStart(s) ==
    /\ pc[s] = "startWrite"
    /\ seen[s].status = "none" => meta.status = "none"
    /\ meta' = Flush(seen[s], Started(seen[s]))
    /\ seen' = [seen EXCEPT ![s] = NoRecord]
    /\ attempt' = [attempt EXCEPT ![s] = 1]
    /\ Goto(s, "fetch")
    /\ UNCHANGED <<rows, artifacts, lastError, fetched, doomed, deleted, added>>

\* Another first run has inserted the row: job_name is unique.
StartConflict(s) ==
    /\ pc[s] = "startWrite"
    /\ seen[s].status = "none" /\ meta.status # "none"
    /\ Return(s)
    /\ UNCHANGED <<rows, meta, artifacts, doomed, deleted, added>>

StartFails(s) ==
    /\ "metadata" \in Faults
    /\ pc[s] \in {"startRead", "startWrite"}
    /\ Return(s)
    /\ UNCHANGED <<rows, meta, artifacts, doomed, deleted, added>>

-----------------------------------------------------------------------------
(* The fetch.                                                              *)

Fetch(s) ==
    /\ pc[s] = "fetch"
    /\ \E c \in Catalogues :
          /\ Usable(c)
          /\ fetched' = [fetched EXCEPT ![s] = c]
    /\ Goto(s, "deleteCve")
    /\ UNCHANGED <<rows, meta, artifacts, attempt, lastError, seen, doomed, deleted, added>>

FetchEmpty(s) ==
    /\ pc[s] = "fetch"
    /\ \E c \in Catalogues : ~ Usable(c)
    /\ EndAttempt(s, "empty")
    /\ UNCHANGED <<rows, meta, artifacts, doomed, deleted, added>>

FetchFails(s) ==
    /\ "cyperf" \in Faults
    /\ pc[s] = "fetch"
    /\ EndAttempt(s, "cyperf")
    /\ UNCHANGED <<rows, meta, artifacts, doomed, deleted, added>>

-----------------------------------------------------------------------------
(* The full replace: DELETE and INSERT on each table, then COMMIT.         *)

LockStage == [tb \in Tables |-> IF tb = "cve" THEN "lockCve" ELSE "lockAi"]
InsertStage == [tb \in Tables |-> IF tb = "cve" THEN "insertCve" ELSE "insertAi"]

\* The rows a DELETE without WHERE matches.
Matched(s, tb) == rows[tb]

Delete(s, tb, stage) ==
    /\ doomed' = [doomed EXCEPT ![s][tb] = Matched(s, tb)]
    /\ Goto(s, stage)
    /\ UNCHANGED <<rows, meta, artifacts, attempt, lastError, fetched, seen, deleted, added>>

\* The rows come in the order of the table's pages: any order, for the model.
LockRow(s, tb, k) ==
    /\ \A t \in Syncs \ {s} : k \notin deleted[t][tb]
    /\ doomed' = [doomed EXCEPT ![s][tb] = @ \ {k}]
    /\ deleted' = [deleted EXCEPT ![s][tb] = @ \union {k}]

LockRows(s, tb, stage) ==
    /\ \/ /\ \E k \in doomed[s][tb] : LockRow(s, tb, k)
          /\ UNCHANGED pc
       \/ /\ doomed[s][tb] = {}
          /\ Goto(s, stage)
          /\ UNCHANGED <<doomed, deleted>>
    /\ UNCHANGED <<rows, meta, artifacts, attempt, lastError, fetched, seen, added>>

\* What the INSERT has still to put in, in the order of the fetch.
Pending(s, tb) == fetched[s].rows[tb] \ added[s][tb]

Clashes(s, tb) == tb = "ai" /\ fetched[s].clash

InsertRow(s, tb, k) ==
    /\ k \notin rows[tb] \ deleted[s][tb]
    /\ \A t \in Syncs \ {s} : k \notin added[t][tb]
    /\ added' = [added EXCEPT ![s][tb] = @ \union {k}]

Insert(s, tb, stage) ==
    /\ \/ /\ \E k \in Pending(s, tb) : InsertRow(s, tb, k)
          /\ UNCHANGED pc
       \/ /\ Pending(s, tb) = {} /\ ~ Clashes(s, tb)
          /\ Goto(s, stage)
          /\ UNCHANGED added
    /\ UNCHANGED <<rows, meta, artifacts, attempt, lastError, fetched, seen, doomed, deleted>>

\* A row to insert is there already, and nobody is about to take it away.
Duplicates(s, tb) ==
    \/ Pending(s, tb) \intersect (rows[tb] \ UNION {deleted[t][tb] : t \in Syncs}) # {}
    \/ Clashes(s, tb)

\* A row s has still to delete or to insert is held by t.
WaitsFor(s, t) ==
    /\ s # t
    /\ \E tb \in Tables :
          \/ pc[s] = LockStage[tb] /\ doomed[s][tb] \intersect deleted[t][tb] # {}
          \/ /\ pc[s] = InsertStage[tb]
             /\ Pending(s, tb) \intersect (deleted[t][tb] \union added[t][tb]) # {}

\* s is one of several that wait for each other.
Deadlocked(s) ==
    \E ring \in SUBSET Syncs :
       /\ s \in ring
       /\ \A t \in ring : (\E u \in ring : WaitsFor(t, u)) /\ (\E u \in ring : WaitsFor(u, t))

DeleteCve(s) == pc[s] = "deleteCve" /\ Delete(s, "cve", "lockCve")
LockCve(s)   == pc[s] = "lockCve" /\ LockRows(s, "cve", "insertCve")
InsertCve(s) == pc[s] = "insertCve" /\ Insert(s, "cve", "deleteAi")
DeleteAi(s)  == pc[s] = "deleteAi" /\ Delete(s, "ai", "lockAi")
LockAi(s)    == pc[s] = "lockAi" /\ LockRows(s, "ai", "insertAi")
InsertAi(s)  == pc[s] = "insertAi" /\ Insert(s, "ai", "commit")

Commit(s) ==
    /\ pc[s] = "commit"
    /\ rows' = [tb \in Tables |-> (rows[tb] \ deleted[s][tb]) \union added[s][tb]]
    /\ doomed' = [t \in Syncs |-> [tb \in Tables |-> doomed[t][tb] \ deleted[s][tb]]]
    /\ deleted' = [deleted EXCEPT ![s] = NoRows]
    /\ added' = [added EXCEPT ![s] = NoRows]
    /\ Goto(s, "artifacts")
    /\ UNCHANGED <<meta, artifacts, attempt, lastError, fetched, seen>>

\* A unique violation, a deadlock of which PostgreSQL picks this transaction to
\* end it, or any other database error before the commit.
ReplaceFails(s) ==
    /\ pc[s] \in ReplaceStages
    /\ \/ \E tb \in Tables : pc[s] = InsertStage[tb] /\ Duplicates(s, tb)
       \/ Deadlocked(s)
       \/ "replace" \in Faults
    /\ Rollback(s)
    /\ EndAttempt(s, "db")
    /\ UNCHANGED <<rows, meta, artifacts>>

-----------------------------------------------------------------------------
(* After the commit.                                                       *)

\* A file is written, or left as it was, or left truncated.
ArtifactOutcomes(s, tb) ==
    {fetched[s].rows[tb]}
       \union (IF "disk" \in Faults THEN {artifacts[tb], {}} ELSE {})

WriteArtifacts(s) ==
    /\ pc[s] = "artifacts"
    /\ \E cve \in ArtifactOutcomes(s, "cve"), ai \in ArtifactOutcomes(s, "ai") :
          artifacts' = [tb \in Tables |-> IF tb = "cve" THEN cve ELSE ai]
    /\ Goto(s, "completeRead")
    /\ UNCHANGED <<rows, meta, attempt, lastError, fetched, seen, doomed, deleted, added>>

ReadComplete(s) ==
    /\ pc[s] = "completeRead"
    /\ SelectRecord(s, "completeWrite")

WriteComplete(s) ==
    /\ pc[s] = "completeWrite"
    /\ meta' = Flush(seen[s], Succeeded(seen[s], fetched[s]))
    /\ seen' = [seen EXCEPT ![s] = NoRecord]
    /\ Goto(s, "checkFailures")
    /\ UNCHANGED <<rows, artifacts, attempt, lastError, fetched, doomed, deleted, added>>

CheckAfterSuccess(s) ==
    /\ pc[s] = "checkFailures"
    /\ Return(s)
    /\ UNCHANGED <<rows, meta, artifacts, doomed, deleted, added>>

\* The handler of the full replace also covers the bookkeeping after it.
CompletionFails(s) ==
    /\ "metadata" \in Faults
    /\ pc[s] \in RecordStages \ {"artifacts"}
    /\ EndAttempt(s, "db")
    /\ UNCHANGED <<rows, meta, artifacts, doomed, deleted, added>>

-----------------------------------------------------------------------------
(* After the third attempt.                                                *)

ReadFailure(s) ==
    /\ pc[s] = "failRead"
    /\ SelectRecord(s, "failWrite")

WriteFailure(s) ==
    /\ pc[s] = "failWrite"
    /\ meta' = Flush(seen[s], Failed(seen[s], lastError[s]))
    /\ seen' = [seen EXCEPT ![s] = NoRecord]
    /\ Goto(s, "failCheck")
    /\ UNCHANGED <<rows, artifacts, attempt, lastError, fetched, doomed, deleted, added>>

CheckAfterFailure(s) ==
    /\ pc[s] = "failCheck"
    /\ Return(s)
    /\ UNCHANGED <<rows, meta, artifacts, doomed, deleted, added>>

\* Only logged: the row keeps whatever status it has.
FailureRecordingFails(s) ==
    /\ "metadata" \in Faults
    /\ pc[s] \in {"failRead", "failWrite", "failCheck"}
    /\ Return(s)
    /\ UNCHANGED <<rows, meta, artifacts, doomed, deleted, added>>

-----------------------------------------------------------------------------
\* The process ends, or shuts down and cancels its jobs: open transactions
\* roll back and no handler runs.
Crash ==
    /\ "crash" \in Faults
    /\ \E s \in Syncs : pc[s] # "idle"
    /\ pc' = [s \in Syncs |-> "idle"]
    /\ attempt' = [s \in Syncs |-> 0]
    /\ lastError' = [s \in Syncs |-> "none"]
    /\ fetched' = [s \in Syncs |-> NoCatalogue]
    /\ seen' = [s \in Syncs |-> NoRecord]
    /\ doomed' = [s \in Syncs |-> NoRows]
    /\ deleted' = [s \in Syncs |-> NoRows]
    /\ added' = [s \in Syncs |-> NoRows]
    /\ UNCHANGED <<rows, meta, artifacts>>

StartStep(s) == ReadStart(s) \/ WriteStart(s) \/ StartConflict(s) \/ StartFails(s)

FetchStep(s) == Fetch(s) \/ FetchEmpty(s) \/ FetchFails(s)

ReplaceStep(s) ==
    \/ DeleteCve(s) \/ LockCve(s) \/ InsertCve(s)
    \/ DeleteAi(s) \/ LockAi(s) \/ InsertAi(s)
    \/ Commit(s) \/ ReplaceFails(s)

CompleteStep(s) ==
    WriteArtifacts(s) \/ ReadComplete(s) \/ WriteComplete(s)
       \/ CheckAfterSuccess(s) \/ CompletionFails(s)

FailStep(s) ==
    ReadFailure(s) \/ WriteFailure(s) \/ CheckAfterFailure(s) \/ FailureRecordingFails(s)

Step(s) == StartStep(s) \/ FetchStep(s) \/ ReplaceStep(s) \/ CompleteStep(s) \/ FailStep(s)

Next == Crash \/ \E s \in Syncs : Begin(s) \/ Step(s)

Spec == Init /\ [][Next]_vars

\* A started run keeps being scheduled, and remote calls and statements return
\* or fail.  The fairness is strong because a run waiting at a row is not enabled
\* all the time; PostgreSQL's lock queue serves it in the end, or its deadlock
\* check finds it.
Fairness == \A s \in Syncs : SF_vars(Step(s))

FairSpec == Spec /\ Fairness

-----------------------------------------------------------------------------
(* Properties.                                                             *)

TypeOK ==
    /\ rows \in [Tables -> SUBSET Keys]
    /\ meta \in Records
    /\ artifacts \in [Tables -> SUBSET Keys]
    /\ pc \in [Syncs -> Stages]
    /\ attempt \in [Syncs -> 0 .. MaxAttempts]
    /\ lastError \in [Syncs -> Errors]
    /\ fetched \in [Syncs -> Catalogues \union {NoCatalogue}]
    /\ seen \in [Syncs -> Records]
    /\ doomed \in [Syncs -> [Tables -> SUBSET Keys]]
    /\ deleted \in [Syncs -> [Tables -> SUBSET Keys]]
    /\ added \in [Syncs -> [Tables -> SUBSET Keys]]

Settled == \A s \in Syncs : pc[s] = "idle"

Results == {c.rows : c \in {d \in Catalogues : d.rows["cve"] # {}}}

\* The two strike tables together always hold exactly one whole fetch (or
\* nothing, before the first): two overlapping full replaces never leave a
\* mixture of their rows, nor the mappings of one and the AI strikes of the
\* other ("atomic full-replace", sync_service.py:155).  READ COMMITTED does
\* not give this; it needs the catalogues to overlap, see the README.
OneFetch == rows \in Results \union {NoRows}

\* Once no run is active the status row does not say "running": however the
\* reads and column-wise writes of several runs interleave, the last one to
\* finish replaces the status (record_sync_start, record_sync_complete).
StatusSettles == Settled => meta.status # "running"

\* When a lone run is over, profiles_synced is the number of rows the mapping
\* table holds: a failed run has left both as they were, a successful one has
\* replaced both (sync_service.py:231-240 and 290-298).
CountsDescribeRows == Settled => meta.profiles = Cardinality(rows["cve"])

\* When no run is active the row carries an error message exactly when the
\* last run failed (sync_metadata.py:45).
ErrorExplainsFailure ==
    Settled => (meta.error # "none" <=> meta.status = "failed")

\* Outside the two file writes the JSON artifacts show the committed tables,
\* whatever attempts failed in between (sync_service.py:182-227).
ArtifactsMirrorTables ==
    (\A s \in Syncs : pc[s] # "artifacts") => artifacts = rows

\* A sync, once triggered, always comes to an end: retries are bounded, and two
\* transactions that wait for each other are parted by a failure of one.
EverySyncFinishes == \A s \in Syncs : pc[s] # "idle" ~> pc[s] = "idle"

\* perform_sync implements SyncContract: each run publishes at most one whole,
\* non-empty fetch, and changes the tables in no other step.
Phase(s) ==
    CASE pc[s] = "idle" -> "idle"
      [] pc[s] \in RecordStages -> "published"
      [] OTHER -> "running"

Contract == INSTANCE SyncContract
                WITH store <- rows, phase <- [s \in Syncs |-> Phase(s)]

ImplementsContract == Contract!Spec

InsertedStages == {"deleteAi", "lockAi", "insertAi", "commit"}

\* A replace that has put all its mappings in waits for nobody any more, so no
\* deadlock ends it, and in the AI strikes it meets no row but its own: only a
\* clash of names or the database can still keep it from its commit
\* (sync_service.py:169-178, which lock the second table after the first).
PastMappingsUnhindered ==
    \A s \in Syncs : pc[s] \in InsertedStages =>
        /\ \A t \in Syncs : ~ WaitsFor(s, t)
        /\ ~ Deadlocked(s)
        /\ pc[s] = "insertAi" /\ Duplicates(s, "ai") => fetched[s].clash

(* What the comments of the code say and the code does not do.             *)

\* "On any Cyperf failure: ... retains all previous rows"
\* (sync_service.py:55-60): a lone run that reports failure has not replaced
\* the table it reports on.
FailedSyncRetainsRows ==
    Settled /\ meta.status = "failed" => meta.profiles = Cardinality(rows["cve"])

\* "On database errors: ... does NOT retry" (sync_service.py:62-65).
NoRetryAfterDatabaseError ==
    \A s \in Syncs : lastError[s] = "db" => pc[s] \notin {"fetch", "deleteCve"}
=============================================================================
