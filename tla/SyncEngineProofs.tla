-------------------------- MODULE SyncEngineProofs --------------------------
(* Theorems about SyncEngine and its circuit breaker in SyncAlerts, for     *)
(* every set of jobs, keys and catalogues, and about the readers of        *)
(* TableReaders beside it.                                                 *)
EXTENDS SyncAlerts, FiniteSetTheorems, TLAPS

-----------------------------------------------------------------------------
(* Type correctness.                                                       *)

\* The values the constants of the module give to its state are well typed.
LEMMA ConstantTypes ==
    /\ NoRows \in [Tables -> SUBSET Keys]
    /\ NoRecord \in Records
    /\ "cve" \in Tables /\ "ai" \in Tables
  BY DEF NoRows, NoRecord, Records, Statuses, Errors, Tables

\* A column-wise write of a well-typed record leaves a well-typed row.
LEMMA FlushType ==
    ASSUME TypeOK, NEW old \in Records, NEW new \in Records
    PROVE  Flush(old, new) \in Records
  BY DEF TypeOK, Flush, Written, Records

\* So do the three records perform_sync writes.
LEMMA RecordTypes ==
    ASSUME NEW old \in Records
    PROVE  /\ Started(old) \in Records
           /\ \A c \in Catalogues : Succeeded(old, c) \in Records
           /\ \A err \in Errors : Failed(old, err) \in Records
<1>1. Started(old) \in Records
  BY DEF Started, Records, Statuses
<1>2. ASSUME NEW c \in Catalogues
      PROVE  Succeeded(old, c) \in Records
  BY DEF Succeeded, Records, Statuses, Errors
<1>3. ASSUME NEW err \in Errors
      PROVE  Failed(old, err) \in Records
  BY DEF Failed, Records, Statuses
<1>4. QED
  BY <1>1, <1>2, <1>3

\* Ending a run or an attempt keeps the run's local variables well typed.
LEMMA LocalTypes ==
    ASSUME TypeOK, NEW s \in Syncs, NEW err \in Errors,
           Return(s) \/ EndAttempt(s, err)
    PROVE  /\ pc' \in [Syncs -> Stages]
           /\ attempt' \in [Syncs -> 0 .. MaxAttempts]
           /\ lastError' \in [Syncs -> Errors]
           /\ fetched' \in [Syncs -> Catalogues \union {NoCatalogue}]
           /\ seen' \in [Syncs -> Records]
<1>1. CASE Return(s)
  BY <1>1, ConstantTypes, SyncEngineAssumption
     DEF Return, Goto, TypeOK, Stages, Errors
<1>2. CASE EndAttempt(s, err)
  <2>1. /\ lastError' \in [Syncs -> Errors]
        /\ fetched' \in [Syncs -> Catalogues \union {NoCatalogue}]
        /\ seen' \in [Syncs -> Records]
    BY <1>2, ConstantTypes DEF EndAttempt, TypeOK
  <2>2. /\ pc' \in [Syncs -> Stages]
        /\ attempt' \in [Syncs -> 0 .. MaxAttempts]
    <3>1. attempt[s] \in Nat /\ MaxAttempts \in Nat
      BY SyncEngineAssumption DEF TypeOK
    <3>2. CASE attempt[s] < MaxAttempts
      <4>1. /\ attempt' = [attempt EXCEPT ![s] = attempt[s] + 1]
            /\ pc' = [pc EXCEPT ![s] = "fetch"]
        BY <1>2, <3>1, <3>2 DEF EndAttempt, NextAttempt, LastAttempt, Goto
      <4>2. attempt[s] + 1 \in 0 .. MaxAttempts
        BY <3>1, <3>2
      <4>3. QED
        BY <4>1, <4>2 DEF TypeOK, Stages
    <3>3. CASE attempt[s] >= MaxAttempts
      BY <1>2, <3>3, SyncEngineAssumption DEF EndAttempt, LastAttempt, Goto, TypeOK, Stages
    <3>4. QED
      BY <3>1, <3>2, <3>3
  <2>3. QED
    BY <2>1, <2>2
<1>3. QED
  BY <1>1, <1>2

LEMMA StartTypes ==
    ASSUME TypeOK, NEW s \in Syncs, Begin(s) \/ StartStep(s)
    PROVE  TypeOK'
<1>1. CASE Begin(s)
  BY <1>1 DEF Begin, Goto, TypeOK, Stages
<1>2. CASE ReadStart(s)
  BY <1>2 DEF ReadStart, SelectRecord, Goto, TypeOK, Stages
<1>3. CASE WriteStart(s)
  <2>1. meta' \in Records
    BY <1>3, FlushType, RecordTypes DEF WriteStart, TypeOK
  <2>2. attempt' \in [Syncs -> 0 .. MaxAttempts]
    BY <1>3, SyncEngineAssumption DEF WriteStart, TypeOK
  <2>3. QED
    BY <1>3, <2>1, <2>2, ConstantTypes DEF WriteStart, Goto, TypeOK, Stages
<1>4. CASE StartConflict(s) \/ StartFails(s)
  BY <1>4, LocalTypes DEF StartConflict, StartFails, TypeOK, Errors
<1>5. QED
  BY <1>1, <1>2, <1>3, <1>4 DEF StartStep

LEMMA FetchTypes ==
    ASSUME TypeOK, NEW s \in Syncs, FetchStep(s)
    PROVE  TypeOK'
<1>1. CASE Fetch(s)
  BY <1>1 DEF Fetch, Goto, TypeOK, Stages, ReplaceStages
<1>2. CASE FetchEmpty(s) \/ FetchFails(s)
  <2>1. PICK err \in Errors : EndAttempt(s, err)
    BY <1>2 DEF FetchEmpty, FetchFails, Errors
  <2>2. QED
    BY <1>2, <2>1, LocalTypes DEF FetchEmpty, FetchFails, TypeOK
<1>3. QED
  BY <1>1, <1>2 DEF FetchStep

\* What an INSERT puts in are keys.
LEMMA FetchedKeys ==
    ASSUME TypeOK, NEW s \in Syncs, NEW tb \in Tables
    PROVE  doomed[s][tb] \subseteq Keys /\ Pending(s, tb) \subseteq Keys
<1>1. fetched[s] \in Catalogues \union {NoCatalogue}
  BY DEF TypeOK
<1>2. fetched[s].rows \in [Tables -> SUBSET Keys]
  BY <1>1, SyncEngineAssumption, ConstantTypes DEF CatalogueType, NoCatalogue
<1>3. doomed[s] \in [Tables -> SUBSET Keys]
  BY DEF TypeOK
<1> QED
  BY <1>2, <1>3 DEF Pending

\* What a step of a DELETE does: a row of one table is taken, or all are.
LEMMA LockOutcome ==
    ASSUME TypeOK, NEW s \in Syncs, NEW tb \in Tables, NEW stage, LockRows(s, tb, stage)
    PROVE  /\ UNCHANGED <<rows, fetched, added>>
           /\ \A ub \in Tables \ {tb} : doomed'[s][ub] = doomed[s][ub] /\ deleted'[s][ub] = deleted[s][ub]
           /\ \/ /\ pc'[s] = stage /\ doomed[s][tb] = {}
                 /\ doomed'[s][tb] = doomed[s][tb] /\ deleted'[s][tb] = deleted[s][tb]
              \/ /\ pc'[s] = pc[s]
                 /\ \E k \in doomed[s][tb] :
                       /\ \A t \in Syncs \ {s} : k \notin deleted[t][tb]
                       /\ doomed'[s][tb] = doomed[s][tb] \ {k}
                       /\ deleted'[s][tb] = deleted[s][tb] \union {k}
<1>1. UNCHANGED <<rows, fetched, added>>
  BY DEF LockRows
<1>2. CASE \E k \in doomed[s][tb] : LockRow(s, tb, k) /\ UNCHANGED pc
  <2>1. PICK k \in doomed[s][tb] : LockRow(s, tb, k) /\ UNCHANGED pc
    BY <1>2
  <2>2. /\ doomed'[s] = [doomed[s] EXCEPT ![tb] = @ \ {k}]
        /\ deleted'[s] = [deleted[s] EXCEPT ![tb] = @ \union {k}]
    BY <2>1 DEF LockRow, TypeOK
  <2>3. DOMAIN doomed[s] = Tables /\ DOMAIN deleted[s] = Tables
    BY DEF TypeOK
  <2> QED
    BY <1>1, <2>1, <2>2, <2>3 DEF LockRow
<1>3. CASE doomed[s][tb] = {} /\ Goto(s, stage) /\ UNCHANGED <<doomed, deleted>>
  BY <1>1, <1>3 DEF Goto, TypeOK
<1> QED
  BY <1>2, <1>3 DEF LockRows

\* What a step of an INSERT does: a row of one table is put in, or all are.
LEMMA InsertOutcome ==
    ASSUME TypeOK, NEW s \in Syncs, NEW tb \in Tables, NEW stage, Insert(s, tb, stage)
    PROVE  /\ UNCHANGED <<rows, fetched, doomed, deleted>>
           /\ \A ub \in Tables \ {tb} : added'[s][ub] = added[s][ub]
           /\ \/ /\ pc'[s] = stage /\ fetched[s].rows[tb] \subseteq added[s][tb]
                 /\ added'[s][tb] = added[s][tb]
              \/ /\ pc'[s] = pc[s]
                 /\ \E k \in fetched[s].rows[tb] :
                       /\ k \notin rows[tb] \ deleted[s][tb]
                       /\ \A t \in Syncs \ {s} : k \notin added[t][tb]
                       /\ added'[s][tb] = added[s][tb] \union {k}
<1>1. UNCHANGED <<rows, fetched, doomed, deleted>>
  BY DEF Insert
<1>2. CASE \E k \in Pending(s, tb) : InsertRow(s, tb, k) /\ UNCHANGED pc
  <2>1. PICK k \in Pending(s, tb) : InsertRow(s, tb, k) /\ UNCHANGED pc
    BY <1>2
  <2>2. added'[s] = [added[s] EXCEPT ![tb] = @ \union {k}]
    BY <2>1 DEF InsertRow, TypeOK
  <2>3. DOMAIN added[s] = Tables
    BY DEF TypeOK
  <2> QED
    BY <1>1, <2>1, <2>2, <2>3 DEF InsertRow, Pending
<1>3. CASE Pending(s, tb) = {} /\ Goto(s, stage) /\ UNCHANGED added
  BY <1>1, <1>3 DEF Goto, Pending, TypeOK
<1> QED
  BY <1>2, <1>3 DEF Insert

LEMMA ReplaceTypes ==
    ASSUME TypeOK, NEW s \in Syncs, ReplaceStep(s)
    PROVE  TypeOK'
<1> USE ConstantTypes
<1>1. ASSUME NEW tb \in Tables, NEW stage \in Stages, Delete(s, tb, stage)
      PROVE  TypeOK'
  BY <1>1 DEF Delete, Matched, Goto, TypeOK
<1>2. ASSUME NEW tb \in Tables, NEW stage \in Stages, LockRows(s, tb, stage)
      PROVE  TypeOK'
  <2>1. CASE \E k \in doomed[s][tb] : LockRow(s, tb, k) /\ UNCHANGED pc
    <3>1. PICK k \in doomed[s][tb] : LockRow(s, tb, k) /\ UNCHANGED pc
      BY <2>1
    <3>2. k \in Keys
      BY FetchedKeys
    <3>3. /\ doomed' \in [Syncs -> [Tables -> SUBSET Keys]]
          /\ deleted' \in [Syncs -> [Tables -> SUBSET Keys]]
      BY <3>1, <3>2 DEF LockRow, TypeOK
    <3> QED
      BY <1>2, <3>1, <3>3 DEF LockRows, TypeOK
  <2>2. CASE Goto(s, stage) /\ UNCHANGED <<doomed, deleted>>
    BY <1>2, <2>2 DEF LockRows, Goto, TypeOK
  <2> QED
    BY <1>2, <2>1, <2>2 DEF LockRows
<1>3. ASSUME NEW tb \in Tables, NEW stage \in Stages, Insert(s, tb, stage)
      PROVE  TypeOK'
  <2>1. CASE \E k \in Pending(s, tb) : InsertRow(s, tb, k) /\ UNCHANGED pc
    <3>1. PICK k \in Pending(s, tb) : InsertRow(s, tb, k) /\ UNCHANGED pc
      BY <2>1
    <3>2. k \in Keys
      BY FetchedKeys
    <3>3. added' \in [Syncs -> [Tables -> SUBSET Keys]]
      BY <3>1, <3>2 DEF InsertRow, TypeOK
    <3> QED
      BY <1>3, <3>1, <3>3 DEF Insert, TypeOK
  <2>2. CASE Goto(s, stage) /\ UNCHANGED added
    BY <1>3, <2>2 DEF Insert, Goto, TypeOK
  <2> QED
    BY <1>3, <2>1, <2>2 DEF Insert
<1>4. CASE Commit(s)
  <2>1. /\ rows' \in [Tables -> SUBSET Keys]
        /\ doomed' \in [Syncs -> [Tables -> SUBSET Keys]]
        /\ deleted' \in [Syncs -> [Tables -> SUBSET Keys]]
        /\ added' \in [Syncs -> [Tables -> SUBSET Keys]]
    BY <1>4 DEF Commit, TypeOK
  <2> QED
    BY <1>4, <2>1 DEF Commit, Goto, TypeOK, Stages, RecordStages
<1>5. CASE ReplaceFails(s)
  <2>1. "db" \in Errors
    BY DEF Errors
  <2>2. EndAttempt(s, "db")
    BY <1>5 DEF ReplaceFails
  <2>3. /\ doomed' \in [Syncs -> [Tables -> SUBSET Keys]]
        /\ deleted' \in [Syncs -> [Tables -> SUBSET Keys]]
        /\ added' \in [Syncs -> [Tables -> SUBSET Keys]]
    BY <1>5 DEF ReplaceFails, Rollback, TypeOK
  <2> QED
    BY <1>5, <2>1, <2>2, <2>3, LocalTypes DEF ReplaceFails, TypeOK
<1>6. ReplaceStages \subseteq Stages
  BY DEF Stages
<1>7. QED
  BY <1>1, <1>2, <1>3, <1>4, <1>5, <1>6
     DEF ReplaceStep, DeleteCve, LockCve, InsertCve, DeleteAi, LockAi, InsertAi,
         ReplaceStages

LEMMA CompleteTypes ==
    ASSUME TypeOK, NEW s \in Syncs, CompleteStep(s) \/ FailStep(s)
    PROVE  TypeOK'
<1>1. RecordStages \subseteq Stages
  BY DEF Stages
<1>2. CASE WriteArtifacts(s)
  <2>1. \A tb \in Tables : ArtifactOutcomes(s, tb) \subseteq SUBSET Keys
    BY SyncEngineAssumption, ConstantTypes
       DEF ArtifactOutcomes, TypeOK, CatalogueType, NoCatalogue
  <2>2. artifacts' \in [Tables -> SUBSET Keys]
    BY <1>2, <2>1, ConstantTypes DEF WriteArtifacts
  <2>3. QED
    BY <1>1, <1>2, <2>2 DEF WriteArtifacts, Goto, TypeOK, RecordStages
<1>3. CASE ReadComplete(s) \/ ReadFailure(s)
  <2>1. PICK stage \in {"completeWrite", "failWrite"} : SelectRecord(s, stage)
    BY <1>3 DEF ReadComplete, ReadFailure
  <2>2. stage \in Stages /\ meta \in Records
    BY <2>1 DEF Stages, RecordStages, TypeOK
  <2>3. UNCHANGED <<rows, meta, artifacts, attempt, lastError, fetched, doomed, deleted, added>>
    BY <2>1 DEF SelectRecord
  <2>4. seen' \in [Syncs -> Records] /\ pc' \in [Syncs -> Stages]
    BY <2>1, <2>2 DEF SelectRecord, Goto, TypeOK
  <2> QED
    BY <2>3, <2>4 DEF TypeOK
<1>4. CASE CheckAfterSuccess(s) \/ CheckAfterFailure(s) \/ FailureRecordingFails(s)
  BY <1>4, LocalTypes
     DEF CheckAfterSuccess, CheckAfterFailure, FailureRecordingFails, TypeOK, Errors
<1>5. CASE CompletionFails(s)
  <2>1. "db" \in Errors
    BY DEF Errors
  <2>2. QED
    BY <1>5, <2>1, LocalTypes DEF CompletionFails, TypeOK
<1>6. CASE WriteFailure(s)
  <2>1. meta' \in Records
    BY <1>6, FlushType, RecordTypes DEF WriteFailure, TypeOK
  <2>2. QED
    BY <1>6, <2>1, ConstantTypes DEF WriteFailure, Goto, TypeOK, Stages
<1>7. CASE WriteComplete(s)
  <2>1. Succeeded(seen[s], fetched[s]) \in Records
    <3>1. Cardinality(NoCatalogue.rows["cve"]) = 0
      BY FS_EmptySet DEF NoCatalogue, NoRows, Tables
    <3>2. fetched[s] \in Catalogues \union {NoCatalogue}
      BY DEF TypeOK
    <3>3. QED
      BY <3>1, <3>2 DEF Succeeded, Records, Statuses, Errors
  <2>2. meta' \in Records
    BY <1>7, <2>1, FlushType DEF WriteComplete, TypeOK
  <2>3. QED
    BY <1>1, <1>7, <2>2, ConstantTypes DEF WriteComplete, Goto, TypeOK, RecordStages
<1>8. QED
  BY <1>2, <1>3, <1>4, <1>5, <1>6, <1>7 DEF CompleteStep, FailStep

\* Every variable keeps its type, for every number of concurrent runs.
THEOREM TypeCorrect == Spec => []TypeOK
<1>1. Init => TypeOK
  BY ConstantTypes, SyncEngineAssumption DEF Init, TypeOK, Stages, Errors
<1>2. TypeOK /\ [Next]_vars => TypeOK'
  <2> SUFFICES ASSUME TypeOK, [Next]_vars
               PROVE  TypeOK'
    OBVIOUS
  <2>1. CASE Crash
    BY <2>1, ConstantTypes, SyncEngineAssumption
       DEF Crash, TypeOK, Stages, Errors
  <2>2. ASSUME NEW s \in Syncs, Begin(s) \/ Step(s)
        PROVE  TypeOK'
    BY <2>2, StartTypes, FetchTypes, ReplaceTypes, CompleteTypes DEF Step
  <2>3. CASE UNCHANGED vars
    BY <2>3 DEF vars, TypeOK
  <2>4. QED
    BY <2>1, <2>2, <2>3 DEF Next
<1>3. QED
  BY <1>1, <1>2, PTL DEF Spec

-----------------------------------------------------------------------------
(* The status settles.                                                     *)

\* A run that has recorded its start still owes a final status, until it
\* writes one over a "running" it has read.
Owing(s) ==
    \/ pc[s] \in {"fetch", "artifacts", "completeRead", "failRead"} \union ReplaceStages
    \/ pc[s] \in {"completeWrite", "failWrite"} /\ seen[s].status = "running"

\* The inductive strengthening of StatusSettles: "running" is somebody's debt.
StatusOwed == meta.status = "running" => \E s \in Syncs : Owing(s)

\* Steps of a run that leave the status row alone and keep its debt, if any.
LEMMA DebtKept ==
    ASSUME "metadata" \notin Faults, TypeOK, NEW s \in Syncs, Owing(s),
           Begin(s) \/ Step(s), UNCHANGED meta, meta.status = "running"
    PROVE  Owing(s)'
<1> USE DEF Owing, Goto
<1>1. s \in DOMAIN pc /\ s \in DOMAIN seen
  BY DEF TypeOK
<1>2. CASE Begin(s) \/ StartStep(s)
  BY <1>2 DEF Begin, StartStep, ReadStart, WriteStart, StartConflict, StartFails,
              ReplaceStages
<1>3. CASE FetchStep(s)
  BY <1>1, <1>3 DEF FetchStep, Fetch, FetchEmpty, FetchFails, EndAttempt, ReplaceStages
<1>4. CASE ReplaceStep(s)
  BY <1>1, <1>4
     DEF ReplaceStep, DeleteCve, LockCve, InsertCve, DeleteAi, LockAi, InsertAi,
         Delete, LockRows, Insert, Commit, ReplaceFails, EndAttempt, ReplaceStages
<1>5. CASE CompleteStep(s)
  <2>1. CASE WriteArtifacts(s)
    BY <1>1, <2>1 DEF WriteArtifacts
  <2>2. CASE ReadComplete(s)
    BY <1>1, <2>2 DEF ReadComplete, SelectRecord
  <2>3. CASE WriteComplete(s)
    BY <2>3 DEF WriteComplete, Flush, Written, Succeeded, ReplaceStages
  <2>4. QED
    BY <1>5, <2>1, <2>2, <2>3
       DEF CompleteStep, CheckAfterSuccess, CompletionFails, ReplaceStages
<1>6. CASE FailStep(s)
  <2>1. CASE ReadFailure(s)
    BY <1>1, <2>1 DEF ReadFailure, SelectRecord
  <2>2. CASE WriteFailure(s)
    BY <2>2 DEF WriteFailure, Flush, Written, Failed, TypeOK, Records, ReplaceStages
  <2>3. QED
    BY <1>6, <2>1, <2>2
       DEF FailStep, CheckAfterFailure, FailureRecordingFails, ReplaceStages
<1>7. QED
  BY <1>2, <1>3, <1>4, <1>5, <1>6 DEF Step

\* The other runs' debts are their own: a step of s does not touch them.
LEMMA OtherDebts ==
    ASSUME TypeOK, NEW s \in Syncs, NEW t \in Syncs \ {s}, Begin(s) \/ Step(s)
    PROVE  pc'[t] = pc[t] /\ seen'[t] = seen[t]
<1> USE DEF TypeOK, Goto
<1>1. CASE Begin(s) \/ StartStep(s)
  BY <1>1 DEF Begin, StartStep, ReadStart, WriteStart, StartConflict, StartFails,
              SelectRecord, Return
<1>2. CASE FetchStep(s)
  BY <1>2 DEF FetchStep, Fetch, FetchEmpty, FetchFails, EndAttempt
<1>3. CASE ReplaceStep(s)
  BY <1>3
     DEF ReplaceStep, DeleteCve, LockCve, InsertCve, DeleteAi, LockAi, InsertAi,
         Delete, LockRows, Insert, Commit, ReplaceFails, EndAttempt
<1>4. CASE CompleteStep(s)
  BY <1>4
     DEF CompleteStep, WriteArtifacts, ReadComplete, WriteComplete, SelectRecord,
         CheckAfterSuccess, CompletionFails, Return, EndAttempt
<1>5. CASE FailStep(s)
  BY <1>5
     DEF FailStep, ReadFailure, WriteFailure, CheckAfterFailure,
         FailureRecordingFails, SelectRecord, Return
<1>6. QED
  BY <1>1, <1>2, <1>3, <1>4, <1>5 DEF Step

\* Only three actions write the status row.
LEMMA StatusWriters ==
    ASSUME NEW s \in Syncs, Begin(s) \/ Step(s)
    PROVE  UNCHANGED meta \/ WriteStart(s) \/ WriteComplete(s) \/ WriteFailure(s)
<1>1. CASE Begin(s) \/ StartStep(s)
  BY <1>1 DEF Begin, StartStep, ReadStart, StartConflict, StartFails, SelectRecord
<1>2. CASE FetchStep(s)
  BY <1>2 DEF FetchStep, Fetch, FetchEmpty, FetchFails
<1>3. CASE ReplaceStep(s)
  BY <1>3
     DEF ReplaceStep, DeleteCve, LockCve, InsertCve, DeleteAi, LockAi, InsertAi,
         Delete, LockRows, Insert, Commit, ReplaceFails
<1>4. CASE CompleteStep(s)
  BY <1>4 DEF CompleteStep, WriteArtifacts, ReadComplete, SelectRecord,
              CheckAfterSuccess, CompletionFails
<1>5. CASE FailStep(s)
  BY <1>5 DEF FailStep, ReadFailure, SelectRecord, CheckAfterFailure,
              FailureRecordingFails
<1>6. QED
  BY <1>1, <1>2, <1>3, <1>4, <1>5 DEF Step

\* A final status replaces the "running" it read, and otherwise leaves a
\* "running" only if another run owes the replacement.
LEMMA FinalWrite ==
    ASSUME TypeOK, StatusOwed, NEW s \in Syncs, WriteComplete(s) \/ WriteFailure(s),
           meta'.status = "running"
    PROVE  \E t \in Syncs \ {s} : Owing(t)
<1>1. PICK final \in {"success", "failed"} :
         meta'.status = Written(seen[s].status, final, meta.status)
  <2>1. CASE WriteComplete(s)
    BY <2>1 DEF WriteComplete, Flush, Succeeded
  <2>2. CASE WriteFailure(s)
    <3>1. Failed(seen[s], lastError[s]).status = "failed"
      BY DEF Failed, TypeOK, Records
    <3>2. QED
      BY <2>2, <3>1 DEF WriteFailure, Flush
  <2>3. QED
    BY <2>1, <2>2
<1>2. seen[s].status = final /\ meta.status = "running"
  BY <1>1 DEF Written
<1>3. ~ Owing(s)
  BY <1>1, <1>2 DEF Owing, WriteComplete, WriteFailure, ReplaceStages
<1>4. QED
  BY <1>2, <1>3 DEF StatusOwed

\* Whatever the interleaving of concurrent runs and the lost column updates
\* between them, sync_metadata never stays "running" once all runs are over,
\* provided its own reads and writes succeed and the process stays up.
THEOREM StatusAlwaysSettles ==
    ASSUME "metadata" \notin Faults, "crash" \notin Faults
    PROVE  Spec => []StatusSettles
<1>1. Init => StatusOwed
  BY DEF Init, StatusOwed, NoRecord
<1>2. TypeOK /\ StatusOwed /\ [Next]_vars => StatusOwed'
  <2> SUFFICES ASSUME TypeOK, StatusOwed, [Next]_vars, meta'.status = "running"
               PROVE  \E t \in Syncs : Owing(t)'
    BY DEF StatusOwed
  <2>1. ASSUME NEW s \in Syncs, Begin(s) \/ Step(s)
        PROVE  \E t \in Syncs : Owing(t)'
    <3>1. CASE UNCHANGED meta
      <4>1. PICK t \in Syncs : Owing(t)
        BY <3>1 DEF StatusOwed
      <4>2. CASE t = s
        BY <2>1, <3>1, <4>1, <4>2, DebtKept
      <4>3. CASE t # s
        BY <2>1, <4>1, <4>3, OtherDebts DEF Owing
      <4>4. QED
        BY <4>2, <4>3
    <3>2. CASE WriteStart(s)
      BY <3>2 DEF WriteStart, Goto, TypeOK, Owing
    <3>3. CASE WriteComplete(s) \/ WriteFailure(s)
      <4>1. PICK t \in Syncs \ {s} : Owing(t)
        BY <3>3, FinalWrite
      <4>2. QED
        BY <2>1, <4>1, OtherDebts DEF Owing
    <3>4. QED
      BY <2>1, <3>1, <3>2, <3>3, StatusWriters
  <2>2. CASE UNCHANGED vars
    BY <2>2 DEF vars, StatusOwed, Owing
  <2>3. QED
    BY <2>1, <2>2 DEF Next, Crash
<1>3. StatusOwed => StatusSettles
  BY DEF StatusOwed, StatusSettles, Settled, Owing, ReplaceStages
<1>4. QED
  BY <1>1, <1>2, <1>3, TypeCorrect, PTL DEF Spec

-----------------------------------------------------------------------------
(* What the open transactions hold.                                        *)

\* A run leaves the local state of every other run alone, but for the rows a
\* commit takes out of the others' pending DELETEs.
LEMMA Locality ==
    ASSUME TypeOK, NEW s \in Syncs, NEW t \in Syncs \ {s}, Begin(s) \/ Step(s)
    PROVE  /\ pc'[t] = pc[t] /\ fetched'[t] = fetched[t]
           /\ deleted'[t] = deleted[t] /\ added'[t] = added[t]
           /\ ~ Commit(s) => doomed'[t] = doomed[t]
<1> USE DEF TypeOK
<1>1. CASE Begin(s) \/ StartStep(s)
  BY <1>1, OtherDebts DEF Begin, StartStep, ReadStart, WriteStart, StartConflict,
              StartFails, SelectRecord, Return
<1>2. CASE FetchStep(s)
  BY <1>2, OtherDebts DEF FetchStep, Fetch, FetchEmpty, FetchFails, EndAttempt
<1>3. CASE ReplaceStep(s)
  BY <1>3, OtherDebts
     DEF ReplaceStep, DeleteCve, LockCve, InsertCve, DeleteAi, LockAi, InsertAi,
         Delete, LockRows, LockRow, Insert, InsertRow, Commit, ReplaceFails,
         EndAttempt, Rollback
<1>4. CASE CompleteStep(s) \/ FailStep(s)
  BY <1>4, OtherDebts
     DEF CompleteStep, WriteArtifacts, ReadComplete, WriteComplete, SelectRecord,
         CheckAfterSuccess, CompletionFails, Return, EndAttempt, FailStep,
         ReadFailure, WriteFailure, CheckAfterFailure, FailureRecordingFails
<1>5. QED
  BY <1>1, <1>2, <1>3, <1>4 DEF Step

\* Only Commit changes the tables.
LEMMA OnlyCommitWrites ==
    ASSUME NEW s \in Syncs, Begin(s) \/ Step(s)
    PROVE  UNCHANGED rows \/ Commit(s)
<1>1. CASE Begin(s) \/ StartStep(s)
  BY <1>1 DEF Begin, StartStep, ReadStart, WriteStart, StartConflict,
              StartFails, SelectRecord
<1>2. CASE FetchStep(s)
  BY <1>2 DEF FetchStep, Fetch, FetchEmpty, FetchFails
<1>3. CASE ReplaceStep(s)
  BY <1>3
     DEF ReplaceStep, DeleteCve, LockCve, InsertCve, DeleteAi, LockAi, InsertAi,
         Delete, LockRows, Insert, ReplaceFails
<1>4. CASE CompleteStep(s) \/ FailStep(s)
  BY <1>4
     DEF CompleteStep, WriteArtifacts, ReadComplete, WriteComplete, SelectRecord,
         CheckAfterSuccess, CompletionFails, FailStep, ReadFailure, WriteFailure,
         CheckAfterFailure, FailureRecordingFails
<1>5. QED
  BY <1>1, <1>2, <1>3, <1>4 DEF Step

\* The stages from which on a run has issued the DELETE on a table, and those
\* from which on it has all the rows of it.
IssuedStages ==
    [tb \in Tables |-> IF tb = "cve" THEN {"lockCve", "insertCve"} \union InsertedStages
                       ELSE {"lockAi", "insertAi", "commit"}]
ClearedStages ==
    [tb \in Tables |-> IF tb = "cve" THEN {"insertCve"} \union InsertedStages
                       ELSE {"insertAi", "commit"}]

\* A run deletes what is committed and inserts what it has fetched, nothing
\* before it comes to it, and no DELETE is left half done.
Holds(s, tb) ==
    /\ doomed[s][tb] \union deleted[s][tb] \subseteq rows[tb]
    /\ added[s][tb] \subseteq fetched[s].rows[tb]
    /\ pc[s] \notin IssuedStages[tb] => doomed[s][tb] = {} /\ deleted[s][tb] = {}
    /\ pc[s] \notin ClearedStages[tb] => added[s][tb] = {}
    /\ pc[s] \in ClearedStages[tb] => doomed[s][tb] = {}

\* A row that is deleted or inserted belongs to one transaction.
Apart(s, t, tb) ==
    /\ deleted[s][tb] \intersect deleted[t][tb] = {}
    /\ added[s][tb] \intersect added[t][tb] = {}

LockInv ==
    \A s \in Syncs, tb \in Tables :
        Holds(s, tb) /\ \A t \in Syncs \ {s} : Apart(s, t, tb)

\* Outside the full replace nothing is held.
LEMMA OnlyReplaceHolds ==
    ASSUME TypeOK, NEW s \in Syncs,
           Begin(s) \/ StartStep(s) \/ FetchStep(s) \/ CompleteStep(s) \/ FailStep(s)
    PROVE  /\ UNCHANGED <<rows, doomed, deleted, added>>
           /\ pc[s] \notin ReplaceStages
           /\ pc'[s] \notin ReplaceStages \ {"deleteCve"}
<1> USE DEF ReplaceStages, Goto, TypeOK
<1>1. CASE Begin(s) \/ StartStep(s)
  BY <1>1 DEF Begin, StartStep, ReadStart, WriteStart, StartConflict,
              StartFails, SelectRecord, Return
<1>2. CASE FetchStep(s)
  BY <1>2 DEF FetchStep, Fetch, FetchEmpty, FetchFails, EndAttempt
<1>3. CASE CompleteStep(s)
  BY <1>3
     DEF CompleteStep, WriteArtifacts, ReadComplete, WriteComplete, SelectRecord,
         CheckAfterSuccess, CompletionFails, Return, EndAttempt, RecordStages
<1>4. CASE FailStep(s)
  BY <1>4
     DEF FailStep, ReadFailure, WriteFailure, CheckAfterFailure, SelectRecord,
         FailureRecordingFails, Return
<1> QED
  BY <1>1, <1>2, <1>3, <1>4

\* A step of s keeps what s holds in order.
LEMMA HoldsStep ==
    ASSUME TypeOK, NEW s \in Syncs, NEW tb \in Tables, Holds(s, tb), Begin(s) \/ Step(s)
    PROVE  Holds(s, tb)'
<1> USE DEF Holds, IssuedStages, ClearedStages, InsertedStages, Tables, Goto
<1>1. CASE Begin(s) \/ StartStep(s) \/ FetchStep(s) \/ CompleteStep(s) \/ FailStep(s)
  BY <1>1, OnlyReplaceHolds DEF ReplaceStages
<1>2. CASE DeleteCve(s)
  BY <1>2 DEF DeleteCve, Delete, Matched, TypeOK
<1>3. CASE LockCve(s)
  BY <1>3, LockOutcome DEF LockCve
<1>4. CASE InsertCve(s)
  BY <1>4, InsertOutcome DEF InsertCve
<1>5. CASE DeleteAi(s)
  BY <1>5 DEF DeleteAi, Delete, Matched, TypeOK
<1>6. CASE LockAi(s)
  BY <1>6, LockOutcome DEF LockAi
<1>7. CASE InsertAi(s)
  BY <1>7, InsertOutcome DEF InsertAi
<1>8. CASE Commit(s)
  <2>1. /\ pc'[s] = "artifacts"
        /\ deleted'[s][tb] = {} /\ added'[s][tb] = {} /\ doomed'[s][tb] = {}
    BY <1>8 DEF Commit, NoRows, TypeOK
  <2> QED
    BY <2>1
<1>9. CASE ReplaceFails(s)
  <2>1. /\ pc'[s] \in {"fetch", "failRead"}
        /\ deleted'[s][tb] = {} /\ added'[s][tb] = {} /\ doomed'[s][tb] = {}
    BY <1>9 DEF ReplaceFails, Rollback, EndAttempt, NoRows, TypeOK
  <2> QED
    BY <2>1
<1> QED
  BY <1>1, <1>2, <1>3, <1>4, <1>5, <1>6, <1>7, <1>8, <1>9 DEF Step, ReplaceStep

\* The others keep what they hold, and a commit takes only what is not theirs.
LEMMA OthersHold ==
    ASSUME TypeOK, LockInv, NEW s \in Syncs, NEW t \in Syncs \ {s}, NEW tb \in Tables,
           Begin(s) \/ Step(s)
    PROVE  Holds(t, tb)' /\ doomed'[t][tb] \subseteq doomed[t][tb]
<1>1. /\ pc'[t] = pc[t] /\ fetched'[t] = fetched[t]
      /\ deleted'[t] = deleted[t] /\ added'[t] = added[t]
  BY Locality
<1>2. Holds(t, tb)
  BY DEF LockInv
<1>3. CASE Commit(s)
  <2>1. /\ rows'[tb] = (rows[tb] \ deleted[s][tb]) \union added[s][tb]
        /\ doomed'[t][tb] = doomed[t][tb] \ deleted[s][tb]
    BY <1>3 DEF Commit
  <2>2. deleted[t][tb] \intersect deleted[s][tb] = {}
    BY DEF LockInv, Apart
  <2> QED
    BY <1>1, <1>2, <2>1, <2>2 DEF Holds
<1>4. CASE ~ Commit(s)
  <2>1. rows' = rows /\ doomed'[t] = doomed[t]
    BY <1>4, Locality, OnlyCommitWrites
  <2> QED
    BY <1>1, <1>2, <2>1 DEF Holds
<1> QED
  BY <1>3, <1>4

\* A run deletes and inserts only rows no other transaction has.
LEMMA ApartStep ==
    ASSUME TypeOK, LockInv, NEW s \in Syncs, NEW t \in Syncs \ {s}, NEW tb \in Tables,
           Begin(s) \/ Step(s)
    PROVE  Apart(s, t, tb)'
<1>1. Apart(s, t, tb)
  BY DEF LockInv
<1>2. deleted'[t] = deleted[t] /\ added'[t] = added[t]
  BY Locality
<1>3. \/ deleted'[s][tb] \subseteq deleted[s][tb]
      \/ \E k : k \notin deleted[t][tb] /\ deleted'[s][tb] \subseteq deleted[s][tb] \union {k}
  <2>1. CASE LockCve(s) \/ LockAi(s)
    BY <2>1, LockOutcome DEF LockCve, LockAi, Tables
  <2>2. CASE Commit(s) \/ ReplaceFails(s)
    BY <2>2 DEF Commit, ReplaceFails, Rollback, NoRows, TypeOK
  <2>3. CASE DeleteCve(s) \/ DeleteAi(s) \/ InsertCve(s) \/ InsertAi(s)
    BY <2>3 DEF DeleteCve, DeleteAi, InsertCve, InsertAi, Delete, Insert
  <2> QED
    BY <2>1, <2>2, <2>3, OnlyReplaceHolds DEF Step, ReplaceStep
<1>4. \/ added'[s][tb] \subseteq added[s][tb]
      \/ \E k : k \notin added[t][tb] /\ added'[s][tb] \subseteq added[s][tb] \union {k}
  <2>1. CASE InsertCve(s) \/ InsertAi(s)
    BY <2>1, InsertOutcome DEF InsertCve, InsertAi, Tables
  <2>2. CASE Commit(s) \/ ReplaceFails(s)
    BY <2>2 DEF Commit, ReplaceFails, Rollback, NoRows, TypeOK
  <2>3. CASE DeleteCve(s) \/ DeleteAi(s) \/ LockCve(s) \/ LockAi(s)
    BY <2>3 DEF DeleteCve, DeleteAi, LockCve, LockAi, Delete, LockRows
  <2> QED
    BY <2>1, <2>2, <2>3, OnlyReplaceHolds DEF Step, ReplaceStep
<1> QED
  BY <1>1, <1>2, <1>3, <1>4 DEF Apart

LEMMA LockInvariant == Spec => []LockInv
<1>1. Init => LockInv
  <2> SUFFICES ASSUME Init, NEW s \in Syncs, NEW tb \in Tables
               PROVE  Holds(s, tb) /\ \A t \in Syncs \ {s} : Apart(s, t, tb)
    BY DEF LockInv
  <2>1. \A t \in Syncs : doomed[t][tb] = {} /\ deleted[t][tb] = {} /\ added[t][tb] = {}
    BY DEF Init, NoRows
  <2>2. pc[s] \notin ClearedStages[tb]
    BY DEF Init, ClearedStages, InsertedStages
  <2> QED
    BY <2>1, <2>2 DEF Holds, Apart
<1>2. TypeOK /\ LockInv /\ [Next]_vars => LockInv'
  <2> SUFFICES ASSUME TypeOK, LockInv, [Next]_vars PROVE LockInv'
    OBVIOUS
  <2>1. ASSUME NEW s \in Syncs, Begin(s) \/ Step(s)
        PROVE  LockInv'
    <3> SUFFICES ASSUME NEW t \in Syncs, NEW tb \in Tables
                 PROVE  Holds(t, tb)' /\ \A u \in Syncs \ {t} : Apart(t, u, tb)'
      BY DEF LockInv
    <3>1. Holds(t, tb)'
      BY <2>1, HoldsStep, OthersHold DEF LockInv
    <3>2. ASSUME NEW u \in Syncs \ {t}
          PROVE  Apart(t, u, tb)'
      <4>1. CASE t = s
        BY <2>1, <4>1, ApartStep
      <4>2. CASE u = s
        <5>1. Apart(s, t, tb)'
          BY <2>1, <4>2, ApartStep
        <5> QED
          BY <4>2, <5>1 DEF Apart
      <4>3. CASE t # s /\ u # s
        BY <2>1, <4>3, Locality DEF LockInv, Apart
      <4> QED
        BY <4>1, <4>2, <4>3
    <3> QED
      BY <3>1, <3>2
  <2>2. CASE Crash
    <3> SUFFICES ASSUME NEW s \in Syncs, NEW tb \in Tables
                 PROVE  Holds(s, tb)' /\ \A t \in Syncs \ {s} : Apart(s, t, tb)'
      BY DEF LockInv
    <3>1. \A t \in Syncs : doomed'[t][tb] = {} /\ deleted'[t][tb] = {} /\ added'[t][tb] = {}
      BY <2>2 DEF Crash, NoRows
    <3>2. pc'[s] \notin ClearedStages[tb]
      BY <2>2 DEF Crash, ClearedStages, InsertedStages
    <3> QED
      BY <3>1, <3>2 DEF Holds, Apart
  <2>3. CASE UNCHANGED vars
    BY <2>3 DEF vars, LockInv, Holds, Apart
  <2> QED
    BY <2>1, <2>2, <2>3 DEF Next
<1> QED
  BY <1>1, <1>2, TypeCorrect, PTL DEF Spec

-----------------------------------------------------------------------------
(* Overlapping full replaces do not mix.  READ COMMITTED alone would let   *)
(* them: a DELETE that waited for another replace skips the rows that      *)
(* replace has put in.  What protects the tables is that any two fetches   *)
(* of one strike library share a mapping, so the second INSERT then meets  *)
(* a duplicate key and rolls back.                                         *)

\* Any two usable fetches have a CVE in common.
Overlap ==
    \A c, d \in Catalogues :
        Usable(c) /\ Usable(d) => c.rows["cve"] \intersect d.rows["cve"] # {}

\* All that is committed is deleted by s, or about to be.
Covers(s, tb) == rows[tb] = doomed[s][tb] \union deleted[s][tb]

\* A mapping s has still to insert is committed, and s does not delete it.
Blocked(s) ==
    (fetched[s].rows["cve"] \intersect rows["cve"])
        \ (doomed[s]["cve"] \union deleted[s]["cve"] \union added[s]["cve"]) # {}

\* What a run in the middle of its transaction relies on.
ReplaceReady(s) ==
    /\ pc[s] \in ReplaceStages => fetched[s] \in Catalogues /\ Usable(fetched[s])
    /\ pc[s] \in {"lockCve", "insertCve"} => Covers(s, "cve") \/ Blocked(s)
    /\ pc[s] \in InsertedStages => /\ Covers(s, "cve")
                                   /\ added[s]["cve"] = fetched[s].rows["cve"]
    /\ pc[s] \in IssuedStages["ai"] => Covers(s, "ai")
    /\ pc[s] = "commit" => added[s]["ai"] = fetched[s].rows["ai"]

\* The inductive strengthening of OneFetch: at most one run is past its first
\* INSERT, and it has deleted everything that is committed.
ReplaceInv ==
    /\ OneFetch
    /\ \A s \in Syncs : ReplaceReady(s)
    /\ \A s, t \in Syncs : pc[s] \in InsertedStages /\ pc[t] \in InsertedStages => s = t

\* A step of s that neither inserts mappings nor commits keeps ReplaceReady(s)
\* and does not move s past its first INSERT.
LEMMA OwnStep ==
    ASSUME TypeOK, LockInv, NEW s \in Syncs, ReplaceReady(s), Begin(s) \/ Step(s),
           ~ InsertCve(s), ~ Commit(s)
    PROVE  /\ ReplaceReady(s)'
           /\ pc'[s] \in InsertedStages => pc[s] \in InsertedStages
<1> USE DEF InsertedStages, IssuedStages, ReplaceStages, ReplaceReady, Covers, Goto, Tables
<1>1. CASE Begin(s) \/ StartStep(s) \/ CompleteStep(s) \/ FailStep(s)
  <2>1. pc'[s] \notin ReplaceStages
    BY <1>1
       DEF Begin, StartStep, ReadStart, WriteStart, StartConflict, StartFails, SelectRecord,
           Return, CompleteStep, WriteArtifacts, ReadComplete, WriteComplete,
           CheckAfterSuccess, CompletionFails, EndAttempt, FailStep, ReadFailure,
           WriteFailure, CheckAfterFailure, FailureRecordingFails, TypeOK
  <2> QED
    BY <2>1
<1>2. CASE FetchStep(s)
  BY <1>2 DEF FetchStep, Fetch, FetchEmpty, FetchFails, EndAttempt, TypeOK
<1>3. Holds(s, "cve") /\ Holds(s, "ai")
  BY DEF LockInv
<1>4. CASE DeleteCve(s)
  BY <1>3, <1>4 DEF DeleteCve, Delete, Matched, Holds, TypeOK
<1>5. CASE LockCve(s)
  BY <1>5, LockOutcome DEF LockCve, Blocked
<1>6. CASE DeleteAi(s)
  BY <1>3, <1>6 DEF DeleteAi, Delete, Matched, Holds, TypeOK
<1>7. CASE LockAi(s)
  BY <1>7, LockOutcome DEF LockAi
<1>8. CASE InsertAi(s)
  <2>1. /\ UNCHANGED <<rows, fetched, doomed, deleted>>
        /\ pc[s] = "insertAi" /\ added'[s]["cve"] = added[s]["cve"]
    BY <1>8, InsertOutcome DEF InsertAi
  <2>2. \/ pc'[s] = pc[s]
        \/ /\ pc'[s] = "commit" /\ fetched[s].rows["ai"] \subseteq added[s]["ai"]
           /\ added'[s]["ai"] = added[s]["ai"]
    BY <1>8, InsertOutcome DEF InsertAi
  <2>3. added[s]["ai"] \subseteq fetched[s].rows["ai"]
    BY <1>3 DEF Holds
  <2> QED
    BY <2>1, <2>2, <2>3
<1>9. CASE ReplaceFails(s)
  BY <1>9 DEF ReplaceFails, EndAttempt, TypeOK
<1> QED
  BY <1>1, <1>2, <1>4, <1>5, <1>6, <1>7, <1>8, <1>9 DEF Step, ReplaceStep

\* Two usable fetches overlap, so the INSERT of a run waits or fails before its
\* end unless no other run has inserted and everything committed is deleted by
\* this one.
LEMMA InsertExcludes ==
    ASSUME Overlap, TypeOK, LockInv, ReplaceInv, NEW s \in Syncs,
           pc[s] = "insertCve", Pending(s, "cve") = {}
    PROVE  /\ Covers(s, "cve")
           /\ added[s]["cve"] = fetched[s].rows["cve"]
           /\ \A t \in Syncs \ {s} : pc[t] \notin InsertedStages
<1>1. /\ fetched[s] \in Catalogues /\ Usable(fetched[s])
      /\ Covers(s, "cve") \/ Blocked(s)
  BY DEF ReplaceInv, ReplaceReady, ReplaceStages
<1>2. added[s]["cve"] = fetched[s].rows["cve"]
  BY DEF Pending, LockInv, Holds, Tables
<1>3. ~ Blocked(s)
  BY <1>2 DEF Blocked
<1>4. ASSUME NEW t \in Syncs \ {s}, pc[t] \in InsertedStages
      PROVE  FALSE
  <2>1. /\ fetched[t] \in Catalogues /\ Usable(fetched[t])
        /\ added[t]["cve"] = fetched[t].rows["cve"]
    BY <1>4 DEF ReplaceInv, ReplaceReady, InsertedStages, ReplaceStages
  <2>2. added[s]["cve"] \intersect added[t]["cve"] = {}
    BY DEF LockInv, Apart, Tables
  <2> QED
    BY <1>1, <1>2, <2>1, <2>2 DEF Overlap
<1> QED
  BY <1>1, <1>2, <1>3, <1>4

\* A commit puts exactly the run's fetch into both tables.
LEMMA CommitPublishes ==
    ASSUME TypeOK, LockInv, ReplaceInv, NEW s \in Syncs, Commit(s)
    PROVE  /\ rows' = fetched[s].rows
           /\ rows' \in Results
           /\ \A tb \in Tables : deleted[s][tb] = rows[tb] /\ added[s][tb] = fetched[s].rows[tb]
<1>1. fetched[s] \in Catalogues /\ Usable(fetched[s])
  BY DEF Commit, ReplaceInv, ReplaceReady, ReplaceStages
<1>2. \A tb \in Tables : doomed[s][tb] = {}
  BY DEF Commit, LockInv, Holds, ClearedStages, InsertedStages, Tables
<1>3. \A tb \in Tables : deleted[s][tb] = rows[tb] /\ added[s][tb] = fetched[s].rows[tb]
  BY <1>2 DEF Commit, ReplaceInv, ReplaceReady, Covers, InsertedStages, IssuedStages, Tables
<1>4. rows' = [tb \in Tables |-> fetched[s].rows[tb]]
  BY <1>3 DEF Commit
<1>5. fetched[s].rows = [tb \in Tables |-> fetched[s].rows[tb]]
  BY <1>1, SyncEngineAssumption DEF CatalogueType
<1>6. rows' = fetched[s].rows
  BY <1>4, <1>5
<1>7. rows' \in Results
  BY <1>1, <1>6 DEF Results, Usable
<1> QED
  BY <1>3, <1>6, <1>7

LEMMA InsertStep ==
    ASSUME Overlap, TypeOK, LockInv, ReplaceInv, NEW s \in Syncs, InsertCve(s)
    PROVE  ReplaceInv'
<1>1. /\ pc[s] = "insertCve"
      /\ UNCHANGED <<rows, fetched, doomed, deleted>>
      /\ \A t \in Syncs \ {s} : pc'[t] = pc[t] /\ added'[t] = added[t]
  BY DEF InsertCve, Insert, InsertRow, Goto, TypeOK
<1>2. OneFetch'
  BY <1>1 DEF ReplaceInv, OneFetch
<1>3. \A t \in Syncs \ {s} : ReplaceReady(t)'
  BY <1>1 DEF ReplaceInv, ReplaceReady, Covers, Blocked
<1>4. CASE \E k \in Pending(s, "cve") : InsertRow(s, "cve", k) /\ UNCHANGED pc
  <2>1. PICK k \in Pending(s, "cve") : InsertRow(s, "cve", k) /\ UNCHANGED pc
    BY <1>4
  <2>2. Covers(s, "cve") \/ Blocked(s)
    BY <1>1 DEF ReplaceInv, ReplaceReady
  <2>3. added'[s]["cve"] = added[s]["cve"] \union {k} /\ k \notin rows["cve"] \ deleted[s]["cve"]
    BY <2>1 DEF InsertRow, TypeOK, Tables
  <2>4. (Covers(s, "cve") \/ Blocked(s))'
    BY <1>1, <2>2, <2>3 DEF Covers, Blocked
  <2>5. ReplaceReady(s)'
    BY <1>1, <2>1, <2>4 DEF ReplaceInv, ReplaceReady, ReplaceStages, InsertedStages,
                            IssuedStages, Tables
  <2> QED
    BY <1>2, <1>3, <2>1, <2>5 DEF ReplaceInv
<1>5. CASE Pending(s, "cve") = {} /\ Goto(s, "deleteAi") /\ UNCHANGED added
  <2>1. /\ Covers(s, "cve") /\ added[s]["cve"] = fetched[s].rows["cve"]
        /\ \A t \in Syncs \ {s} : pc[t] \notin InsertedStages
    BY <1>1, <1>5, InsertExcludes
  <2>2. pc'[s] = "deleteAi"
    BY <1>5 DEF Goto, TypeOK
  <2>3. ReplaceReady(s)'
    BY <1>1, <1>5, <2>1, <2>2
       DEF ReplaceInv, ReplaceReady, Covers, ReplaceStages, InsertedStages, IssuedStages, Tables
  <2> QED
    BY <1>1, <1>2, <1>3, <2>1, <2>3 DEF ReplaceInv
<1> QED
  BY <1>4, <1>5 DEF InsertCve, Insert

\* A commit leaves the DELETEs still under way with nothing to delete, and their
\* INSERTs with a mapping that is there already.
LEMMA CommitStep ==
    ASSUME Overlap, TypeOK, LockInv, ReplaceInv, NEW s \in Syncs, Commit(s)
    PROVE  ReplaceInv'
<1>1. pc[s] = "commit" /\ pc' = [pc EXCEPT ![s] = "artifacts"] /\ UNCHANGED fetched
  BY DEF Commit, Goto
<1>2. OneFetch'
  BY CommitPublishes DEF OneFetch
<1>3. \A t \in Syncs \ {s} : pc[t] \notin InsertedStages
  BY <1>1 DEF ReplaceInv, InsertedStages
<1>4. ReplaceReady(s)' /\ pc'[s] \notin InsertedStages
  BY <1>1 DEF ReplaceReady, InsertedStages, IssuedStages, ReplaceStages, TypeOK, Tables
<1>5. ASSUME NEW t \in Syncs \ {s}
      PROVE  ReplaceReady(t)' /\ pc'[t] \notin InsertedStages
  <2>1. pc'[t] = pc[t] /\ pc[t] \notin InsertedStages /\ ReplaceReady(t)
    BY <1>1, <1>3 DEF ReplaceInv, TypeOK
  <2>2. ASSUME pc[t] \in {"lockCve", "insertCve"}
        PROVE  Blocked(t)'
    <3>1. /\ fetched[t] \in Catalogues /\ Usable(fetched[t])
          /\ fetched[s] \in Catalogues /\ Usable(fetched[s])
      BY <1>1, <2>2 DEF ReplaceInv, ReplaceReady, ReplaceStages
    <3>2. PICK k \in fetched[t].rows["cve"] : k \in fetched[s].rows["cve"]
      BY <3>1 DEF Overlap
    <3>3. /\ rows' = fetched[s].rows
          /\ deleted[s]["cve"] = rows["cve"] /\ added[s]["cve"] = fetched[s].rows["cve"]
      BY CommitPublishes DEF Tables
    <3>4. doomed'[t]["cve"] = {}
      <4>1. doomed'[t]["cve"] = doomed[t]["cve"] \ deleted[s]["cve"]
        BY DEF Commit, Tables
      <4>2. doomed[t]["cve"] \subseteq rows["cve"]
        BY DEF LockInv, Holds, Tables
      <4> QED
        BY <3>3, <4>1, <4>2
    <3>5. deleted'[t]["cve"] = {}
      <4>1. deleted'[t]["cve"] = deleted[t]["cve"]
        BY DEF Commit, TypeOK
      <4>2. deleted[t]["cve"] \subseteq rows["cve"] /\ deleted[t]["cve"] \intersect deleted[s]["cve"] = {}
        BY DEF LockInv, Holds, Apart, Tables
      <4> QED
        BY <3>3, <4>1, <4>2
    <3>6. k \notin added'[t]["cve"]
      <4>1. added'[t]["cve"] = added[t]["cve"]
        BY DEF Commit, TypeOK
      <4>2. added[t]["cve"] \intersect added[s]["cve"] = {}
        BY DEF LockInv, Apart, Tables
      <4> QED
        BY <3>2, <3>3, <4>1, <4>2
    <3> QED
      BY <1>1, <3>2, <3>3, <3>4, <3>5, <3>6 DEF Blocked
  <2>3. ReplaceReady(t)'
    BY <1>1, <2>1, <2>2 DEF ReplaceReady, InsertedStages, IssuedStages, Tables
  <2> QED
    BY <2>1, <2>3
<1> QED
  BY <1>2, <1>4, <1>5 DEF ReplaceInv

LEMMA OtherStep ==
    ASSUME TypeOK, LockInv, ReplaceInv, NEW s \in Syncs, Begin(s) \/ Step(s),
           ~ InsertCve(s), ~ Commit(s)
    PROVE  ReplaceInv'
<1>1. UNCHANGED rows
  BY OnlyCommitWrites
<1>2. ReplaceReady(s)' /\ (pc'[s] \in InsertedStages => pc[s] \in InsertedStages)
  BY OwnStep DEF ReplaceInv
<1>3. ASSUME NEW t \in Syncs \ {s}
      PROVE  ReplaceReady(t)' /\ pc'[t] = pc[t]
  BY <1>1, <1>3, Locality DEF ReplaceInv, ReplaceReady, Covers, Blocked
<1>4. OneFetch'
  BY <1>1 DEF ReplaceInv, OneFetch
<1>5. QED
  BY <1>2, <1>3, <1>4 DEF ReplaceInv

\* ReplaceInv is inductive when fetches overlap, whatever fails and whenever
\* the process dies.
LEMMA ReplaceInvariant == ASSUME Overlap PROVE Spec => []ReplaceInv
<1> USE DEF IssuedStages, Tables
<1>1. Init => ReplaceInv
  BY DEF Init, ReplaceInv, ReplaceReady, OneFetch, ReplaceStages, InsertedStages
<1>2. TypeOK /\ LockInv /\ ReplaceInv /\ [Next]_vars => ReplaceInv'
  <2> SUFFICES ASSUME TypeOK, LockInv, ReplaceInv, [Next]_vars
               PROVE  ReplaceInv'
    OBVIOUS
  <2>1. ASSUME NEW s \in Syncs, Begin(s) \/ Step(s)
        PROVE  ReplaceInv'
    BY <2>1, InsertStep, CommitStep, OtherStep
  <2>2. CASE Crash
    BY <2>2 DEF Crash, ReplaceInv, ReplaceReady, OneFetch, ReplaceStages, InsertedStages
  <2>3. CASE UNCHANGED vars
    BY <2>3 DEF vars, ReplaceInv, ReplaceReady, OneFetch, Covers, Blocked
  <2>4. QED
    BY <2>1, <2>2, <2>3 DEF Next
<1>3. QED
  BY <1>1, <1>2, TypeCorrect, LockInvariant, PTL DEF Spec

\* However many syncs overlap, and through every failure and crash, the two
\* strike tables hold exactly one whole fetch (OneFetch), as long as any two
\* usable fetches share a CVE.
THEOREM OverlappingSyncsDoNotMix == ASSUME Overlap PROVE Spec => []OneFetch
BY ReplaceInvariant, PTL DEF ReplaceInv

-----------------------------------------------------------------------------
(* perform_sync implements its contract.                                   *)

\* Which phase each step leads from and to.
LEMMA PhaseSteps ==
    ASSUME "metadata" \notin Faults, TypeOK, NEW s \in Syncs, Begin(s) \/ Step(s)
    PROVE  \/ Phase(s) = "idle" /\ Phase(s)' = "running" /\ ~ Commit(s)
           \/ Phase(s) = "running" /\ Phase(s)' = "published" /\ Commit(s)
           \/ Phase(s) # "idle" /\ Phase(s)' = "idle" /\ ~ Commit(s)
           \/ Phase(s)' = Phase(s) /\ ~ Commit(s)
<1> USE DEF Phase, RecordStages, Goto, TypeOK
<1>1. CASE Begin(s) \/ StartStep(s)
  BY <1>1 DEF Begin, StartStep, ReadStart, WriteStart, StartConflict,
              StartFails, SelectRecord, Return, Commit
<1>2. CASE FetchStep(s)
  BY <1>2 DEF FetchStep, Fetch, FetchEmpty, FetchFails, EndAttempt, Commit
<1>3. CASE ReplaceStep(s)
  <2>1. CASE Commit(s)
    BY <2>1 DEF Commit
  <2>2. CASE ReplaceFails(s) /\ ~ Commit(s)
    BY <2>2 DEF ReplaceFails, EndAttempt, ReplaceStages
  <2>3. QED
    BY <1>3, <2>1, <2>2
       DEF ReplaceStep, DeleteCve, LockCve, InsertCve, DeleteAi, LockAi, InsertAi,
           Delete, LockRows, Insert
<1>4. CASE CompleteStep(s)
  BY <1>4
     DEF CompleteStep, WriteArtifacts, ReadComplete, WriteComplete, SelectRecord,
         CheckAfterSuccess, CompletionFails, Return, Commit
<1>5. CASE FailStep(s)
  BY <1>5
     DEF FailStep, ReadFailure, WriteFailure, CheckAfterFailure,
         FailureRecordingFails, SelectRecord, Return, Commit
<1>6. QED
  BY <1>1, <1>2, <1>3, <1>4, <1>5 DEF Step

\* A step of one run moves its own entry of the abstract phase only.
LEMMA PhaseUpdate ==
    ASSUME TypeOK, NEW s \in Syncs, Begin(s) \/ Step(s)
    PROVE  [t \in Syncs |-> Phase(t)]' = [[t \in Syncs |-> Phase(t)] EXCEPT ![s] = Phase(s)']
<1>1. \A t \in Syncs \ {s} : Phase(t)' = Phase(t)
  BY Locality DEF Phase
<1>2. QED
  BY <1>1

\* Each step is one of the contract, or changes nothing in it.
LEMMA ContractStep ==
    ASSUME Overlap, "metadata" \notin Faults, TypeOK, LockInv, ReplaceInv, [Next]_vars
    PROVE  [Contract!Next]_(Contract!vars)
<1>1. ASSUME NEW s \in Syncs, Begin(s) \/ Step(s)
      PROVE  [Contract!Next]_(Contract!vars)
  <2>1. CASE Commit(s)
    <3>1. rows' \in Results /\ Phase(s) = "running" /\ Phase(s)' = "published"
      BY <1>1, <2>1, CommitPublishes, PhaseSteps
    <3>2. Contract!Publish(s)
      BY <1>1, <3>1, PhaseUpdate DEF Contract!Publish
    <3>3. QED
      BY <3>2 DEF Contract!Next
  <2>2. CASE ~ Commit(s)
    <3>1. UNCHANGED rows
      BY <1>1, <2>2, OnlyCommitWrites
    <3>2. CASE Phase(s) = "idle" /\ Phase(s)' = "running"
      BY <1>1, <3>1, <3>2, PhaseUpdate DEF Contract!Start, Contract!Next
    <3>3. CASE Phase(s) # "idle" /\ Phase(s)' = "idle"
      BY <1>1, <3>1, <3>3, PhaseUpdate DEF Contract!Finish, Contract!Next
    <3>4. CASE Phase(s)' = Phase(s)
      BY <1>1, <3>1, <3>4, PhaseUpdate DEF Contract!vars
    <3>5. QED
      BY <1>1, <2>2, <3>2, <3>3, <3>4, PhaseSteps
  <2>3. QED
    BY <2>1, <2>2
<1>2. CASE Crash
  <2>1. \A s \in Syncs : pc'[s] = "idle"
    BY <1>2 DEF Crash
  <2>2. \A s \in Syncs : Phase(s)' = "idle"
    BY <2>1 DEF Phase, RecordStages
  <2>3. Contract!Restart
    BY <1>2, <2>2 DEF Crash, Contract!Restart
  <2>4. QED
    BY <2>3 DEF Contract!Next
<1>3. CASE UNCHANGED vars
  BY <1>3 DEF vars, Contract!vars, Phase
<1>4. QED
  BY <1>1, <1>2, <1>3 DEF Next

\* Each run of perform_sync publishes at most one whole, non-empty fetch and
\* otherwise leaves the tables alone (SyncContract), through every crash, as
\* long as fetches overlap and sync_metadata can be written.
THEOREM SyncImplementsContract ==
    ASSUME Overlap, "metadata" \notin Faults
    PROVE  Spec => ImplementsContract
<1>1. Init => Contract!Init
  <2>1. Init => \A s \in Syncs : Phase(s) = "idle"
    <3>1. Init => \A s \in Syncs : pc[s] = "idle"
      BY DEF Init
    <3>2. QED
      BY <3>1 DEF Phase, RecordStages
  <2>2. Init => rows = NoRows
    BY DEF Init
  <2>3. QED
    BY <2>1, <2>2 DEF Contract!Init
<1>2. TypeOK /\ LockInv /\ ReplaceInv /\ [Next]_vars => [Contract!Next]_(Contract!vars)
  BY ContractStep
<1>3. QED
  BY <1>1, <1>2, TypeCorrect, LockInvariant, ReplaceInvariant, PTL
     DEF Spec, ImplementsContract, Contract!Spec

-----------------------------------------------------------------------------
(* Runs wait for the rows of others, fail and retry; why each comes to an  *)
(* end.  That a run is scheduled, and that PostgreSQL parts transactions   *)
(* that wait for each other, is the fairness of EverySyncFinishes.         *)

\* A replace that has put its mappings in waits for nobody, however many others
\* overlap with it, so no deadlock ends it, and its second INSERT meets no row
\* of another (PastMappingsUnhindered): those that wait for it are served when
\* it has committed.  Before its first INSERT is through two runs may wait for
\* each other.  It needs fetches that overlap.
THEOREM PastMappingsAlwaysUnhindered ==
    ASSUME Overlap
    PROVE  Spec => []PastMappingsUnhindered
<1>1. TypeOK /\ LockInv /\ ReplaceInv => PastMappingsUnhindered
  <2> SUFFICES ASSUME TypeOK, LockInv, ReplaceInv, NEW s \in Syncs, pc[s] \in InsertedStages
               PROVE  /\ \A t \in Syncs : ~ WaitsFor(s, t)
                      /\ ~ Deadlocked(s)
                      /\ pc[s] = "insertAi" /\ Duplicates(s, "ai") => fetched[s].clash
    BY DEF PastMappingsUnhindered
  <2>1. ASSUME NEW t \in Syncs \ {s}
        PROVE  deleted[t]["ai"] = {} /\ added[t]["ai"] = {}
    <3>1. pc[t] \notin InsertedStages
      BY DEF ReplaceInv
    <3> QED
      BY <3>1 DEF LockInv, Holds, IssuedStages, ClearedStages, InsertedStages, Tables
  <2>2. ASSUME NEW t \in Syncs
        PROVE  ~ WaitsFor(s, t)
    BY <2>1 DEF WaitsFor, LockStage, InsertStage, InsertedStages, Tables
  <2>3. ~ Deadlocked(s)
    BY <2>2 DEF Deadlocked
  <2>4. ASSUME pc[s] = "insertAi", Duplicates(s, "ai")
        PROVE  fetched[s].clash
    <3>1. Covers(s, "ai") /\ doomed[s]["ai"] = {}
      BY <2>4 DEF ReplaceInv, ReplaceReady, LockInv, Holds, IssuedStages, ClearedStages, Tables
    <3>2. rows["ai"] \ UNION {deleted[t]["ai"] : t \in Syncs} = {}
      BY <3>1 DEF Covers
    <3> QED
      BY <2>4, <3>2 DEF Duplicates, Clashes
  <2> QED
    BY <2>2, <2>3, <2>4
<1> QED
  BY <1>1, TypeCorrect, LockInvariant, ReplaceInvariant, PTL

\* The steps a run may still take in its attempt from each stage on.
Place(stage) ==
    CASE stage = "fetch" -> 15
      [] stage = "deleteCve" -> 14
      [] stage = "lockCve" -> 13
      [] stage = "insertCve" -> 12
      [] stage = "deleteAi" -> 11
      [] stage = "lockAi" -> 10
      [] stage = "insertAi" -> 9
      [] stage = "commit" -> 8
      [] stage = "artifacts" -> 7
      [] stage = "completeRead" -> 6
      [] stage = "completeWrite" -> 5
      [] stage = "checkFailures" -> 4
      [] stage = "failRead" -> 3
      [] stage = "failWrite" -> 2
      [] stage = "failCheck" -> 1
      [] OTHER -> 0

\* The stages a run may still go through: those of its attempt, and sixteen for
\* each attempt after it.
StagesLeft(s) ==
    CASE pc[s] = "idle" -> 0
      [] pc[s] = "startRead" -> 16 * MaxAttempts + 2
      [] pc[s] = "startWrite" -> 16 * MaxAttempts + 1
      [] OTHER -> 16 * (MaxAttempts - attempt[s]) + Place(pc[s])

\* The rows the statement a run is at has still to delete or to insert.
RowsLeft(s) ==
    UNION {CASE pc[s] = LockStage[tb] -> doomed[s][tb]
             [] pc[s] = InsertStage[tb] -> Pending(s, tb)
             [] OTHER -> {} : tb \in Tables}

\* No action takes a run further from its end, and each of its own takes it
\* nearer: to a later stage, or over a row of the statement it is at.
GetsOn(s) ==
    /\ Begin(s) => StagesLeft(s)' = 16 * MaxAttempts + 2
    /\ Step(s) => \/ StagesLeft(s)' < StagesLeft(s)
                  \/ /\ StagesLeft(s)' = StagesLeft(s)
                     /\ RowsLeft(s)' \subseteq RowsLeft(s) /\ RowsLeft(s)' # RowsLeft(s)
    /\ ~ Begin(s) => \/ StagesLeft(s)' < StagesLeft(s)
                     \/ /\ StagesLeft(s)' = StagesLeft(s)
                        /\ RowsLeft(s)' \subseteq RowsLeft(s)

EveryoneGetsOn == \A s \in Syncs : GetsOn(s)

StepsCounted == \A s \in Syncs : StagesLeft(s) \in Nat /\ RowsLeft(s) \subseteq Keys

LEMMA PlaceBound == \A stage : Place(stage) \in 0 .. 15
BY DEF Place

LEMMA CountBound == ASSUME TypeOK PROVE StepsCounted
<1> SUFFICES ASSUME NEW s \in Syncs PROVE StagesLeft(s) \in Nat /\ RowsLeft(s) \subseteq Keys
  BY DEF StepsCounted
<1>1. attempt[s] \in 0 .. MaxAttempts /\ MaxAttempts \in Nat
  BY SyncEngineAssumption DEF TypeOK
<1>2. Place(pc[s]) \in 0 .. 15
  BY PlaceBound
<1>3. StagesLeft(s) \in Nat
  BY <1>1, <1>2 DEF StagesLeft
<1>4. RowsLeft(s) \subseteq Keys
  BY FetchedKeys DEF RowsLeft
<1> QED
  BY <1>3, <1>4

\* A run counts its own attempts.
LEMMA OthersAttempts ==
    ASSUME TypeOK, NEW s \in Syncs, NEW t \in Syncs \ {s}, Begin(s) \/ Step(s)
    PROVE  attempt'[t] = attempt[t]
<1> USE DEF TypeOK
<1>1. CASE Begin(s) \/ StartStep(s)
  BY <1>1 DEF Begin, StartStep, ReadStart, WriteStart, StartConflict, StartFails,
              SelectRecord, Return
<1>2. CASE FetchStep(s)
  BY <1>2 DEF FetchStep, Fetch, FetchEmpty, FetchFails, EndAttempt
<1>3. CASE ReplaceStep(s)
  BY <1>3
     DEF ReplaceStep, DeleteCve, LockCve, InsertCve, DeleteAi, LockAi, InsertAi,
         Delete, LockRows, Insert, Commit, ReplaceFails, EndAttempt
<1>4. CASE CompleteStep(s) \/ FailStep(s)
  BY <1>4
     DEF CompleteStep, WriteArtifacts, ReadComplete, WriteComplete, SelectRecord,
         CheckAfterSuccess, CompletionFails, Return, EndAttempt, FailStep,
         ReadFailure, WriteFailure, CheckAfterFailure, FailureRecordingFails
<1> QED
  BY <1>1, <1>2, <1>3, <1>4 DEF Step

\* Stages in which an attempt is under way.
AttemptStages == {"fetch"} \union ReplaceStages \union RecordStages

\* The end of an attempt leads to the next or, after the last, past all others.
LEMMA AttemptEnds ==
    ASSUME TypeOK, NEW s \in Syncs, pc[s] \in AttemptStages,
           NEW err, EndAttempt(s, err)
    PROVE  StagesLeft(s)' < StagesLeft(s)
<1>1. attempt[s] \in 0 .. MaxAttempts /\ MaxAttempts \in Nat
  BY SyncEngineAssumption DEF TypeOK
<1>2. Place(pc[s]) \in 4 .. 15
  BY DEF Place, AttemptStages, ReplaceStages, RecordStages
<1>3. StagesLeft(s) = 16 * (MaxAttempts - attempt[s]) + Place(pc[s])
  BY DEF StagesLeft, AttemptStages, ReplaceStages, RecordStages
<1>4. CASE ~ LastAttempt(s)
  <2>1. attempt'[s] = attempt[s] + 1 /\ pc'[s] = "fetch"
    BY <1>4 DEF EndAttempt, NextAttempt, Goto, TypeOK
  <2>2. StagesLeft(s)' = 16 * (MaxAttempts - attempt'[s]) + 15
    BY <2>1 DEF StagesLeft, Place
  <2> QED
    BY <1>1, <1>2, <1>3, <2>1, <2>2
<1>5. CASE LastAttempt(s)
  <2>1. attempt'[s] = attempt[s] /\ pc'[s] = "failRead"
    BY <1>5 DEF EndAttempt, Goto, TypeOK
  <2>2. StagesLeft(s)' = 16 * (MaxAttempts - attempt'[s]) + 3
    BY <2>1 DEF StagesLeft, Place
  <2> QED
    BY <1>1, <1>2, <1>3, <2>1, <2>2
<1> QED
  BY <1>4, <1>5

\* The end of a run is the end.
LEMMA RunEnds ==
    ASSUME TypeOK, NEW s \in Syncs, Return(s),
           pc[s] \in {"startRead", "startWrite", "checkFailures",
                      "failRead", "failWrite", "failCheck"}
    PROVE  StagesLeft(s)' < StagesLeft(s)
<1>1. attempt[s] \in 0 .. MaxAttempts /\ MaxAttempts \in Nat
  BY SyncEngineAssumption DEF TypeOK
<1>2. StagesLeft(s)' = 0
  BY DEF Return, Goto, StagesLeft, TypeOK
<1>3. StagesLeft(s) > 0
  BY <1>1 DEF StagesLeft, Place
<1> QED
  BY <1>2, <1>3

\* Every other step goes to the next stage of the same attempt.
LEMMA StageEnds ==
    ASSUME TypeOK, NEW s \in Syncs, NEW stage, Goto(s, stage),
           attempt' = attempt, pc[s] \in AttemptStages \union {"failRead", "failWrite"},
           stage \in AttemptStages \union {"failWrite", "failCheck"},
           Place(stage) < Place(pc[s])
    PROVE  StagesLeft(s)' < StagesLeft(s)
<1>1. attempt[s] \in 0 .. MaxAttempts /\ MaxAttempts \in Nat
  BY SyncEngineAssumption DEF TypeOK
<1>2. pc'[s] = stage
  BY DEF Goto, TypeOK
<1>3. /\ StagesLeft(s) = 16 * (MaxAttempts - attempt[s]) + Place(pc[s])
      /\ StagesLeft(s)' = 16 * (MaxAttempts - attempt[s]) + Place(stage)
  BY <1>2 DEF StagesLeft, AttemptStages, ReplaceStages, RecordStages
<1>4. Place(stage) \in 0 .. 15 /\ Place(pc[s]) \in 0 .. 15
  BY PlaceBound
<1> QED
  BY <1>1, <1>3, <1>4

\* A row more is a row less to do.
LEMMA RowGetsOn ==
    ASSUME TypeOK, NEW s \in Syncs, NEW tb \in Tables, NEW k, UNCHANGED <<pc, attempt, fetched>>,
           \/ pc[s] = LockStage[tb] /\ k \in doomed[s][tb] /\ LockRow(s, tb, k)
           \/ pc[s] = InsertStage[tb] /\ k \in Pending(s, tb) /\ InsertRow(s, tb, k)
    PROVE  /\ StagesLeft(s)' = StagesLeft(s)
           /\ RowsLeft(s)' \subseteq RowsLeft(s) /\ RowsLeft(s)' # RowsLeft(s)
<1>1. StagesLeft(s)' = StagesLeft(s)
  BY DEF StagesLeft
<1>2. CASE pc[s] = LockStage[tb] /\ k \in doomed[s][tb] /\ LockRow(s, tb, k)
  <2>1. RowsLeft(s) = doomed[s][tb] /\ RowsLeft(s)' = doomed'[s][tb]
    BY <1>2 DEF RowsLeft, LockStage, InsertStage, Tables
  <2>2. doomed'[s][tb] = doomed[s][tb] \ {k}
    BY <1>2 DEF LockRow, TypeOK
  <2> QED
    BY <1>1, <1>2, <2>1, <2>2
<1>3. CASE pc[s] = InsertStage[tb] /\ k \in Pending(s, tb) /\ InsertRow(s, tb, k)
  <2>1. RowsLeft(s) = Pending(s, tb) /\ RowsLeft(s)' = Pending(s, tb)'
    BY <1>3 DEF RowsLeft, LockStage, InsertStage, Tables
  <2>2. Pending(s, tb)' = Pending(s, tb) \ {k}
    BY <1>3 DEF InsertRow, Pending, TypeOK
  <2> QED
    BY <1>1, <1>3, <2>1, <2>2
<1> QED
  BY <1>2, <1>3

\* The statements of a replace: a row, or the next statement.
LEMMA StatementGetsOn ==
    ASSUME TypeOK, NEW s \in Syncs, NEW tb \in Tables, NEW stage,
           \/ pc[s] = LockStage[tb] /\ LockRows(s, tb, stage)
           \/ pc[s] = InsertStage[tb] /\ Insert(s, tb, stage),
           stage \in AttemptStages, Place(stage) < Place(pc[s])
    PROVE  \/ StagesLeft(s)' < StagesLeft(s)
           \/ /\ StagesLeft(s)' = StagesLeft(s)
              /\ RowsLeft(s)' \subseteq RowsLeft(s) /\ RowsLeft(s)' # RowsLeft(s)
<1>1. UNCHANGED <<attempt, fetched>>
  BY DEF LockRows, Insert
<1>2. pc[s] \in AttemptStages
  BY DEF LockStage, InsertStage, AttemptStages, ReplaceStages, Tables
<1>3. \/ Goto(s, stage)
      \/ /\ UNCHANGED pc
         /\ \E k : \/ pc[s] = LockStage[tb] /\ k \in doomed[s][tb] /\ LockRow(s, tb, k)
                   \/ pc[s] = InsertStage[tb] /\ k \in Pending(s, tb) /\ InsertRow(s, tb, k)
  BY DEF LockRows, Insert
<1>4. CASE Goto(s, stage)
  BY <1>1, <1>2, <1>4, StageEnds
<1>5. CASE UNCHANGED pc /\ ~ Goto(s, stage)
  BY <1>1, <1>3, <1>5, RowGetsOn
<1> QED
  BY <1>3, <1>4, <1>5

\* Each step of a run takes it nearer to its end.
LEMMA StepGetsOn ==
    ASSUME TypeOK, NEW s \in Syncs, Step(s)
    PROVE  \/ StagesLeft(s)' < StagesLeft(s)
           \/ /\ StagesLeft(s)' = StagesLeft(s)
              /\ RowsLeft(s)' \subseteq RowsLeft(s) /\ RowsLeft(s)' # RowsLeft(s)
<1> USE DEF AttemptStages, ReplaceStages, RecordStages
<1>1. CASE ReadStart(s)
  <2>1. pc[s] = "startRead" /\ pc'[s] = "startWrite" /\ MaxAttempts \in Nat
    BY <1>1, SyncEngineAssumption DEF ReadStart, SelectRecord, Goto, TypeOK
  <2> QED
    BY <2>1 DEF StagesLeft
<1>2. CASE WriteStart(s)
  <2>1. /\ pc[s] = "startWrite" /\ pc'[s] = "fetch" /\ attempt'[s] = 1
        /\ MaxAttempts \in Nat
    BY <1>2, SyncEngineAssumption DEF WriteStart, Goto, TypeOK
  <2> QED
    BY <2>1 DEF StagesLeft, Place
<1>3. CASE StartConflict(s) \/ StartFails(s) \/ CheckAfterSuccess(s)
              \/ CheckAfterFailure(s) \/ FailureRecordingFails(s)
  BY <1>3, RunEnds DEF StartConflict, StartFails, CheckAfterSuccess,
                       CheckAfterFailure, FailureRecordingFails
<1>4. CASE FetchEmpty(s) \/ FetchFails(s) \/ ReplaceFails(s) \/ CompletionFails(s)
  BY <1>4, AttemptEnds DEF FetchEmpty, FetchFails, ReplaceFails, CompletionFails
<1>5. CASE Fetch(s) \/ WriteArtifacts(s) \/ ReadComplete(s) \/ WriteComplete(s)
              \/ ReadFailure(s) \/ WriteFailure(s)
  <2>1. PICK stage \in {"deleteCve", "completeRead", "completeWrite", "checkFailures",
                        "failWrite", "failCheck"} :
           /\ Goto(s, stage) /\ attempt' = attempt
           /\ pc[s] \in AttemptStages \union {"failRead", "failWrite"}
           /\ Place(stage) < Place(pc[s])
    BY <1>5 DEF Fetch, WriteArtifacts, ReadComplete, WriteComplete, ReadFailure,
                WriteFailure, SelectRecord, Place
  <2> QED
    BY <2>1, StageEnds
<1>6. CASE DeleteCve(s) \/ DeleteAi(s) \/ Commit(s)
  <2>1. PICK stage \in {"lockCve", "lockAi", "artifacts"} :
           /\ Goto(s, stage) /\ attempt' = attempt
           /\ pc[s] \in AttemptStages
           /\ Place(stage) < Place(pc[s])
    BY <1>6 DEF DeleteCve, DeleteAi, Commit, Delete, Place
  <2> QED
    BY <2>1, StageEnds
<1>7. CASE LockCve(s) \/ InsertCve(s) \/ LockAi(s) \/ InsertAi(s)
  <2>1. PICK tb \in Tables, stage \in {"insertCve", "deleteAi", "insertAi", "commit"} :
           /\ \/ pc[s] = LockStage[tb] /\ LockRows(s, tb, stage)
              \/ pc[s] = InsertStage[tb] /\ Insert(s, tb, stage)
           /\ Place(stage) < Place(pc[s])
    BY <1>7 DEF LockCve, InsertCve, LockAi, InsertAi, LockStage, InsertStage, Tables, Place
  <2> QED
    BY <2>1, StatementGetsOn
<1> QED
  BY <1>1, <1>2, <1>3, <1>4, <1>5, <1>6, <1>7
     DEF Step, StartStep, FetchStep, ReplaceStep, CompleteStep, FailStep

\* Retries are bounded: a run goes through at most sixteen stages for each of
\* its attempts and two more, fifty with the three attempts of the code
\* (sync_service.py:84-280), with a step for each row of a statement, and nothing
\* that fails, dies or is done by another run ever takes it back.  With a finite
\* library this is what makes every run end that the event loop and the database
\* go on serving (EverySyncFinishes).
THEOREM RunsAreBounded ==
    Spec => []StepsCounted /\ [][EveryoneGetsOn]_vars
<1>1. TypeOK => StepsCounted
  BY CountBound
<1>2. TypeOK /\ LockInv /\ StepsCounted /\ StepsCounted' /\ [Next]_vars => [EveryoneGetsOn]_vars
  <2> SUFFICES ASSUME TypeOK, LockInv, StepsCounted, StepsCounted', Next, NEW s \in Syncs
               PROVE  GetsOn(s)
    BY DEF EveryoneGetsOn
  <2>1. Begin(s) => StagesLeft(s)' = 16 * MaxAttempts + 2
    BY DEF Begin, Goto, StagesLeft, TypeOK
  <2>2. Step(s) => \/ StagesLeft(s)' < StagesLeft(s)
                   \/ /\ StagesLeft(s)' = StagesLeft(s)
                      /\ RowsLeft(s)' \subseteq RowsLeft(s) /\ RowsLeft(s)' # RowsLeft(s)
    BY StepGetsOn
  <2>3. StagesLeft(s) \in Nat /\ StagesLeft(s)' \in Nat
    BY DEF StepsCounted
  <2>4. ~ Begin(s) => \/ StagesLeft(s)' < StagesLeft(s)
                      \/ StagesLeft(s)' = StagesLeft(s) /\ RowsLeft(s)' \subseteq RowsLeft(s)
    <3>1. CASE Crash
      <4>1. StagesLeft(s)' = 0
        BY <3>1 DEF Crash, StagesLeft
      <4>2. RowsLeft(s)' = {}
        BY <3>1 DEF Crash, RowsLeft, LockStage, InsertStage
      <4> QED
        BY <4>1, <4>2, <2>3
    <3>2. ASSUME NEW t \in Syncs \ {s}, Begin(t) \/ Step(t)
          PROVE  StagesLeft(s)' = StagesLeft(s) /\ RowsLeft(s)' \subseteq RowsLeft(s)
      <4>1. /\ pc'[s] = pc[s] /\ attempt'[s] = attempt[s]
            /\ fetched'[s] = fetched[s] /\ added'[s] = added[s]
        BY <3>2, Locality, OthersAttempts
      <4>2. StagesLeft(s)' = StagesLeft(s)
        BY <4>1 DEF StagesLeft
      <4>3. \A tb \in Tables : Pending(s, tb)' = Pending(s, tb) /\ doomed'[s][tb] \subseteq doomed[s][tb]
        BY <3>2, <4>1, OthersHold DEF Pending
      <4>4. RowsLeft(s)' \subseteq RowsLeft(s)
        BY <4>1, <4>3 DEF RowsLeft
      <4> QED
        BY <4>2, <4>4
    <3> QED
      BY <2>2, <3>1, <3>2 DEF Next
  <2> QED
    BY <2>1, <2>2, <2>4 DEF GetsOn
<1> QED
  BY <1>1, <1>2, TypeCorrect, LockInvariant, PTL DEF Spec

-----------------------------------------------------------------------------
(* A lone job: status row, tables and files describe each other.           *)

LoneJob == \A s, t \in Syncs : s = t

PublishedStages == {"artifacts", "completeRead", "completeWrite"}

\* Before a run records its start and after it has recorded its end.
SettledStages == {"idle", "startRead", "startWrite", "checkFailures", "failCheck"}

\* What a run relies on that nobody else's disturbs: its DELETEs match all that
\* is committed, it has put its fetch into the tables, the status row is still
\* as it has read it, and a failure has a message.
Unhindered(s) ==
    /\ pc[s] \in ReplaceStages => fetched[s] \in Catalogues
    /\ \A tb \in Tables : pc[s] \in IssuedStages[tb] => Covers(s, tb)
    /\ pc[s] \in InsertedStages => added[s]["cve"] = fetched[s].rows["cve"]
    /\ pc[s] = "commit" => added[s]["ai"] = fetched[s].rows["ai"]
    /\ pc[s] \in PublishedStages => rows = fetched[s].rows
    /\ pc[s] \in {"startWrite", "completeWrite", "failWrite"} => seen[s] = meta
    /\ pc[s] \in {"failRead", "failWrite", "failCheck"} => lastError[s] # "none"

LoneInv == \A s \in Syncs : Unhindered(s)

\* Between the commit and record_sync_complete the count is that of the tables
\* before; otherwise it is right.
CountInv ==
    (\A s \in Syncs : pc[s] \notin PublishedStages)
        => meta.profiles = Cardinality(rows["cve"])

\* From the start of a run to its end the status is "running", whatever error
\* the row still carries.
ErrorInv ==
    (\A s \in Syncs : pc[s] \in SettledStages)
        => (meta.error # "none" <=> meta.status = "failed")


\* A commit of such a run puts its fetch into both tables.
LEMMA UnhinderedCommit ==
    ASSUME TypeOK, LockInv, NEW s \in Syncs, Unhindered(s), Commit(s)
    PROVE  fetched[s] \in Catalogues /\ rows' = fetched[s].rows
<1>1. fetched[s] \in Catalogues
  BY DEF Commit, Unhindered, ReplaceStages
<1>2. ASSUME NEW tb \in Tables
      PROVE  deleted[s][tb] = rows[tb] /\ added[s][tb] = fetched[s].rows[tb]
  <2>1. doomed[s][tb] = {}
    BY DEF Commit, LockInv, Holds, ClearedStages, InsertedStages, Tables
  <2>2. Covers(s, tb) /\ added[s][tb] = fetched[s].rows[tb]
    BY DEF Commit, Unhindered, IssuedStages, InsertedStages, Tables
  <2> QED
    BY <2>1, <2>2 DEF Covers
<1>3. rows' = [tb \in Tables |-> fetched[s].rows[tb]]
  BY <1>2 DEF Commit
<1>4. fetched[s].rows = [tb \in Tables |-> fetched[s].rows[tb]]
  BY <1>1, SyncEngineAssumption DEF CatalogueType
<1> QED
  BY <1>1, <1>3, <1>4

\* The end of an attempt leaves a message.
LEMMA UnhinderedRetry ==
    ASSUME TypeOK, NEW s \in Syncs, NEW err \in {"empty", "cyperf", "db"}, EndAttempt(s, err)
    PROVE  Unhindered(s)'
BY DEF EndAttempt, Unhindered, Goto, ReplaceStages, InsertedStages, IssuedStages, PublishedStages,
       Tables, TypeOK

LEMMA UnhinderedReplace ==
    ASSUME TypeOK, LockInv, NEW s \in Syncs, Unhindered(s), ReplaceStep(s)
    PROVE  Unhindered(s)'
<1> USE DEF Unhindered, Covers, ReplaceStages, InsertedStages, IssuedStages, PublishedStages,
            Goto, Tables
<1>1. Holds(s, "cve") /\ Holds(s, "ai")
  BY DEF LockInv
<1>2. CASE DeleteCve(s)
  BY <1>1, <1>2 DEF DeleteCve, Delete, Matched, Holds, TypeOK
<1>3. CASE LockCve(s)
  BY <1>3, LockOutcome DEF LockCve
<1>4. CASE InsertCve(s)
  <2>1. /\ UNCHANGED <<rows, fetched, doomed, deleted>>
        /\ pc[s] = "insertCve" /\ added'[s]["ai"] = added[s]["ai"]
    BY <1>4, InsertOutcome DEF InsertCve
  <2>2. \/ pc'[s] = pc[s]
        \/ /\ pc'[s] = "deleteAi" /\ fetched[s].rows["cve"] \subseteq added[s]["cve"]
           /\ added'[s]["cve"] = added[s]["cve"]
    BY <1>4, InsertOutcome DEF InsertCve
  <2>3. added[s]["cve"] \subseteq fetched[s].rows["cve"]
    BY <1>1 DEF Holds
  <2> QED
    BY <2>1, <2>2, <2>3
<1>5. CASE DeleteAi(s)
  BY <1>1, <1>5 DEF DeleteAi, Delete, Matched, Holds, TypeOK
<1>6. CASE LockAi(s)
  BY <1>6, LockOutcome DEF LockAi
<1>7. CASE InsertAi(s)
  <2>1. /\ UNCHANGED <<rows, fetched, doomed, deleted>>
        /\ pc[s] = "insertAi" /\ added'[s]["cve"] = added[s]["cve"]
    BY <1>7, InsertOutcome DEF InsertAi
  <2>2. \/ pc'[s] = pc[s]
        \/ /\ pc'[s] = "commit" /\ fetched[s].rows["ai"] \subseteq added[s]["ai"]
           /\ added'[s]["ai"] = added[s]["ai"]
    BY <1>7, InsertOutcome DEF InsertAi
  <2>3. added[s]["ai"] \subseteq fetched[s].rows["ai"]
    BY <1>1 DEF Holds
  <2> QED
    BY <2>1, <2>2, <2>3
<1>8. CASE Commit(s)
  <2>1. rows' = fetched[s].rows /\ fetched' = fetched /\ pc'[s] = "artifacts"
    BY <1>8, UnhinderedCommit DEF Commit, TypeOK
  <2> QED
    BY <2>1
<1>9. CASE ReplaceFails(s)
  BY <1>9, UnhinderedRetry DEF ReplaceFails
<1> QED
  BY <1>2, <1>3, <1>4, <1>5, <1>6, <1>7, <1>8, <1>9 DEF ReplaceStep

LEMMA UnhinderedStep ==
    ASSUME TypeOK, LockInv, NEW s \in Syncs, Unhindered(s), Begin(s) \/ Step(s)
    PROVE  Unhindered(s)'
<1> USE DEF Unhindered, ReplaceStages, InsertedStages, IssuedStages, PublishedStages, Goto, Tables
<1>1. CASE Begin(s) \/ StartStep(s)
  BY <1>1 DEF Begin, StartStep, ReadStart, WriteStart, StartConflict,
              StartFails, SelectRecord, Return, TypeOK
<1>2. CASE Fetch(s)
  BY <1>2 DEF Fetch, TypeOK
<1>3. CASE FetchEmpty(s) \/ FetchFails(s)
  BY <1>3, UnhinderedRetry DEF FetchEmpty, FetchFails
<1>4. CASE ReplaceStep(s)
  BY <1>4, UnhinderedReplace
<1>5. CASE CompletionFails(s)
  BY <1>5, UnhinderedRetry DEF CompletionFails
<1>6. CASE WriteArtifacts(s) \/ ReadComplete(s) \/ WriteComplete(s) \/ CheckAfterSuccess(s)
  BY <1>6 DEF WriteArtifacts, ReadComplete, WriteComplete, SelectRecord, CheckAfterSuccess,
              Return, TypeOK
<1>7. CASE FailStep(s)
  BY <1>7 DEF FailStep, ReadFailure, WriteFailure, CheckAfterFailure,
              FailureRecordingFails, SelectRecord, Return, TypeOK
<1> QED
  BY <1>1, <1>2, <1>3, <1>4, <1>5, <1>6, <1>7 DEF Step, FetchStep, CompleteStep

\* Nobody hinders a lone job, whatever fails and whenever the process dies.
LEMMA LoneInvariant == ASSUME LoneJob PROVE Spec => []LoneInv
<1> USE DEF LoneInv, IssuedStages, Tables
<1>1. Init => LoneInv
  BY DEF Init, Unhindered, ReplaceStages, InsertedStages, PublishedStages
<1>2. TypeOK /\ LockInv /\ LoneInv /\ [Next]_vars => LoneInv'
  <2> SUFFICES ASSUME TypeOK, LockInv, LoneInv, [Next]_vars PROVE LoneInv'
    OBVIOUS
  <2>1. ASSUME NEW s \in Syncs, Begin(s) \/ Step(s)
        PROVE  LoneInv'
    BY <2>1, UnhinderedStep DEF LoneJob
  <2>2. CASE Crash
    BY <2>2 DEF Crash, Unhindered, ReplaceStages, InsertedStages, PublishedStages
  <2>3. CASE UNCHANGED vars
    BY <2>3 DEF vars, Unhindered, Covers
  <2> QED
    BY <2>1, <2>2, <2>3 DEF Next
<1> QED
  BY <1>1, <1>2, TypeCorrect, LockInvariant, PTL DEF Spec

\* Writing a record over the row it was made from leaves that record.
LEMMA FlushUndisturbed ==
    ASSUME TypeOK, NEW new \in Records
    PROVE  Flush(meta, new) = new
BY DEF Flush, Written, Records, TypeOK


\* While the bookkeeping works, a run moves between these groups of stages only
\* with its commit and the writes of the status row.
LEMMA StageSteps ==
    ASSUME "metadata" \notin Faults, TypeOK, NEW s \in Syncs, Begin(s) \/ Step(s),
           ~ WriteStart(s), ~ WriteComplete(s), ~ WriteFailure(s)
    PROVE  /\ pc[s] \in PublishedStages => pc'[s] \in PublishedStages
           /\ pc'[s] \in SettledStages => pc[s] \in SettledStages
<1> USE DEF PublishedStages, SettledStages, Goto, TypeOK
<1>1. CASE Begin(s) \/ StartStep(s)
  BY <1>1 DEF Begin, StartStep, ReadStart, StartConflict, StartFails, SelectRecord, Return
<1>2. CASE FetchStep(s)
  BY <1>2 DEF FetchStep, Fetch, FetchEmpty, FetchFails, EndAttempt
<1>3. CASE ReplaceStep(s)
  BY <1>3
     DEF ReplaceStep, DeleteCve, LockCve, InsertCve, DeleteAi, LockAi, InsertAi,
         Delete, LockRows, Insert, Commit, ReplaceFails, EndAttempt, ReplaceStages
<1>4. CASE CompleteStep(s) \/ FailStep(s)
  BY <1>4
     DEF CompleteStep, WriteArtifacts, ReadComplete, SelectRecord, CheckAfterSuccess,
         CompletionFails, Return, FailStep, ReadFailure, CheckAfterFailure,
         FailureRecordingFails
<1> QED
  BY <1>1, <1>2, <1>3, <1>4 DEF Step

\* What the three writes leave in the row of a lone job.
LEMMA WrittenRecords ==
    ASSUME TypeOK, NEW s \in Syncs, Unhindered(s)
    PROVE  /\ WriteStart(s) => meta' = Started(meta)
           /\ WriteComplete(s) =>
                 /\ meta'.status = "success" /\ meta'.error = "none"
                 /\ meta'.profiles = Cardinality(rows["cve"])
           /\ WriteFailure(s) =>
                 /\ meta'.status = "failed" /\ meta'.error # "none"
                 /\ meta'.profiles = meta.profiles
<1>1. meta \in Records
  BY DEF TypeOK
<1>2. ASSUME WriteStart(s)
      PROVE  meta' = Started(meta)
  BY <1>1, <1>2, FlushUndisturbed, RecordTypes DEF WriteStart, Unhindered
<1>3. ASSUME WriteComplete(s)
      PROVE  /\ meta'.status = "success" /\ meta'.error = "none"
             /\ meta'.profiles = Cardinality(rows["cve"])
  <2>1. seen[s] = meta /\ rows = fetched[s].rows
    BY <1>3 DEF WriteComplete, Unhindered, PublishedStages
  <2>2. meta' = Flush(meta, Succeeded(meta, fetched[s]))
    BY <1>3, <2>1 DEF WriteComplete
  <2> QED
    BY <2>1, <2>2 DEF Flush, Written, Succeeded
<1>4. ASSUME WriteFailure(s)
      PROVE  /\ meta'.status = "failed" /\ meta'.error # "none"
             /\ meta'.profiles = meta.profiles
  <2>1. seen[s] = meta /\ lastError[s] # "none" /\ lastError[s] \in Errors
    BY <1>4 DEF WriteFailure, Unhindered, TypeOK
  <2>2. meta' = Failed(meta, lastError[s])
    BY <1>1, <1>4, <2>1, FlushUndisturbed, RecordTypes DEF WriteFailure
  <2> QED
    BY <1>1, <2>1, <2>2 DEF Failed, Records
<1> QED
  BY <1>2, <1>3, <1>4

\* After every run of a lone job profiles_synced is the number of rows of the
\* mapping table (CountsDescribeRows), whatever fetches, statements and file
\* writes fail: as long as the row can be written and the process stays up.
THEOREM CountsAlwaysDescribeRows ==
    ASSUME LoneJob, "metadata" \notin Faults, "crash" \notin Faults
    PROVE  Spec => []CountsDescribeRows
<1>1. Init => CountInv
  BY FS_EmptySet DEF Init, CountInv, NoRecord, NoRows, Tables
<1>2. TypeOK /\ LoneInv /\ CountInv /\ [Next]_vars => CountInv'
  <2> SUFFICES ASSUME TypeOK, LoneInv, CountInv, [Next]_vars PROVE CountInv'
    OBVIOUS
  <2>1. ASSUME NEW s \in Syncs, Begin(s) \/ Step(s)
        PROVE  CountInv'
    <3>1. Unhindered(s) /\ \A t \in Syncs : t = s
      BY DEF LoneInv, LoneJob
    <3>2. CASE Commit(s)
      BY <3>2 DEF Commit, Goto, CountInv, PublishedStages, TypeOK
    <3>3. CASE WriteComplete(s)
      BY <3>1, <3>3, WrittenRecords DEF WriteComplete, CountInv
    <3>4. CASE WriteStart(s) \/ WriteFailure(s)
      <4>1. pc[s] \notin PublishedStages /\ UNCHANGED rows
        BY <3>4 DEF WriteStart, WriteFailure, PublishedStages
      <4>2. meta'.profiles = meta.profiles
        BY <3>1, <3>4, WrittenRecords DEF Started, Records, TypeOK
      <4> QED
        BY <3>1, <4>1, <4>2 DEF CountInv
    <3>5. CASE ~ Commit(s) /\ ~ WriteStart(s) /\ ~ WriteComplete(s) /\ ~ WriteFailure(s)
      <4>1. UNCHANGED <<rows, meta>>
        BY <2>1, <3>5, OnlyCommitWrites, StatusWriters
      <4>2. pc[s] \in PublishedStages => pc'[s] \in PublishedStages
        BY <2>1, <3>5, StageSteps
      <4> QED
        BY <3>1, <4>1, <4>2 DEF CountInv
    <3> QED
      BY <3>2, <3>3, <3>4, <3>5
  <2>2. CASE UNCHANGED vars
    BY <2>2 DEF vars, CountInv
  <2> QED
    BY <2>1, <2>2 DEF Next, Crash
<1>3. CountInv => CountsDescribeRows
  BY DEF CountInv, CountsDescribeRows, Settled, PublishedStages
<1> QED
  BY <1>1, <1>2, <1>3, TypeCorrect, LoneInvariant, PTL DEF Spec

\* Between runs of a lone job the row carries an error message exactly when the
\* last run failed (ErrorExplainsFailure), under the same conditions.
THEOREM ErrorAlwaysExplains ==
    ASSUME LoneJob, "metadata" \notin Faults, "crash" \notin Faults
    PROVE  Spec => []ErrorExplainsFailure
<1>1. Init => ErrorInv
  BY DEF Init, ErrorInv, NoRecord
<1>2. TypeOK /\ LoneInv /\ ErrorInv /\ [Next]_vars => ErrorInv'
  <2> SUFFICES ASSUME TypeOK, LoneInv, ErrorInv, [Next]_vars PROVE ErrorInv'
    OBVIOUS
  <2>1. ASSUME NEW s \in Syncs, Begin(s) \/ Step(s)
        PROVE  ErrorInv'
    <3>1. Unhindered(s) /\ \A t \in Syncs : t = s
      BY DEF LoneInv, LoneJob
    <3>2. CASE WriteStart(s)
      BY <3>2 DEF WriteStart, Goto, ErrorInv, SettledStages, TypeOK
    <3>3. CASE WriteComplete(s) \/ WriteFailure(s)
      BY <3>1, <3>3, WrittenRecords DEF ErrorInv
    <3>4. CASE ~ WriteStart(s) /\ ~ WriteComplete(s) /\ ~ WriteFailure(s)
      <4>1. UNCHANGED meta
        BY <2>1, <3>4, StatusWriters
      <4>2. pc'[s] \in SettledStages => pc[s] \in SettledStages
        BY <2>1, <3>4, StageSteps
      <4> QED
        BY <3>1, <4>1, <4>2 DEF ErrorInv
    <3> QED
      BY <3>2, <3>3, <3>4
  <2>2. CASE UNCHANGED vars
    BY <2>2 DEF vars, ErrorInv
  <2> QED
    BY <2>1, <2>2 DEF Next, Crash
<1>3. ErrorInv => ErrorExplainsFailure
  BY DEF ErrorInv, ErrorExplainsFailure, Settled, SettledStages
<1> QED
  BY <1>1, <1>2, <1>3, TypeCorrect, LoneInvariant, PTL DEF Spec


\* Only WriteArtifacts writes the files, and a run is between its commit and
\* that step only after the commit.
LEMMA ArtifactSteps ==
    ASSUME TypeOK, NEW s \in Syncs, Begin(s) \/ Step(s), ~ WriteArtifacts(s)
    PROVE  /\ UNCHANGED artifacts
           /\ pc[s] # "artifacts"
           /\ pc'[s] = "artifacts" <=> Commit(s)
<1> USE DEF Goto, TypeOK
<1>1. CASE Begin(s) \/ StartStep(s)
  BY <1>1 DEF Begin, StartStep, ReadStart, WriteStart, StartConflict, StartFails,
              SelectRecord, Return, Commit
<1>2. CASE FetchStep(s)
  BY <1>2 DEF FetchStep, Fetch, FetchEmpty, FetchFails, EndAttempt, Commit
<1>3. CASE ReplaceStep(s)
  <2>1. CASE Commit(s)
    BY <2>1 DEF Commit
  <2>2. CASE ReplaceFails(s) /\ ~ Commit(s)
    BY <2>2 DEF ReplaceFails, EndAttempt, ReplaceStages
  <2> QED
    BY <1>3, <2>1, <2>2
       DEF ReplaceStep, DeleteCve, LockCve, InsertCve, DeleteAi, LockAi, InsertAi,
           Delete, LockRows, Insert
<1>4. CASE CompleteStep(s)
  BY <1>4 DEF CompleteStep, ReadComplete, WriteComplete, SelectRecord, CheckAfterSuccess,
              CompletionFails, RecordStages, Return, EndAttempt, Commit
<1>5. CASE FailStep(s)
  BY <1>5 DEF FailStep, ReadFailure, WriteFailure, CheckAfterFailure,
              FailureRecordingFails, SelectRecord, Return, Commit
<1> QED
  BY <1>1, <1>2, <1>3, <1>4, <1>5 DEF Step

\* Outside the file writes the two JSON files of a lone job show the committed
\* tables (ArtifactsMirrorTables), whatever attempts have failed and even when
\* the bookkeeping fails: as long as the files can be written and the process
\* stays up.
THEOREM ArtifactsAlwaysMirror ==
    ASSUME LoneJob, "disk" \notin Faults, "crash" \notin Faults
    PROVE  Spec => []ArtifactsMirrorTables
<1>1. Init => ArtifactsMirrorTables
  BY DEF Init, ArtifactsMirrorTables
<1>2. TypeOK /\ LoneInv /\ ArtifactsMirrorTables /\ [Next]_vars => ArtifactsMirrorTables'
  <2> SUFFICES ASSUME TypeOK, LoneInv, ArtifactsMirrorTables, [Next]_vars
               PROVE  ArtifactsMirrorTables'
    OBVIOUS
  <2>1. ASSUME NEW s \in Syncs, Begin(s) \/ Step(s)
        PROVE  ArtifactsMirrorTables'
    <3>1. Unhindered(s) /\ \A t \in Syncs : t = s
      BY DEF LoneInv, LoneJob
    <3>2. CASE WriteArtifacts(s)
      <4>1. rows = fetched[s].rows /\ UNCHANGED rows
        BY <3>1, <3>2 DEF WriteArtifacts, Unhindered, PublishedStages
      <4>2. artifacts' = [tb \in Tables |-> rows[tb]]
        BY <3>2, <4>1 DEF WriteArtifacts, ArtifactOutcomes, Tables
      <4>3. artifacts' = rows
        BY <4>2 DEF TypeOK
      <4> QED
        BY <4>1, <4>3 DEF ArtifactsMirrorTables
    <3>3. CASE Commit(s)
      BY <3>3 DEF Commit, Goto, ArtifactsMirrorTables, TypeOK
    <3>4. CASE ~ WriteArtifacts(s) /\ ~ Commit(s)
      <4>1. UNCHANGED <<rows, artifacts>> /\ pc[s] # "artifacts"
        BY <2>1, <3>4, OnlyCommitWrites, ArtifactSteps
      <4> QED
        BY <3>1, <4>1 DEF ArtifactsMirrorTables
    <3> QED
      BY <3>2, <3>3, <3>4
  <2>2. CASE UNCHANGED vars
    BY <2>2 DEF vars, ArtifactsMirrorTables
  <2> QED
    BY <2>1, <2>2 DEF Next, Crash
<1> QED
  BY <1>1, <1>2, TypeCorrect, LoneInvariant, PTL DEF Spec

-----------------------------------------------------------------------------
(* The circuit breaker.                                                    *)

\* Each step of the engine with its breaker is one of the engine.
LEMMA BreakerStep == AlertNext => Next
<1> USE DEF Next, Step, StartStep, FetchStep, ReplaceStep, CompleteStep, FailStep
<1>1. ASSUME NEW s \in Syncs, FailedSync(s) \/ SuccessfulSync(s) \/ CheckBreaker(s)
      PROVE  Next
  BY <1>1 DEF FailedSync, SuccessfulSync, CheckBreaker
<1>2. Otherwise => Next
  BY DEF Otherwise
<1> QED
  BY <1>1, <1>2 DEF AlertNext

\* The breaker only watches: with it the engine does what it does without, so
\* all that is proved of perform_sync holds beside the breaker too.
THEOREM BreakerOnlyWatches == AlertSpec => Spec
<1>1. AlertInit => Init
  BY DEF AlertInit
<1>2. [AlertNext]_alertVars => [Next]_vars
  BY BreakerStep DEF alertVars
<1> QED
  BY <1>1, <1>2, PTL DEF AlertSpec, Spec

\* "alert on 3+ failures" (db/sync_metadata.py:23): get_consecutive_failures
\* sees one row and compares with three, so however many runs fail in a row, of
\* however many jobs, the alert of sync_service.py:301 is never raised.
THEOREM BreakerNeverAlerts == AlertSpec => []~alerted
<1>1. AlertInit => ~alerted
  BY DEF AlertInit
<1>2. ~alerted /\ [AlertNext]_alertVars => ~alerted'
  <2>1. ~ (ConsecutiveFailures >= Threshold)
    BY DEF ConsecutiveFailures, Threshold
  <2>2. ASSUME ~alerted, NEW s \in Syncs, CheckBreaker(s)
        PROVE  ~alerted'
    BY <2>1, <2>2 DEF CheckBreaker
  <2>3. ASSUME ~alerted, NEW s \in Syncs, FailedSync(s) \/ SuccessfulSync(s)
        PROVE  ~alerted'
    BY <2>3 DEF FailedSync, SuccessfulSync
  <2>4. ~alerted /\ Otherwise => ~alerted'
    BY DEF Otherwise
  <2> QED
    BY <2>2, <2>3, <2>4 DEF AlertNext, alertVars
<1> QED
  BY <1>1, <1>2, PTL DEF AlertSpec

-----------------------------------------------------------------------------
(* The readers beside perform_sync.  TableReaders takes a SyncContract for  *)
(* its environment; here perform_sync itself replaces the tables under the *)
(* routes that read them.                                                  *)

CONSTANTS Cves, Published, Severe, AiStrikes, Genuine, Typed, Limits, MaxPage, PrefixLimit

VARIABLES known, statement, query, found, todo, metadata, records, total,
          gathered, twice, kept, moved

readerVars == <<known, statement, query, found, todo, metadata, records, total,
                gathered, twice, kept, moved>>

Readers == INSTANCE TableReadersProofs
               WITH store <- rows, phase <- [s \in Syncs |-> Phase(s)], pc <- statement

\* A statement of a request or another lookup; the jobs do nothing.
ReaderStep ==
    /\ \/ Readers!FirstPage \/ Readers!NextPage
       \/ Readers!Count \/ Readers!Page \/ Readers!Recount
       \/ Readers!Ids \/ Readers!ReadMetadata \/ Readers!ReadStrikes
       \/ Readers!Rows \/ Readers!Batch
       \/ Readers!Learn
    /\ UNCHANGED vars

\* A step of a job; the requests do nothing, and the walk under way notes what
\* has become of the tables.
JobStep ==
    /\ Next
    /\ moved' = (moved \/ rows' # rows)
    /\ kept' = kept \intersect rows'["cve"]
    /\ UNCHANGED <<known, statement, query, found, todo, metadata, records, total,
                   gathered, twice>>

BesideInit == Init /\ Readers!Init

BesideSpec == BesideInit /\ [][ReaderStep \/ JobStep]_<<vars, readerVars>>

\* What has been mapped all the while is mapped now, and moved is a truth value.
KeptMapped == kept \subseteq rows["cve"] /\ moved \in BOOLEAN

\* The notes of the walk stay right.
LEMMA KeptStep == KeptMapped /\ [ReaderStep \/ JobStep]_<<vars, readerVars>> => KeptMapped'
<1> SUFFICES ASSUME KeptMapped, [ReaderStep \/ JobStep]_<<vars, readerVars>> PROVE KeptMapped'
  OBVIOUS
<1>1. CASE JobStep
  BY <1>1 DEF JobStep, KeptMapped
<1>2. CASE ReaderStep
  <2>1. UNCHANGED rows
    BY <1>2 DEF ReaderStep, vars
  <2>2. (kept' = kept \/ kept' = rows["cve"]) /\ moved' \in {moved, TRUE, FALSE}
    BY <1>2 DEF ReaderStep, Readers!FirstPage, Readers!NextPage, Readers!Count, Readers!Page,
                Readers!Recount, Readers!Ids, Readers!ReadMetadata, Readers!ReadStrikes,
                Readers!Rows, Readers!Batch, Readers!Learn, Readers!Answer, Readers!walk
  <2> QED
    BY <2>1, <2>2 DEF KeptMapped
<1>3. CASE UNCHANGED <<vars, readerVars>>
  BY <1>3 DEF vars, readerVars, KeptMapped
<1> QED
  BY <1>1, <1>2, <1>3

\* To the readers a step of a job is one of the contract, or nothing.
LEMMA BesideStep ==
    ASSUME Overlap, "metadata" \notin Faults, TypeOK, LockInv, ReplaceInv, KeptMapped,
           [ReaderStep \/ JobStep]_<<vars, readerVars>>
    PROVE  [Readers!Next]_(Readers!vars)
<1>1. CASE ReaderStep
  BY <1>1 DEF ReaderStep, Readers!Next
<1>2. CASE JobStep
  <2>1. [Contract!Next]_(Contract!vars)
    BY <1>2, ContractStep DEF JobStep
  <2>2. CASE Contract!Next
    <3>1. Readers!Sync!Next
      BY <2>2 DEF Contract!Next, Contract!Restart, Contract!Start, Contract!Publish, Contract!Finish,
                  Readers!Sync!Next, Readers!Sync!Restart, Readers!Sync!Start,
                  Readers!Sync!Publish, Readers!Sync!Finish
    <3>2. kept' = kept \intersect rows'.cve
      BY <1>2 DEF JobStep
    <3> QED
      BY <1>2, <3>1, <3>2 DEF JobStep, Readers!SyncStep, Readers!Next
  <2>3. CASE UNCHANGED Contract!vars
    <3>1. UNCHANGED rows /\ UNCHANGED [s \in Syncs |-> Phase(s)]
      BY <2>3 DEF Contract!vars
    <3>2. moved' = moved /\ kept' = kept
      BY <1>2, <3>1 DEF JobStep, KeptMapped
    <3> QED
      BY <1>2, <3>1, <3>2 DEF JobStep, Readers!vars, Readers!tables, Readers!walk
  <2> QED
    BY <2>1, <2>2, <2>3
<1>3. CASE UNCHANGED <<vars, readerVars>>
  BY <1>3 DEF vars, readerVars, Phase, Readers!vars, Readers!tables, Readers!walk
<1> QED
  BY <1>1, <1>2, <1>3

\* What is proved of the readers of the strike tables holds beside perform_sync
\* itself, with all its transactions, retries and crashes: a listing in one
\* page shows every CVE that has been mapped all the while, and without a sync
\* in between a walk shows all there is, the total of the AI strikes counts all
\* and the details agree.  It needs what SyncImplementsContract needs.
THEOREM ReadersBesideSyncs ==
    ASSUME Overlap, "metadata" \notin Faults, Readers!ReadersAssumption
    PROVE  BesideSpec => /\ Readers!Spec
                         /\ []Readers!GetAllShowsKept
                         /\ []Readers!LatestWalkComplete
                         /\ []Readers!AiTotalCountsAll
                         /\ []Readers!TestableMeansMapped
<1>1. BesideInit => Init /\ Readers!Init /\ KeptMapped
  BY DEF BesideInit, Readers!Init, KeptMapped
<1>2. [ReaderStep \/ JobStep]_<<vars, readerVars>> => [Next]_vars
  BY DEF ReaderStep, JobStep
<1>3. BesideSpec => Spec
  BY <1>1, <1>2, PTL DEF BesideSpec, Spec
<1>4. BesideSpec => Readers!Spec
  <2>1. TypeOK /\ LockInv /\ ReplaceInv /\ KeptMapped
           /\ [ReaderStep \/ JobStep]_<<vars, readerVars>>
          => [Readers!Next]_(Readers!vars)
    BY BesideStep
  <2> QED
    BY <1>1, <1>3, <2>1, KeptStep, TypeCorrect, LockInvariant, ReplaceInvariant, PTL
       DEF BesideSpec, Readers!Spec
<1>5. Readers!Spec => /\ []Readers!GetAllShowsKept
                      /\ []Readers!LatestWalkComplete
                      /\ []Readers!AiTotalCountsAll
                      /\ []Readers!TestableMeansMapped
  BY Readers!ReadersAssumption, Readers!GetAllAlwaysShowsKept, Readers!LatestWalkAlwaysComplete,
     Readers!AiTotalAlwaysCountsAll, Readers!TestableAlwaysMeansMapped, PTL
<1> QED
  BY <1>4, <1>5, PTL
=============================================================================
