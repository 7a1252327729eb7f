--------------------------- MODULE AppsSyncProofs ---------------------------
(***************************************************************************)
(* Theorems about AppsSync, for any number of concurrent requests: the     *)
(* types, what the counts of an answer say of tables and files, and that   *)
(* each table is replaced as SyncContract promises.                        *)
(***************************************************************************)
EXTENDS AppsSync, TLAPS

-----------------------------------------------------------------------------
(* The inductive invariants.                                               *)

OpenStages == {"lock", "insert", "commit"}
ReplaceStages == {"delete"} \union OpenStages

\* Where a request is tells which tables it has replaced, and that it holds
\* the listings it is about to insert.
Progress(r) ==
    /\ pc[r] \in {"resolve", "fetch"} => kind[r] = "done"
    /\ pc[r] \in ReplaceStages => kind[r] \in Kinds /\ fetched[r] \in [Kinds -> Listings]
    /\ told[r] = "counts" => pc[r] \in {"queue", "idle"}

InOrder == \A r \in Requests : Progress(r)

\* A request deletes what is committed and inserts what it has fetched, nothing
\* outside its transaction, and no statement is left half done.
Holds(r) ==
    /\ pc[r] \notin OpenStages => doomed[r] = {} /\ deleted[r] = {}
    /\ pc[r] \in OpenStages => /\ doomed[r] \union deleted[r] \subseteq rows[kind[r]]
                               /\ added[r] \subseteq fetched[r][kind[r]]
    /\ pc[r] \notin {"insert", "commit"} => added[r] = {}
    /\ pc[r] \in {"insert", "commit"} => doomed[r] = {}
    /\ pc[r] = "commit" => added[r] = fetched[r][kind[r]]

\* A row that is deleted or inserted belongs to one transaction.
Apart(r, t) ==
    pc[r] \in OpenStages /\ pc[t] \in OpenStages /\ kind[r] = kind[t]
        => deleted[r] \intersect deleted[t] = {} /\ added[r] \intersect added[t] = {}

LockInv == \A r \in Requests : Holds(r) /\ \A t \in Requests \ {r} : Apart(r, t)

\* All that is committed is deleted by r, or about to be.
Covers(r) == rows[kind[r]] = doomed[r] \union deleted[r]

\* A record r has still to insert is committed, and r does not delete it.
Blocked(r) ==
    (fetched[r][kind[r]] \intersect rows[kind[r]])
        \ (doomed[r] \union deleted[r] \union added[r]) # {}

\* r neither deletes nor inserts anything.
Idles(r) == fetched[r][kind[r]] = {} /\ doomed[r] \union deleted[r] = {}

\* The DELETE of an open transaction matches all that is committed, unless
\* another has committed since.
ReplaceReady(r) == pc[r] \in OpenStages => Covers(r) \/ Blocked(r) \/ Idles(r)

OneListing == \A k \in Kinds : rows[k] \in Listings \union {{}}

ReplaceInv ==
    /\ OneListing
    /\ \A r \in Requests : ReplaceReady(r)

\* What a request that nobody else's disturbs relies on.
Undisturbed(r) ==
    /\ \A t \in Requests \ {r} : pc[t] = "idle"
    /\ pc[r] \in ReplaceStages =>
          /\ files = fetched[r]
          /\ kind[r] = "apps" => rows["types"] = files["types"]
    /\ pc[r] \in OpenStages => Covers(r)
    /\ told[r] = "counts" => rows = files

AloneInv == \A r \in Requests : alone[r] => Undisturbed(r)

\* Any two listings that are not empty share an id.
Overlap == \A l, m \in Listings : l # {} /\ m # {} => l \intersect m # {}

-----------------------------------------------------------------------------
(* Type correctness.                                                       *)

\* What a request does when it is over with the tables, or with everything.
LEMMA EndTypes ==
    ASSUME TypeOK, NEW r \in Requests,
           \/ AppsFail(r) /\ UNCHANGED answer
           \/ /\ \E s \in {"http_400", "sync_queued", "sync_completed", "http_500"} : Respond(r, s)
              /\ UNCHANGED told
    PROVE  /\ pc' \in [Requests -> {"idle", "resolve", "fetch", "delete", "lock", "insert",
                                    "commit", "queue"}]
           /\ fetched' \in [Requests -> [Kinds -> SUBSET Ids]]
           /\ told' \in [Requests -> {"nothing", "counts", "error"}]
           /\ answer' \in [Requests -> {"none", "sync_queued", "sync_completed",
                                        "http_400", "http_500"}]
<1>1. Nothing \in [Kinds -> SUBSET Ids]
  BY DEF Nothing
<1>2. CASE AppsFail(r) /\ UNCHANGED answer
  BY <1>1, <1>2 DEF AppsFail, AfterAppsFailure, Goto, TypeOK
<1>3. ASSUME NEW s \in {"http_400", "sync_queued", "sync_completed", "http_500"},
             Respond(r, s), UNCHANGED told
      PROVE  /\ pc' \in [Requests -> {"idle", "resolve", "fetch", "delete", "lock", "insert",
                                      "commit", "queue"}]
             /\ fetched' \in [Requests -> [Kinds -> SUBSET Ids]]
             /\ told' \in [Requests -> {"nothing", "counts", "error"}]
             /\ answer' \in [Requests -> {"none", "sync_queued", "sync_completed",
                                          "http_400", "http_500"}]
  BY <1>1, <1>3 DEF Respond, Goto, TypeOK
<1> QED
  BY <1>2, <1>3

\* What an INSERT puts in are ids.
LEMMA FetchedIds ==
    ASSUME TypeOK, NEW r \in Requests, kind[r] \in Kinds
    PROVE  Pending(r) \subseteq Ids /\ rows[kind[r]] \subseteq Ids
<1>1. fetched[r] \in [Kinds -> SUBSET Ids]
  BY DEF TypeOK
<1> QED
  BY <1>1 DEF Pending, TypeOK

\* What a step of a DELETE does: a row is taken, or all are.
LEMMA LockOutcome ==
    ASSUME TypeOK, NEW r \in Requests, Lock(r)
    PROVE  /\ UNCHANGED <<rows, files, kind, fetched, added, told>> /\ pc[r] = "lock"
           /\ \/ /\ pc'[r] = "insert" /\ doomed[r] = {}
                 /\ doomed'[r] = doomed[r] /\ deleted'[r] = deleted[r]
              \/ /\ pc' = pc
                 /\ \E k \in doomed[r] :
                       /\ \A t \in Rivals(r) : k \notin deleted[t]
                       /\ doomed'[r] = doomed[r] \ {k}
                       /\ deleted'[r] = deleted[r] \union {k}
BY DEF Lock, LockRow, Goto, TypeOK

\* What a step of an INSERT does: a row is put in, or all are.
LEMMA InsertOutcome ==
    ASSUME TypeOK, NEW r \in Requests, Insert(r)
    PROVE  /\ UNCHANGED <<rows, files, kind, fetched, doomed, deleted, told>> /\ pc[r] = "insert"
           /\ \/ /\ pc'[r] = "commit" /\ fetched[r][kind[r]] \subseteq added[r]
                 /\ added'[r] = added[r]
              \/ /\ pc' = pc
                 /\ \E k \in fetched[r][kind[r]] \ added[r] :
                       /\ k \notin rows[kind[r]] \ deleted[r]
                       /\ \A t \in Rivals(r) : k \notin added[t]
                       /\ added'[r] = added[r] \union {k}
BY DEF Insert, InsertRow, Pending, Goto, TypeOK

LEMMA TypeStep == TypeOK /\ InOrder /\ [Next]_vars => TypeOK'
<1> SUFFICES ASSUME TypeOK, InOrder, [Next]_vars PROVE TypeOK'
  OBVIOUS
<1>1. CASE Crash
  BY <1>1 DEF Crash, Nothing, TypeOK
<1>2. ASSUME NEW r \in Requests, Begin(r)
      PROVE  TypeOK'
  <2>1. alone' \in [Requests -> BOOLEAN]
    BY <1>2 DEF Begin
  <2> QED
    BY <1>2, <2>1 DEF Begin, Goto, TypeOK
<1>3. ASSUME NEW r \in Requests, Resolve(r)
      PROVE  TypeOK'
  <2>1. Resolutions \subseteq Endpoints \union {Env, None}
    BY AppsSyncAssumption DEF Resolutions, TypeOK
  <2>2. PICK e \in Resolutions : endpoint' = [endpoint EXCEPT ![r] = e]
    BY <1>3 DEF Resolve
  <2>3. endpoint' \in [Requests -> Endpoints \union {Env, None}]
    BY <2>1, <2>2 DEF TypeOK
  <2> QED
    BY <1>3, <2>3 DEF Resolve, Goto, TypeOK
<1>4. ASSUME NEW r \in Requests, FetchAndSave(r)
      PROVE  TypeOK'
  <2>1. PICK types, apps \in Listings :
            /\ fetched' = [fetched EXCEPT ![r]["types"] = types, ![r]["apps"] = apps]
            /\ files' = [k \in Kinds |-> IF k \in SavedKinds THEN fetched'[r][k] ELSE files[k]]
    BY <1>4 DEF FetchAndSave
  <2>2. types \in SUBSET Ids /\ apps \in SUBSET Ids
    BY AppsSyncAssumption
  <2>3. fetched' \in [Requests -> [Kinds -> SUBSET Ids]]
    BY <2>1, <2>2 DEF TypeOK
  <2>4. files' \in [Kinds -> SUBSET Ids]
    <3>1. \A k \in Kinds : fetched'[r][k] \in SUBSET Ids
      BY <2>3
    <3>2. \A k \in Kinds : files[k] \in SUBSET Ids
      BY DEF TypeOK
    <3> QED
      BY <2>1, <3>1, <3>2
  <2> QED
    BY <1>4, <2>3, <2>4 DEF FetchAndSave, FirstKind, Kinds, Goto, TypeOK
<1>5. ASSUME NEW r \in Requests, FetchFails(r)
      PROVE  TypeOK'
  BY <1>5, EndTypes DEF FetchFails, TypeOK
<1>6. ASSUME NEW r \in Requests, SaveFails(r)
      PROVE  TypeOK'
  <2>1. files' \in [Kinds -> SUBSET Ids]
    <3>1. files \in [Kinds -> SUBSET Ids] /\ "types" \in Kinds /\ "apps" \in Kinds
      BY DEF TypeOK, Kinds
    <3>2. CASE \E left \in {files["types"], {}} : files' = [files EXCEPT !["types"] = left]
      BY <3>1, <3>2
    <3>3. CASE \E types \in Listings, left \in {files["apps"], {}} :
                  files' = [k \in Kinds |-> IF k = "types" THEN types ELSE left]
      BY <3>1, <3>3, AppsSyncAssumption
    <3> QED
      BY <1>6, <3>2, <3>3 DEF SaveFails
  <2> QED
    BY <1>6, <2>1, EndTypes DEF SaveFails, TypeOK
<1>7. ASSUME NEW r \in Requests, Refuse(r) \/ Queue(r) \/ SyncDirectly(r)
      PROVE  TypeOK'
  <2>1. /\ \E s \in {"http_400", "sync_queued", "sync_completed", "http_500"} : Respond(r, s)
        /\ UNCHANGED <<saved, rows, files, kind, endpoint, doomed, deleted, added, told, alone>>
    BY <1>7 DEF Refuse, Queue, SyncDirectly
  <2> QED
    BY <2>1, EndTypes DEF TypeOK
<1>8. ASSUME NEW r \in Requests, Delete(r) \/ Lock(r) \/ Insert(r)
      PROVE  TypeOK'
  <2>1. kind[r] \in Kinds
    BY <1>8 DEF Delete, Lock, Insert, InOrder, Progress, ReplaceStages, OpenStages
  <2>2. Pending(r) \subseteq Ids /\ rows[kind[r]] \subseteq Ids
    BY <2>1, FetchedIds
  <2>3. /\ doomed' \in [Requests -> SUBSET Ids]
        /\ deleted' \in [Requests -> SUBSET Ids]
        /\ added' \in [Requests -> SUBSET Ids]
    <3>1. CASE Delete(r)
      BY <2>2, <3>1 DEF Delete, Matched, TypeOK
    <3>2. CASE Lock(r)
      <4>1. CASE \E k \in doomed[r] : LockRow(r, k)
        <5>1. PICK k \in doomed[r] : LockRow(r, k)
          BY <4>1
        <5>2. k \in Ids
          BY DEF TypeOK
        <5> QED
          BY <3>2, <5>1, <5>2 DEF Lock, LockRow, TypeOK
      <4>2. CASE UNCHANGED <<doomed, deleted>>
        BY <3>2, <4>2 DEF Lock, TypeOK
      <4> QED
        BY <3>2, <4>1, <4>2 DEF Lock
    <3>3. CASE Insert(r)
      <4>1. UNCHANGED <<doomed, deleted>>
        BY <3>3 DEF Insert
      <4>2. \/ UNCHANGED added
            \/ \E k \in Ids : added' = [added EXCEPT ![r] = @ \union {k}]
        BY <2>2, <3>3 DEF Insert, InsertRow
      <4> QED
        BY <4>1, <4>2 DEF TypeOK
    <3> QED
      BY <1>8, <3>1, <3>2, <3>3
  <2>4. pc' \in [Requests -> {"idle", "resolve", "fetch", "delete", "lock", "insert",
                              "commit", "queue"}]
    <3>1. UNCHANGED pc \/ \E stage \in {"lock", "insert", "commit"} : Goto(r, stage)
      BY <1>8 DEF Delete, Lock, Insert
    <3> QED
      BY <3>1 DEF Goto, TypeOK
  <2> QED
    BY <1>8, <2>3, <2>4 DEF Delete, Lock, Insert, TypeOK
<1>9. ASSUME NEW r \in Requests, Commit(r)
      PROVE  TypeOK'
  <2>1. /\ rows' \in [Kinds -> SUBSET Ids]
        /\ doomed' \in [Requests -> SUBSET Ids]
        /\ deleted' \in [Requests -> SUBSET Ids]
        /\ added' \in [Requests -> SUBSET Ids]
    BY <1>9 DEF Commit, TypeOK
  <2>2. kind' \in [Requests -> Kinds \union {"done"}]
    BY <1>9 DEF Commit, KindAfter, Kinds, TypeOK
  <2>3. told' \in [Requests -> {"nothing", "counts", "error"}]
    BY <1>9 DEF Commit, TypeOK
  <2>4. pc' \in [Requests -> {"idle", "resolve", "fetch", "delete", "lock", "insert",
                              "commit", "queue"}]
    <3>1. Goto(r, "delete") \/ Goto(r, "queue")
      BY <1>9 DEF Commit
    <3> QED
      BY <3>1 DEF Goto, TypeOK
  <2>5. UNCHANGED <<saved, files, endpoint, fetched, answer, alone>>
    BY <1>9 DEF Commit
  <2> QED
    BY <2>1, <2>2, <2>3, <2>4, <2>5 DEF TypeOK
<1>10. ASSUME NEW r \in Requests, ReplaceFails(r)
       PROVE  TypeOK'
  BY <1>10, EndTypes DEF ReplaceFails, TypeOK
<1>11. CASE UNCHANGED vars
  BY <1>11 DEF vars, TypeOK
<1> QED
  BY <1>1, <1>2, <1>3, <1>4, <1>5, <1>6, <1>7, <1>8, <1>9, <1>10, <1>11 DEF Next, Step

\* A step of r leaves the state of the other requests alone, but for the rows
\* that a commit takes out of their pending DELETEs.
LEMMA Locality ==
    ASSUME TypeOK, NEW r \in Requests, NEW t \in Requests \ {r}, Begin(r) \/ Step(r)
    PROVE  /\ pc'[t] = pc[t] /\ kind'[t] = kind[t] /\ fetched'[t] = fetched[t]
           /\ deleted'[t] = deleted[t] /\ added'[t] = added[t] /\ told'[t] = told[t]
           /\ doomed'[t] = doomed[t] \/ Commit(r)
<1> USE DEF TypeOK, Goto
<1>1. CASE Begin(r) \/ Resolve(r) \/ Refuse(r) \/ Queue(r) \/ SyncDirectly(r)
  BY <1>1 DEF Begin, Resolve, Refuse, Queue, SyncDirectly, Respond
<1>2. CASE FetchAndSave(r)
  BY <1>2 DEF FetchAndSave
<1>3. CASE FetchFails(r) \/ SaveFails(r)
  BY <1>3 DEF FetchFails, SaveFails, AppsFail
<1>4. CASE Delete(r) \/ Lock(r) \/ Insert(r) \/ ReplaceFails(r)
  BY <1>4 DEF Delete, Lock, LockRow, Insert, InsertRow, ReplaceFails, AppsFail
<1>5. CASE Commit(r)
  BY <1>5 DEF Commit
<1> QED
  BY <1>1, <1>2, <1>3, <1>4, <1>5 DEF Step

\* Where a request goes when it is over with the tables, or with everything.
LEMMA Ends ==
    ASSUME TypeOK, NEW r \in Requests
    PROVE  /\ FetchFails(r) \/ SaveFails(r) \/ ReplaceFails(r)
                => pc'[r] = "queue" /\ told'[r] = "error"
           /\ Refuse(r) \/ Queue(r) \/ SyncDirectly(r)
                => pc'[r] = "idle" /\ UNCHANGED <<rows, files, told>>
<1>1. ASSUME AppsFail(r) PROVE pc'[r] = "queue" /\ told'[r] = "error"
  BY <1>1 DEF AppsFail, AfterAppsFailure, Goto, TypeOK
<1>2. ASSUME NEW status, Respond(r, status) PROVE pc'[r] = "idle"
  BY <1>2 DEF Respond, Goto, TypeOK
<1>3. FetchFails(r) \/ SaveFails(r) \/ ReplaceFails(r) => AppsFail(r)
  BY DEF FetchFails, SaveFails, ReplaceFails
<1>4. Refuse(r) \/ Queue(r) \/ SyncDirectly(r)
        => (\E status : Respond(r, status)) /\ UNCHANGED <<rows, files, told>>
  BY DEF Refuse, Queue, SyncDirectly
<1> QED
  BY <1>1, <1>2, <1>3, <1>4

\* A request follows the order of the two tables.
LEMMA OrderStep == TypeOK /\ InOrder /\ [Next]_vars => InOrder'
<1> SUFFICES ASSUME TypeOK, InOrder, [Next]_vars PROVE InOrder'
  OBVIOUS
<1> USE DEF InOrder, Progress, ReplaceStages, OpenStages, Goto
<1>1. ASSUME NEW r \in Requests, Begin(r) \/ Step(r)
      PROVE  Progress(r)'
  <2>1. CASE Begin(r) \/ Resolve(r) \/ Refuse(r) \/ Queue(r) \/ SyncDirectly(r)
    <3>1. CASE Begin(r)
      <4>1. pc'[r] = "resolve" /\ kind'[r] = "done" /\ told'[r] = "nothing"
        BY <3>1 DEF Begin, TypeOK
      <4> QED
        BY <4>1
    <3>2. CASE Resolve(r)
      <4>1. pc[r] = "resolve" /\ pc'[r] = "fetch" /\ kind' = kind /\ told' = told
        BY <3>2 DEF Resolve, TypeOK
      <4>2. kind[r] = "done" /\ told[r] # "counts"
        BY <4>1
      <4> QED
        BY <4>1, <4>2
    <3>3. CASE Refuse(r) \/ Queue(r) \/ SyncDirectly(r)
      <4>1. pc'[r] = "idle"
        BY <3>3, Ends
      <4> QED
        BY <4>1
    <3> QED
      BY <2>1, <3>1, <3>2, <3>3
  <2>2. CASE FetchAndSave(r)
    <3>1. PICK types, apps \in Listings :
              fetched' = [fetched EXCEPT ![r]["types"] = types, ![r]["apps"] = apps]
      BY <2>2 DEF FetchAndSave
    <3>2. fetched'[r] \in [Kinds -> Listings]
      <4>1. fetched[r] \in [Kinds -> SUBSET Ids]
        BY DEF TypeOK
      <4>2. fetched'[r] = [fetched[r] EXCEPT !["types"] = types, !["apps"] = apps]
        BY <3>1 DEF TypeOK
      <4> QED
        BY <4>1, <4>2 DEF Kinds
    <3> QED
      BY <2>2, <3>2 DEF FetchAndSave, FirstKind, Kinds, TypeOK
  <2>3. CASE FetchFails(r) \/ SaveFails(r) \/ ReplaceFails(r)
    <3>1. pc'[r] = "queue"
      BY <2>3, Ends
    <3> QED
      BY <3>1
  <2>4. CASE Delete(r)
    <3>1. /\ pc[r] = "delete" /\ pc'[r] = "lock"
          /\ UNCHANGED <<kind, fetched, told>>
      BY <2>4 DEF Delete, TypeOK
    <3> QED
      BY <3>1
  <2>5. CASE Lock(r) \/ Insert(r)
    BY <2>5, LockOutcome, InsertOutcome
  <2>6. CASE Commit(r)
    <3>1. /\ pc[r] = "commit" /\ fetched' = fetched
          /\ kind'[r] = KindAfter(kind[r])
      BY <2>6 DEF Commit, TypeOK
    <3>2. kind[r] \in Kinds /\ fetched[r] \in [Kinds -> Listings] /\ told[r] # "counts"
      BY <3>1
    <3>3. CASE kind[r] = "types"
      <4>1. kind'[r] = "apps" /\ pc'[r] = "delete" /\ told' = told
        BY <2>6, <3>1, <3>3 DEF Commit, KindAfter, TypeOK
      <4> QED
        BY <3>1, <3>2, <4>1 DEF Kinds
    <3>4. CASE kind[r] = "apps"
      <4>1. pc'[r] = "queue"
        BY <2>6, <3>4 DEF Commit, KindAfter, TypeOK
      <4> QED
        BY <4>1
    <3> QED
      BY <3>2, <3>3, <3>4 DEF Kinds
  <2> QED
    BY <1>1, <2>1, <2>2, <2>3, <2>4, <2>5, <2>6 DEF Step
<1>2. ASSUME NEW r \in Requests, Begin(r) \/ Step(r), NEW t \in Requests \ {r}
      PROVE  Progress(t)'
  BY <1>2, Locality
<1>3. CASE Crash
  BY <1>3 DEF Crash
<1>4. CASE UNCHANGED vars
  BY <1>4 DEF vars
<1> QED
  BY <1>1, <1>2, <1>3, <1>4 DEF Next

LEMMA OrderInvariant == Spec => [](TypeOK /\ InOrder)
<1>1. Init => TypeOK /\ InOrder
  <2> SUFFICES ASSUME Init PROVE TypeOK /\ InOrder
    OBVIOUS
  <2>1. TypeOK
    BY DEF Init, Nothing, TypeOK
  <2>2. InOrder
    BY DEF Init, InOrder, Progress, ReplaceStages, OpenStages
  <2> QED
    BY <2>1, <2>2
<1> QED
  BY <1>1, TypeStep, OrderStep, PTL DEF Spec

\* Every variable keeps its type, for any number of concurrent requests.
THEOREM AppsTypeCorrect == Spec => []TypeOK
BY OrderInvariant, PTL

-----------------------------------------------------------------------------
(* What the open transactions hold.                                        *)

\* Only Commit changes the tables.
LEMMA OnlyCommitWrites ==
    ASSUME NEW r \in Requests, Begin(r) \/ Step(r)
    PROVE  UNCHANGED rows \/ Commit(r)
BY DEF Step, Begin, Resolve, Refuse, FetchAndSave, FetchFails, SaveFails, Delete, Lock,
       Insert, ReplaceFails, Queue, SyncDirectly

\* What a commit does to the table, and to the DELETEs that wait for it.
LEMMA CommitOutcome ==
    ASSUME TypeOK, InOrder, NEW r \in Requests, Commit(r)
    PROVE  /\ pc[r] = "commit" /\ pc'[r] \in {"delete", "queue"} /\ kind[r] \in Kinds
           /\ deleted'[r] = {} /\ added'[r] = {}
           /\ doomed'[r] = doomed[r] \ deleted[r]
           /\ rows'[kind[r]] = (rows[kind[r]] \ deleted[r]) \union added[r]
           /\ \A k \in Kinds \ {kind[r]} : rows'[k] = rows[k]
           /\ \A t \in Requests \ {r} :
                 doomed'[t] = IF kind[t] = kind[r] THEN doomed[t] \ deleted[r] ELSE doomed[t]
<1>1. kind[r] \in Kinds
  BY DEF Commit, InOrder, Progress, ReplaceStages, OpenStages
<1> QED
  BY <1>1 DEF Commit, Goto, TypeOK

\* A step that is none of a transaction's own neither needs nor leaves one.
LEMMA OnlyReplaceHolds ==
    ASSUME TypeOK, NEW r \in Requests, Begin(r) \/ Step(r),
           ~ Delete(r), ~ Lock(r), ~ Insert(r), ~ Commit(r), ~ ReplaceFails(r)
    PROVE  /\ UNCHANGED <<rows, doomed, deleted, added>>
           /\ pc[r] \notin ReplaceStages /\ pc'[r] \notin OpenStages
<1> USE DEF ReplaceStages, OpenStages, Goto, TypeOK
<1>1. CASE Begin(r) \/ Resolve(r) \/ FetchAndSave(r)
  BY <1>1 DEF Begin, Resolve, FetchAndSave
<1>2. CASE Refuse(r) \/ Queue(r) \/ SyncDirectly(r) \/ FetchFails(r) \/ SaveFails(r)
  <2>1. /\ UNCHANGED <<rows, doomed, deleted, added>>
        /\ pc[r] \in {"resolve", "fetch", "queue"}
    BY <1>2 DEF Refuse, Queue, SyncDirectly, FetchFails, SaveFails
  <2>2. pc'[r] \in {"idle", "queue"}
    BY <1>2, Ends
  <2> QED
    BY <2>1, <2>2
<1> QED
  BY <1>1, <1>2 DEF Step

\* A step of r keeps what r holds in order.
LEMMA HoldsStep ==
    ASSUME TypeOK, InOrder, NEW r \in Requests, Holds(r), Begin(r) \/ Step(r)
    PROVE  Holds(r)'
<1> USE DEF Holds, ReplaceStages, OpenStages
<1>1. CASE Delete(r)
  <2>1. /\ pc[r] = "delete" /\ pc'[r] = "lock" /\ doomed'[r] = rows[kind[r]]
        /\ UNCHANGED <<rows, kind, fetched, deleted, added>>
    BY <1>1 DEF Delete, Matched, Goto, TypeOK
  <2> QED
    BY <2>1
<1>2. CASE Lock(r)
  BY <1>2, LockOutcome
<1>3. CASE Insert(r)
  <2>1. /\ UNCHANGED <<rows, kind, fetched, doomed, deleted>> /\ pc[r] = "insert"
        /\ \/ pc'[r] = "commit" /\ fetched[r][kind[r]] \subseteq added[r] /\ added'[r] = added[r]
           \/ /\ pc'[r] = "insert"
              /\ \E k \in fetched[r][kind[r]] : added'[r] = added[r] \union {k}
    BY <1>3, InsertOutcome
  <2>2. added[r] \subseteq fetched[r][kind[r]] /\ doomed[r] = {}
    BY <2>1
  <2> QED
    BY <2>1, <2>2
<1>4. CASE Commit(r)
  BY <1>4, CommitOutcome
<1>5. CASE ReplaceFails(r)
  <2>1. pc'[r] = "queue" /\ doomed'[r] = {} /\ deleted'[r] = {} /\ added'[r] = {}
    BY <1>5, Ends DEF ReplaceFails, TypeOK
  <2> QED
    BY <2>1
<1>6. CASE ~ Delete(r) /\ ~ Lock(r) /\ ~ Insert(r) /\ ~ Commit(r) /\ ~ ReplaceFails(r)
  BY <1>6, OnlyReplaceHolds
<1> QED
  BY <1>1, <1>2, <1>3, <1>4, <1>5, <1>6

\* The others keep what they hold, and a commit takes only what is not theirs.
LEMMA OthersHold ==
    ASSUME TypeOK, InOrder, LockInv, NEW r \in Requests, NEW t \in Requests \ {r},
           Begin(r) \/ Step(r)
    PROVE  Holds(t)' /\ doomed'[t] \subseteq doomed[t]
<1>1. /\ pc'[t] = pc[t] /\ kind'[t] = kind[t] /\ fetched'[t] = fetched[t]
      /\ deleted'[t] = deleted[t] /\ added'[t] = added[t]
  BY Locality
<1>2. Holds(t)
  BY DEF LockInv
<1>3. CASE Commit(r)
  <2>1. doomed'[t] = IF kind[t] = kind[r] THEN doomed[t] \ deleted[r] ELSE doomed[t]
    BY <1>3, CommitOutcome
  <2>2. ASSUME pc[t] \in OpenStages
        PROVE  doomed'[t] \union deleted[t] \subseteq rows'[kind[t]]
    <3>1. kind[t] \in Kinds
      BY <2>2 DEF InOrder, Progress, ReplaceStages
    <3>2. doomed[t] \union deleted[t] \subseteq rows[kind[t]]
      BY <1>2, <2>2 DEF Holds
    <3>3. CASE kind[t] = kind[r]
      <4>1. deleted[t] \intersect deleted[r] = {}
        BY <1>3, <2>2, <3>3, CommitOutcome DEF LockInv, Apart, OpenStages
      <4> QED
        BY <1>3, <2>1, <3>2, <3>3, <4>1, CommitOutcome
    <3>4. CASE kind[t] # kind[r]
      BY <1>3, <2>1, <3>1, <3>2, <3>4, CommitOutcome
    <3> QED
      BY <3>3, <3>4
  <2> QED
    BY <1>1, <1>2, <2>1, <2>2 DEF Holds
<1>4. CASE ~ Commit(r)
  <2>1. rows' = rows /\ doomed'[t] = doomed[t]
    BY <1>4, Locality, OnlyCommitWrites
  <2> QED
    BY <1>1, <1>2, <2>1 DEF Holds
<1> QED
  BY <1>3, <1>4

\* A request deletes and inserts only rows no other transaction has.
LEMMA ApartStep ==
    ASSUME TypeOK, InOrder, LockInv, NEW r \in Requests, NEW t \in Requests \ {r},
           Begin(r) \/ Step(r)
    PROVE  Apart(r, t)'
<1> SUFFICES ASSUME pc'[r] \in OpenStages, pc'[t] \in OpenStages, kind'[r] = kind'[t]
             PROVE  /\ deleted'[r] \intersect deleted'[t] = {}
                    /\ added'[r] \intersect added'[t] = {}
  BY DEF Apart
<1>1. /\ pc'[t] = pc[t] /\ kind'[t] = kind[t]
      /\ deleted'[t] = deleted[t] /\ added'[t] = added[t]
  BY Locality
<1>2. CASE Delete(r)
  <2>1. pc[r] = "delete" /\ UNCHANGED <<deleted, added>>
    BY <1>2 DEF Delete
  <2>2. deleted[r] = {} /\ added[r] = {}
    BY <2>1 DEF LockInv, Holds, OpenStages
  <2> QED
    BY <2>1, <2>2
<1>3. CASE Lock(r) \/ Insert(r)
  <2>1. UNCHANGED kind /\ pc[r] \in OpenStages
    BY <1>3, LockOutcome, InsertOutcome DEF OpenStages
  <2>2. t \in Rivals(r)
    BY <1>1, <2>1 DEF Rivals, OpenStages
  <2>3. deleted[r] \intersect deleted[t] = {} /\ added[r] \intersect added[t] = {}
    BY <1>1, <2>1 DEF LockInv, Apart
  <2>4. CASE Lock(r)
    BY <1>1, <2>2, <2>3, <2>4, LockOutcome
  <2>5. CASE Insert(r)
    BY <1>1, <2>2, <2>3, <2>5, InsertOutcome
  <2> QED
    BY <1>3, <2>4, <2>5
<1>4. CASE Commit(r) \/ ReplaceFails(r)
  BY <1>4, CommitOutcome, Ends DEF OpenStages
<1>5. CASE ~ Delete(r) /\ ~ Lock(r) /\ ~ Insert(r) /\ ~ Commit(r) /\ ~ ReplaceFails(r)
  BY <1>5, OnlyReplaceHolds
<1> QED
  BY <1>2, <1>3, <1>4, <1>5

LEMMA LockInvariant == Spec => []LockInv
<1>1. Init => LockInv
  <2> SUFFICES ASSUME Init, NEW r \in Requests
               PROVE  Holds(r) /\ \A t \in Requests \ {r} : Apart(r, t)
    BY DEF LockInv
  <2>1. pc[r] = "idle" /\ doomed[r] = {} /\ deleted[r] = {} /\ added[r] = {}
    BY DEF Init
  <2> QED
    BY <2>1 DEF Holds, Apart, OpenStages
<1>2. TypeOK /\ InOrder /\ LockInv /\ [Next]_vars => LockInv'
  <2> SUFFICES ASSUME TypeOK, InOrder, LockInv, [Next]_vars PROVE LockInv'
    OBVIOUS
  <2>1. ASSUME NEW r \in Requests, Begin(r) \/ Step(r)
        PROVE  LockInv'
    <3> SUFFICES ASSUME NEW t \in Requests
                 PROVE  Holds(t)' /\ \A u \in Requests \ {t} : Apart(t, u)'
      BY DEF LockInv
    <3>1. Holds(t)'
      BY <2>1, HoldsStep, OthersHold DEF LockInv
    <3>2. ASSUME NEW u \in Requests \ {t}
          PROVE  Apart(t, u)'
      <4>1. CASE t = r
        BY <2>1, <4>1, ApartStep
      <4>2. CASE u = r
        <5>1. Apart(r, t)'
          BY <2>1, <4>2, ApartStep
        <5> QED
          BY <4>2, <5>1 DEF Apart
      <4>3. CASE t # r /\ u # r
        BY <2>1, <4>3, Locality DEF LockInv, Apart
      <4> QED
        BY <4>1, <4>2, <4>3
    <3> QED
      BY <3>1, <3>2
  <2>2. CASE Crash
    BY <2>2 DEF Crash, LockInv, Holds, Apart, OpenStages
  <2>3. CASE UNCHANGED vars
    BY <2>3 DEF vars, LockInv, Holds, Apart
  <2> QED
    BY <2>1, <2>2, <2>3 DEF Next
<1> QED
  BY <1>1, <1>2, OrderInvariant, PTL DEF Spec

-----------------------------------------------------------------------------
(* A request that no other disturbs.                                       *)

\* Begin makes every other request's history disturbed, and only Begin writes it.
LEMMA HistoryStep ==
    ASSUME TypeOK, NEW r \in Requests, Begin(r) \/ Step(r)
    PROVE  /\ ~ Begin(r) => alone' = alone
           /\ \A t \in Requests \ {r} : Begin(r) => ~ alone'[t]
           /\ Begin(r) => alone'[r] = (\A u \in Requests : pc[u] = "idle")
<1>1. CASE Begin(r)
  BY <1>1 DEF Begin
<1>2. CASE Step(r)
  BY <1>2 DEF Step, Begin, Resolve, Refuse, FetchAndSave, FetchFails, SaveFails, Delete, Lock,
              Insert, Commit, ReplaceFails, Queue, SyncDirectly
<1> QED
  BY <1>1, <1>2

\* Its fetch goes to the files, and it starts with the types.
LEMMA FetchUndisturbed ==
    ASSUME TypeOK, InOrder, NEW r \in Requests, Undisturbed(r), FetchAndSave(r),
           \A t \in Requests \ {r} : pc'[t] = "idle"
    PROVE  Undisturbed(r)'
<1>1. pc'[r] = "delete" /\ kind'[r] = "types" /\ UNCHANGED told /\ pc[r] = "fetch"
  BY DEF FetchAndSave, FirstKind, Goto, TypeOK
<1>2. fetched'[r] = [k \in Kinds |-> fetched'[r][k]]
  <2>1. fetched[r] \in [Kinds -> SUBSET Ids]
    BY DEF TypeOK
  <2>2. PICK types, apps \in Listings :
            fetched' = [fetched EXCEPT ![r]["types"] = types, ![r]["apps"] = apps]
    BY DEF FetchAndSave
  <2>3. fetched'[r] = [fetched[r] EXCEPT !["types"] = types, !["apps"] = apps]
    BY <2>2 DEF TypeOK
  <2> QED
    BY <2>1, <2>3
<1>3. files' = [k \in Kinds |-> fetched'[r][k]]
  BY DEF FetchAndSave, SavedKinds
<1>4. files' = fetched'[r]
  BY <1>2, <1>3
<1>5. told'[r] # "counts"
  BY <1>1 DEF InOrder, Progress
<1> QED
  BY <1>1, <1>4, <1>5 DEF Undisturbed, ReplaceStages, OpenStages

\* Its commit makes a table what the file of that table is.
LEMMA CommitUndisturbed ==
    ASSUME TypeOK, InOrder, LockInv, NEW r \in Requests, Undisturbed(r), Commit(r),
           \A t \in Requests \ {r} : pc'[t] = "idle"
    PROVE  Undisturbed(r)'
<1>1. /\ kind[r] \in Kinds /\ files = fetched[r]
      /\ deleted[r] = rows[kind[r]] /\ added[r] = files[kind[r]]
      /\ kind[r] = "apps" => rows["types"] = files["types"]
  <2>1. pc[r] \in OpenStages /\ pc[r] = "commit"
    BY DEF Commit, OpenStages
  <2>2. doomed[r] = {} /\ added[r] = fetched[r][kind[r]]
    BY <2>1 DEF LockInv, Holds
  <2>3. kind[r] \in Kinds
    BY <2>1 DEF InOrder, Progress, ReplaceStages
  <2>4. /\ files = fetched[r] /\ Covers(r)
        /\ kind[r] = "apps" => rows["types"] = files["types"]
    BY <2>1 DEF Undisturbed, ReplaceStages
  <2> QED
    BY <2>2, <2>3, <2>4 DEF Covers
<1>2. rows' = [rows EXCEPT ![kind[r]] = files[kind[r]]]
  <2>1. (rows[kind[r]] \ deleted[r]) \union added[r] = files[kind[r]]
    BY <1>1
  <2>2. rows' = [rows EXCEPT ![kind[r]] = (rows[kind[r]] \ deleted[r]) \union added[r]]
    BY DEF Commit
  <2> QED
    BY <2>1, <2>2
<1>3. UNCHANGED <<files, fetched>> /\ pc[r] = "commit"
  BY DEF Commit
<1>4. CASE kind[r] = "types"
  <2>1. pc'[r] = "delete" /\ kind'[r] = "apps" /\ UNCHANGED told
    BY <1>4 DEF Commit, KindAfter, Goto, TypeOK
  <2>2. rows'["types"] = files["types"]
    BY <1>2, <1>4 DEF TypeOK, Kinds
  <2>3. told[r] # "counts"
    BY <1>3 DEF InOrder, Progress
  <2> QED
    BY <1>1, <1>3, <2>1, <2>2, <2>3 DEF Undisturbed, ReplaceStages, OpenStages
<1>5. CASE kind[r] = "apps"
  <2>1. pc'[r] = "queue"
    BY <1>5 DEF Commit, KindAfter, Goto, TypeOK
  <2>2. rows' = files
    <3>1. files = [k \in Kinds |-> files[k]] /\ rows' = [k \in Kinds |-> rows'[k]]
      BY <1>2 DEF TypeOK
    <3>2. rows'["types"] = rows["types"] /\ rows'["apps"] = files["apps"]
      BY <1>2, <1>5 DEF TypeOK, Kinds
    <3>3. \A k \in Kinds : rows'[k] = files[k]
      BY <1>1, <1>5, <3>2 DEF Kinds
    <3> QED
      BY <3>1, <3>3
  <2> QED
    BY <1>3, <2>1, <2>2 DEF Undisturbed, ReplaceStages, OpenStages
<1> QED
  BY <1>1, <1>4, <1>5 DEF Kinds

\* A step of a request that is alone.
LEMMA OwnUndisturbed ==
    ASSUME TypeOK, InOrder, LockInv, NEW r \in Requests, Undisturbed(r), Step(r)
    PROVE  Undisturbed(r)'
<1>1. \A t \in Requests \ {r} : pc'[t] = "idle"
  BY Locality DEF Undisturbed
<1> USE DEF Undisturbed, ReplaceStages, OpenStages, Goto
<1>2. CASE Resolve(r) \/ Refuse(r) \/ Queue(r) \/ SyncDirectly(r)
  <2>1. pc'[r] \in {"idle", "fetch"} /\ UNCHANGED <<rows, files, told>>
    <3>1. CASE Resolve(r)
      BY <3>1 DEF Resolve, TypeOK
    <3> QED
      BY <1>2, <3>1, Ends
  <2> QED
    BY <1>1, <2>1
<1>3. CASE FetchAndSave(r)
  BY <1>1, <1>3, FetchUndisturbed
<1>4. CASE FetchFails(r) \/ SaveFails(r) \/ ReplaceFails(r)
  <2>1. pc'[r] = "queue" /\ told'[r] = "error"
    BY <1>4, Ends
  <2> QED
    BY <1>1, <2>1
<1>5. CASE Delete(r)
  <2>1. /\ doomed'[r] = rows[kind[r]] /\ pc'[r] = "lock" /\ pc[r] = "delete"
        /\ UNCHANGED <<rows, files, kind, fetched, deleted, told>>
    BY <1>5 DEF Delete, Matched, TypeOK
  <2>2. deleted[r] = {}
    BY <2>1 DEF LockInv, Holds
  <2> QED
    BY <1>1, <2>1, <2>2 DEF Covers
<1>6. CASE Lock(r) \/ Insert(r)
  BY <1>1, <1>6, LockOutcome, InsertOutcome DEF Covers
<1>7. CASE Commit(r)
  BY <1>1, <1>7, CommitUndisturbed
<1> QED
  BY <1>2, <1>3, <1>4, <1>5, <1>6, <1>7 DEF Step

LEMMA AloneStep == TypeOK /\ InOrder /\ LockInv /\ AloneInv /\ [Next]_vars => AloneInv'
<1> SUFFICES ASSUME TypeOK, InOrder, LockInv, AloneInv, [Next]_vars PROVE AloneInv'
  OBVIOUS
<1>1. ASSUME NEW r \in Requests, Begin(r), NEW t \in Requests, alone'[t]
      PROVE  Undisturbed(t)'
  <2>1. t = r /\ \A u \in Requests : pc[u] = "idle"
    BY <1>1, HistoryStep
  <2> QED
    BY <1>1, <2>1 DEF Begin, Undisturbed, ReplaceStages, OpenStages, Goto, TypeOK
<1>2. ASSUME NEW r \in Requests, Step(r), NEW t \in Requests, alone'[t]
      PROVE  Undisturbed(t)'
  <2>1. pc[r] # "idle"
    BY <1>2
       DEF Step, Begin, Resolve, Refuse, FetchAndSave, FetchFails, SaveFails, Delete, Lock,
           Insert, Commit, ReplaceFails, Deadlocked, WaitsFor, Queue, SyncDirectly
  <2>2. ~ Begin(r)
    BY <2>1 DEF Begin
  <2>3. alone[t]
    BY <1>2, <2>2, HistoryStep
  <2>4. t = r
    BY <2>1, <2>3 DEF AloneInv, Undisturbed
  <2> QED
    BY <1>2, <2>3, <2>4, OwnUndisturbed DEF AloneInv
<1>3. CASE Crash
  BY <1>3 DEF Crash, AloneInv, Undisturbed, ReplaceStages, OpenStages
<1>4. CASE UNCHANGED vars
  BY <1>4 DEF vars, AloneInv, Undisturbed, Covers
<1> QED
  BY <1>1, <1>2, <1>3, <1>4 DEF Next, AloneInv

\* An answer with counts means that both tables and both files hold the same
\* records (CountsAreHeld), if no other request was under way: for any number
\* of requests before and after it, whatever has failed and crashed.
THEOREM CountsAreAlwaysHeld == Spec => []CountsAreHeld
<1>1. Init => AloneInv
  BY DEF Init, AloneInv
<1>2. AloneInv => CountsAreHeld
  BY DEF AloneInv, Undisturbed, CountsAreHeld
<1> QED
  BY <1>1, <1>2, AloneStep, OrderInvariant, LockInvariant, PTL DEF Spec

-----------------------------------------------------------------------------
(* Overlapping replaces do not mix.                                        *)

\* A step of r that does not commit keeps ReplaceReady(r).
LEMMA OwnStep ==
    ASSUME TypeOK, LockInv, NEW r \in Requests, ReplaceReady(r), Begin(r) \/ Step(r), ~ Commit(r)
    PROVE  ReplaceReady(r)'
<1> USE DEF ReplaceReady, OpenStages
<1>1. CASE Delete(r)
  <2>1. /\ pc[r] = "delete" /\ doomed'[r] = rows[kind[r]]
        /\ UNCHANGED <<rows, kind, deleted>>
    BY <1>1 DEF Delete, Matched, TypeOK
  <2>2. deleted[r] = {}
    BY <2>1 DEF LockInv, Holds
  <2> QED
    BY <2>1, <2>2 DEF Covers
<1>2. CASE Lock(r)
  <2>1. /\ UNCHANGED <<rows, kind, fetched, added>> /\ pc[r] = "lock"
        /\ doomed'[r] \union deleted'[r] = doomed[r] \union deleted[r]
    BY <1>2, LockOutcome
  <2> QED
    BY <2>1 DEF Covers, Blocked, Idles
<1>3. CASE Insert(r)
  <2>1. /\ UNCHANGED <<rows, kind, fetched, doomed, deleted>> /\ pc[r] = "insert"
        /\ \/ added'[r] = added[r]
           \/ \E k : k \notin rows[kind[r]] \ deleted[r] /\ added'[r] = added[r] \union {k}
    BY <1>3, InsertOutcome
  <2>2. Blocked(r) => Blocked(r)'
    BY <2>1 DEF Blocked
  <2> QED
    BY <2>1, <2>2 DEF Covers, Idles
<1>4. CASE ReplaceFails(r)
  BY <1>4, Ends
<1>5. CASE ~ Delete(r) /\ ~ Lock(r) /\ ~ Insert(r) /\ ~ ReplaceFails(r)
  BY <1>5, OnlyReplaceHolds
<1> QED
  BY <1>1, <1>2, <1>3, <1>4, <1>5

\* A commit leaves the one listing that the table had, or puts the one that was
\* fetched in its place.
LEMMA CommitPublishes ==
    ASSUME TypeOK, InOrder, LockInv, ReplaceInv, NEW r \in Requests, Commit(r)
    PROVE  /\ kind[r] \in Kinds
           /\ fetched[r] \in [Kinds -> Listings] /\ added[r] = fetched[r][kind[r]]
           /\ deleted[r] = rows[kind[r]] \/ (deleted[r] = {} /\ added[r] = {})
           /\ rows'[kind[r]] \in Listings
           /\ \A k \in Kinds \ {kind[r]} : rows'[k] = rows[k]
<1>1. /\ kind[r] \in Kinds /\ fetched[r] \in [Kinds -> Listings]
      /\ added[r] = fetched[r][kind[r]] /\ doomed[r] = {}
  BY DEF InOrder, Progress, LockInv, Holds, Commit, ReplaceStages, OpenStages
<1>2. Covers(r) \/ Idles(r)
  <2>1. ~ Blocked(r)
    BY <1>1 DEF Blocked
  <2> QED
    BY <2>1 DEF ReplaceInv, ReplaceReady, Commit, OpenStages
<1>3. deleted[r] = rows[kind[r]] \/ (deleted[r] = {} /\ added[r] = {})
  BY <1>1, <1>2 DEF Covers, Idles
<1>4. rows'[kind[r]] \in Listings
  <2>1. added[r] \in Listings /\ rows'[kind[r]] = (rows[kind[r]] \ deleted[r]) \union added[r]
    BY <1>1, CommitOutcome
  <2>2. CASE deleted[r] = rows[kind[r]]
    BY <2>1, <2>2
  <2>3. CASE deleted[r] = {} /\ added[r] = {}
    BY <1>1, <2>1, <2>3 DEF ReplaceInv, OneListing
  <2> QED
    BY <1>3, <2>2, <2>3
<1> QED
  BY <1>1, <1>3, <1>4, CommitOutcome

\* A commit that replaces the table leaves the DELETEs still under way with
\* nothing to delete, and their INSERTs with a record that is there already.
LEMMA CommitOthers ==
    ASSUME Overlap, TypeOK, InOrder, LockInv, ReplaceInv, NEW r \in Requests, Commit(r),
           NEW t \in Requests \ {r}
    PROVE  ReplaceReady(t)'
<1>1. /\ pc'[t] = pc[t] /\ kind'[t] = kind[t] /\ fetched'[t] = fetched[t]
      /\ deleted'[t] = deleted[t] /\ added'[t] = added[t]
  BY Locality DEF Step
<1>2. doomed'[t] = IF kind[t] = kind[r] THEN doomed[t] \ deleted[r] ELSE doomed[t]
  BY CommitOutcome
<1> SUFFICES ASSUME pc[t] \in OpenStages
             PROVE  Covers(t)' \/ Blocked(t)' \/ Idles(t)'
  BY <1>1 DEF ReplaceReady
<1>3. /\ kind[t] \in Kinds /\ fetched[t] \in [Kinds -> Listings]
      /\ Covers(t) \/ Blocked(t) \/ Idles(t)
      /\ doomed[t] \union deleted[t] \subseteq rows[kind[t]]
  BY DEF ReplaceInv, ReplaceReady, InOrder, Progress, LockInv, Holds, ReplaceStages
<1>4. CASE UNCHANGED <<rows, doomed>>
  BY <1>1, <1>3, <1>4 DEF Covers, Blocked, Idles
<1>5. CASE kind[t] # kind[r]
  <2>1. rows'[kind[t]] = rows[kind[t]] /\ doomed'[t] = doomed[t]
    BY <1>2, <1>3, <1>5, CommitPublishes
  <2> QED
    BY <1>1, <1>3, <2>1 DEF Covers, Blocked, Idles
<1>6. CASE kind[t] = kind[r] /\ deleted[r] = {} /\ added[r] = {}
  <2>1. rows'[kind[t]] = rows[kind[t]] /\ doomed'[t] = doomed[t]
    <3>1. /\ rows'[kind[r]] = (rows[kind[r]] \ deleted[r]) \union added[r]
          /\ doomed'[t] = doomed[t] \ deleted[r]
      BY <1>2, <1>6, CommitOutcome
    <3> QED
      BY <1>6, <3>1
  <2> QED
    BY <1>1, <1>3, <2>1 DEF Covers, Blocked, Idles
<1>7. CASE kind[t] = kind[r] /\ deleted[r] = rows[kind[r]]
  <2>1. /\ deleted[t] \intersect deleted[r] = {} /\ added[t] \intersect added[r] = {}
        /\ pc[r] = "commit"
    BY <1>7, CommitOutcome DEF LockInv, Apart, OpenStages
  <2>2. doomed'[t] = {} /\ deleted'[t] = {}
    BY <1>1, <1>2, <1>3, <1>7, <2>1
  <2>3. rows'[kind[t]] = fetched[r][kind[t]] /\ added[r] = fetched[r][kind[t]]
    <3>1. rows'[kind[r]] = (rows[kind[r]] \ deleted[r]) \union added[r]
      BY CommitOutcome
    <3>2. added[r] = fetched[r][kind[r]]
      BY CommitPublishes
    <3> QED
      BY <1>7, <3>1, <3>2
  <2>4. CASE fetched[r][kind[t]] = {}
    BY <1>1, <2>2, <2>3, <2>4 DEF Covers
  <2>5. CASE fetched[t][kind[t]] = {}
    BY <1>1, <2>2, <2>5 DEF Idles
  <2>6. CASE fetched[r][kind[t]] # {} /\ fetched[t][kind[t]] # {}
    <3>1. fetched[r][kind[t]] \in Listings /\ fetched[t][kind[t]] \in Listings
      BY <1>3, CommitPublishes
    <3>2. PICK k \in fetched[t][kind[t]] : k \in fetched[r][kind[t]]
      BY <2>6, <3>1 DEF Overlap
    <3>3. k \notin added[t]
      BY <2>1, <2>3, <3>2
    <3> QED
      BY <1>1, <2>2, <2>3, <3>2, <3>3 DEF Blocked
  <2> QED
    BY <2>4, <2>5, <2>6
<1> QED
  BY <1>5, <1>6, <1>7, CommitPublishes

LEMMA ReplaceStep ==
    Overlap /\ TypeOK /\ InOrder /\ LockInv /\ ReplaceInv /\ [Next]_vars => ReplaceInv'
<1> SUFFICES ASSUME Overlap, TypeOK, InOrder, LockInv, ReplaceInv, [Next]_vars PROVE ReplaceInv'
  OBVIOUS
<1>1. ASSUME NEW r \in Requests, Begin(r) \/ Step(r)
      PROVE  ReplaceInv'
  <2>1. OneListing'
    BY <1>1, OnlyCommitWrites, CommitPublishes DEF ReplaceInv, OneListing
  <2>2. CASE Commit(r)
    <3>1. ReplaceReady(r)'
      BY <2>2, CommitOutcome DEF ReplaceReady, OpenStages
    <3> QED
      BY <2>1, <2>2, <3>1, CommitOthers DEF ReplaceInv
  <2>3. CASE ~ Commit(r)
    <3>1. ReplaceReady(r)'
      BY <1>1, <2>3, OwnStep DEF ReplaceInv
    <3>2. ASSUME NEW t \in Requests \ {r}
          PROVE  ReplaceReady(t)'
      <4>1. /\ UNCHANGED rows
            /\ pc'[t] = pc[t] /\ kind'[t] = kind[t] /\ fetched'[t] = fetched[t]
            /\ doomed'[t] = doomed[t] /\ deleted'[t] = deleted[t] /\ added'[t] = added[t]
        BY <1>1, <2>3, OnlyCommitWrites, Locality
      <4> QED
        BY <4>1 DEF ReplaceInv, ReplaceReady, Covers, Blocked, Idles
    <3> QED
      BY <2>1, <3>1, <3>2 DEF ReplaceInv
  <2> QED
    BY <2>2, <2>3
<1>2. CASE Crash
  BY <1>2 DEF Crash, ReplaceInv, ReplaceReady, OneListing, OpenStages
<1>3. CASE UNCHANGED vars
  BY <1>3 DEF vars, ReplaceInv, ReplaceReady, OneListing, Covers, Blocked, Idles
<1> QED
  BY <1>1, <1>2, <1>3 DEF Next

LEMMA ReplaceInvariant == ASSUME Overlap PROVE Spec => []ReplaceInv
<1>1. Init => ReplaceInv
  BY DEF Init, Nothing, ReplaceInv, ReplaceReady, OneListing, OpenStages
<1> QED
  BY <1>1, ReplaceStep, OrderInvariant, LockInvariant, PTL DEF Spec

-----------------------------------------------------------------------------
(* Each of the two tables is replaced as SyncContract says.                *)

Phases(k) == [r \in Requests |-> Phase(r, k)]

\* What a step of r does to where it stands with table k.
LEMMA PhaseSteps ==
    ASSUME TypeOK, InOrder, NEW k \in Kinds, NEW r \in Requests, Begin(r) \/ Step(r)
    PROVE  LET publishes == Commit(r) /\ kind[r] = k IN
           \/ Phase(r, k) = "idle" /\ Phase(r, k)' = "running" /\ ~ publishes
           \/ Phase(r, k) = "running" /\ Phase(r, k)' = "published" /\ publishes
           \/ Phase(r, k) # "idle" /\ Phase(r, k)' = "idle" /\ ~ publishes
           \/ Phase(r, k)' = Phase(r, k) /\ ~ publishes
<1> USE DEF Phase, Replaced, Goto
<1>1. Progress(r) /\ k \in {"types", "apps"}
  BY DEF InOrder, Kinds
<1>2. CASE Begin(r)
  BY <1>1, <1>2 DEF Begin, Commit, TypeOK
<1>3. CASE Resolve(r) \/ Delete(r) \/ Lock(r) \/ Insert(r)
  <2>1. CASE Resolve(r) \/ Delete(r)
    BY <2>1 DEF Resolve, Delete, Commit, TypeOK
  <2>2. CASE Lock(r) \/ Insert(r)
    <3>1. /\ UNCHANGED <<kind, told>>
          /\ pc[r] \in {"lock", "insert"} /\ pc'[r] \in {"lock", "insert", "commit"}
      BY <2>2, LockOutcome, InsertOutcome
    <3>2. ~ Commit(r)
      BY <3>1 DEF Commit
    <3> QED
      BY <3>1, <3>2
  <2> QED
    BY <1>3, <2>1, <2>2
<1>4. CASE Refuse(r) \/ Queue(r) \/ SyncDirectly(r)
  BY <1>4 DEF Refuse, Queue, SyncDirectly, Respond, Commit, TypeOK
<1>5. CASE FetchAndSave(r)
  <2>1. kind[r] = "done" /\ kind'[r] = "types" /\ pc[r] = "fetch" /\ pc'[r] = "delete"
    BY <1>1, <1>5 DEF FetchAndSave, FirstKind, Progress, TypeOK
  <2> QED
    BY <1>5, <2>1 DEF FetchAndSave, Commit
<1>6. CASE FetchFails(r) \/ SaveFails(r) \/ (ReplaceFails(r) /\ ~ Commit(r))
  <2>1. /\ pc[r] \in {"fetch"} \union ReplaceStages
        /\ UNCHANGED kind /\ told'[r] = "error" /\ pc'[r] = "queue"
    BY <1>6 DEF FetchFails, SaveFails, ReplaceFails, AppsFail, AfterAppsFailure,
                Deadlocked, WaitsFor, ReplaceStages, OpenStages, TypeOK
  <2>2. told[r] # "counts"
    BY <1>1, <2>1 DEF Progress, ReplaceStages, OpenStages
  <2>3. ~ Commit(r)
    BY <1>6 DEF FetchFails, SaveFails, Commit
  <2> QED
    BY <2>1, <2>2, <2>3 DEF ReplaceStages, OpenStages
<1>7. CASE Commit(r)
  <2>1. told[r] # "counts" /\ kind[r] \in {"types", "apps"} /\ pc[r] = "commit"
    BY <1>1, <1>7 DEF Progress, Commit, Kinds, ReplaceStages, OpenStages
  <2>2. CASE kind[r] = "types"
    <3>1. kind'[r] = "apps" /\ pc'[r] = "delete" /\ UNCHANGED told
      BY <1>7, <2>2 DEF Commit, KindAfter, TypeOK
    <3> QED
      BY <1>1, <1>7, <2>1, <2>2, <3>1
  <2>3. CASE kind[r] = "apps"
    <3>1. told'[r] = "counts" /\ pc'[r] = "queue"
      BY <1>7, <2>3 DEF Commit, KindAfter, TypeOK
    <3> QED
      BY <1>1, <1>7, <2>1, <2>3, <3>1
  <2> QED
    BY <2>1, <2>2, <2>3
<1> QED
  BY <1>2, <1>3, <1>4, <1>5, <1>6, <1>7 DEF Step

\* A step of one request moves its own entry only.
LEMMA PhaseUpdate ==
    ASSUME TypeOK, NEW k \in Kinds, NEW r \in Requests, Begin(r) \/ Step(r)
    PROVE  Phases(k)' = [Phases(k) EXCEPT ![r] = Phase(r, k)']
<1>1. \A t \in Requests \ {r} : Phase(t, k)' = Phase(t, k)
  BY Locality DEF Phase, Replaced
<1> QED
  BY <1>1 DEF Phases

\* Seen from one table, every step is one of the contract's, or none.
LEMMA TableStep ==
    ASSUME TypeOK, InOrder, LockInv, ReplaceInv, NEW k \in Kinds, [Next]_vars
    PROVE  \/ Phases(k)' = [r \in Requests |-> "idle"] /\ rows'[k] = rows[k]
           \/ \E r \in Requests :
                 \/ /\ Phases(k)[r] = "idle" /\ rows'[k] = rows[k]
                    /\ Phases(k)' = [Phases(k) EXCEPT ![r] = "running"]
                 \/ /\ Phases(k)[r] = "running" /\ rows'[k] \in Listings
                    /\ Phases(k)' = [Phases(k) EXCEPT ![r] = "published"]
                 \/ /\ Phases(k)[r] # "idle" /\ rows'[k] = rows[k]
                    /\ Phases(k)' = [Phases(k) EXCEPT ![r] = "idle"]
           \/ Phases(k)' = Phases(k) /\ rows'[k] = rows[k]
<1>1. ASSUME NEW r \in Requests, Begin(r) \/ Step(r)
      PROVE  \/ /\ Phases(k)[r] = "idle" /\ rows'[k] = rows[k]
                /\ Phases(k)' = [Phases(k) EXCEPT ![r] = "running"]
             \/ /\ Phases(k)[r] = "running" /\ rows'[k] \in Listings
                /\ Phases(k)' = [Phases(k) EXCEPT ![r] = "published"]
             \/ /\ Phases(k)[r] # "idle" /\ rows'[k] = rows[k]
                /\ Phases(k)' = [Phases(k) EXCEPT ![r] = "idle"]
             \/ Phases(k)' = Phases(k) /\ rows'[k] = rows[k]
  <2>1. /\ Phases(k)[r] = Phase(r, k)
        /\ Phases(k)' = [Phases(k) EXCEPT ![r] = Phase(r, k)']
        /\ Phase(r, k)' = Phase(r, k) => Phases(k)' = Phases(k)
    BY <1>1, PhaseUpdate DEF Phases
  <2>2. CASE Commit(r) /\ kind[r] = k
    <3>1. rows'[k] \in Listings
      BY <2>2, CommitPublishes
    <3>2. Phase(r, k) = "running" /\ Phase(r, k)' = "published"
      BY <1>1, <2>2, PhaseSteps
    <3> QED
      BY <2>1, <3>1, <3>2
  <2>3. CASE ~ (Commit(r) /\ kind[r] = k)
    <3>1. rows'[k] = rows[k]
      BY <1>1, <2>3, OnlyCommitWrites, CommitPublishes
    <3>2. \/ Phase(r, k) = "idle" /\ Phase(r, k)' = "running"
          \/ Phase(r, k) # "idle" /\ Phase(r, k)' = "idle"
          \/ Phase(r, k)' = Phase(r, k)
      BY <1>1, <2>3, PhaseSteps
    <3> QED
      BY <2>1, <3>1, <3>2
  <2> QED
    BY <2>2, <2>3
<1>2. CASE Crash
  <2>1. \A r \in Requests : Phase(r, k)' = "idle"
    BY <1>2 DEF Crash, Phase
  <2> QED
    BY <1>2, <2>1 DEF Crash, Phases
<1>3. CASE UNCHANGED vars
  BY <1>3 DEF vars, Phases, Phase, Replaced
<1> QED
  BY <1>1, <1>2, <1>3 DEF Next

LEMMA InitialPhases ==
    Init => \A k \in Kinds : Phases(k) = [r \in Requests |-> "idle"] /\ rows[k] = {}
BY DEF Init, Nothing, Phases, Phase

\* Through overlapping requests, failures and crashes each request replaces
\* each table at most once, by one whole listing, and changes nothing else
\* (ingest_application_types and ingest_applications), as long as listings
\* that are not empty share an id.
THEOREM TablesAreReplacedWhole == ASSUME Overlap PROVE Spec => TablesReplacedWhole
<1>1. "types" \in Kinds /\ "apps" \in Kinds
  BY DEF Kinds
<1>2. Init => Types!Init /\ Apps!Init
  BY <1>1, InitialPhases DEF Phases, Types!Init, Apps!Init
<1>3. TypeOK /\ InOrder /\ LockInv /\ ReplaceInv /\ [Next]_vars => [Types!Next]_(Types!vars)
  <2> SUFFICES ASSUME TypeOK, InOrder, LockInv, ReplaceInv, [Next]_vars
               PROVE  [Types!Next]_(Types!vars)
    OBVIOUS
  <2> QED
    BY <1>1, TableStep
       DEF Phases, Types!Next, Types!vars, Types!Restart, Types!Start, Types!Publish, Types!Finish
<1>4. TypeOK /\ InOrder /\ LockInv /\ ReplaceInv /\ [Next]_vars => [Apps!Next]_(Apps!vars)
  <2> SUFFICES ASSUME TypeOK, InOrder, LockInv, ReplaceInv, [Next]_vars
               PROVE  [Apps!Next]_(Apps!vars)
    OBVIOUS
  <2> QED
    BY <1>1, TableStep
       DEF Phases, Apps!Next, Apps!vars, Apps!Restart, Apps!Start, Apps!Publish, Apps!Finish
<1> QED
  BY <1>2, <1>3, <1>4, OrderInvariant, LockInvariant, ReplaceInvariant, PTL
     DEF Spec, TablesReplacedWhole, Types!Spec, Apps!Spec

-----------------------------------------------------------------------------
(* Requests wait for the rows of others; why each comes to an end.  That   *)
(* one is scheduled, and that PostgreSQL parts transactions that wait for  *)
(* each other, is the fairness of EveryRequestAnswered.                    *)

\* The stages a request may still go through.
StagesLeft(r) ==
    CASE pc[r] = "idle" -> 0
      [] pc[r] = "resolve" -> 11
      [] pc[r] = "fetch" -> 10
      [] pc[r] = "delete" -> IF kind[r] = "types" THEN 9 ELSE 5
      [] pc[r] = "lock" -> IF kind[r] = "types" THEN 8 ELSE 4
      [] pc[r] = "insert" -> IF kind[r] = "types" THEN 7 ELSE 3
      [] pc[r] = "commit" -> IF kind[r] = "types" THEN 6 ELSE 2
      [] OTHER -> 1

\* The rows the statement a request is at has still to delete or to insert.
RowsLeft(r) ==
    CASE pc[r] = "lock" -> doomed[r]
      [] pc[r] = "insert" -> Pending(r)
      [] OTHER -> {}

\* No action takes a request further from its answer, and each of its own takes
\* it nearer: to a later stage, or over a row of the statement it is at.
GetsOn(r) ==
    /\ Begin(r) => StagesLeft(r)' = 11
    /\ Step(r) => \/ StagesLeft(r)' < StagesLeft(r)
                  \/ /\ StagesLeft(r)' = StagesLeft(r)
                     /\ RowsLeft(r)' \subseteq RowsLeft(r) /\ RowsLeft(r)' # RowsLeft(r)
    /\ ~ Begin(r) => \/ StagesLeft(r)' < StagesLeft(r)
                     \/ /\ StagesLeft(r)' = StagesLeft(r)
                        /\ RowsLeft(r)' \subseteq RowsLeft(r)

EveryoneGetsOn == \A r \in Requests : GetsOn(r)

\* Each step of a request takes it nearer to its answer.
LEMMA StepGetsOn ==
    ASSUME InOrder, TypeOK, NEW r \in Requests, Step(r)
    PROVE  \/ StagesLeft(r)' < StagesLeft(r)
           \/ /\ StagesLeft(r)' = StagesLeft(r)
              /\ RowsLeft(r)' \subseteq RowsLeft(r) /\ RowsLeft(r)' # RowsLeft(r)
<1> USE DEF Goto
<1>1. CASE Resolve(r)
  <2>1. pc[r] = "resolve" /\ pc'[r] = "fetch"
    BY <1>1 DEF Resolve, TypeOK
  <2> QED
    BY <2>1 DEF StagesLeft
<1>2. CASE FetchAndSave(r)
  <2>1. pc[r] = "fetch" /\ pc'[r] = "delete" /\ kind'[r] = "types"
    BY <1>2 DEF FetchAndSave, FirstKind, TypeOK
  <2> QED
    BY <2>1 DEF StagesLeft
<1>3. CASE Delete(r) \/ Lock(r) \/ Insert(r)
  <2>1. CASE Delete(r)
    <3>1. kind'[r] = kind[r] /\ pc[r] = "delete" /\ pc'[r] = "lock"
      BY <2>1 DEF Delete, TypeOK
    <3> QED
      BY <3>1 DEF StagesLeft
  <2>2. CASE Lock(r)
    BY <2>2, LockOutcome DEF StagesLeft, RowsLeft
  <2>3. CASE Insert(r)
    BY <2>3, InsertOutcome DEF StagesLeft, RowsLeft, Pending
  <2> QED
    BY <1>3, <2>1, <2>2, <2>3
<1>4. CASE Commit(r)
  <2>1. pc[r] = "commit" /\ kind'[r] = KindAfter(kind[r]) /\ kind[r] \in Kinds
    BY <1>4 DEF Commit, InOrder, Progress, ReplaceStages, OpenStages, TypeOK
  <2>2. CASE kind[r] = "types"
    <3>1. pc'[r] = "delete" /\ kind'[r] = "apps"
      BY <1>4, <2>1, <2>2 DEF Commit, KindAfter, TypeOK
    <3> QED
      BY <2>1, <2>2, <3>1 DEF StagesLeft
  <2>3. CASE kind[r] = "apps"
    <3>1. pc'[r] = "queue"
      BY <1>4, <2>3 DEF Commit, KindAfter, TypeOK
    <3> QED
      BY <2>1, <2>3, <3>1 DEF StagesLeft
  <2> QED
    BY <2>1, <2>2, <2>3 DEF Kinds
<1>5. CASE FetchFails(r) \/ SaveFails(r) \/ ReplaceFails(r)
  <2>1. pc[r] \in {"fetch"} \union ReplaceStages
    BY <1>5 DEF FetchFails, SaveFails, ReplaceFails, Deadlocked, WaitsFor,
                ReplaceStages, OpenStages
  <2>2. pc'[r] = "queue"
    BY <1>5, Ends
  <2> QED
    BY <2>1, <2>2 DEF StagesLeft, ReplaceStages, OpenStages
<1>6. CASE Refuse(r) \/ Queue(r) \/ SyncDirectly(r)
  <2>1. pc[r] \in {"resolve", "queue"}
    BY <1>6 DEF Refuse, Queue, SyncDirectly
  <2>2. pc'[r] = "idle"
    BY <1>6, Ends
  <2> QED
    BY <2>1, <2>2 DEF StagesLeft
<1> QED
  BY <1>1, <1>2, <1>3, <1>4, <1>5, <1>6 DEF Step

\* A request is answered after at most eleven stages, with a step for each row
\* of a statement, and nothing that fails or is done by another takes it back
\* (admin.py:271-389).  With finite listings this is what makes every request end
\* that the database and the event loop go on serving (EveryRequestAnswered).
THEOREM RequestsAreBounded == Spec => [][EveryoneGetsOn]_vars
<1>1. TypeOK /\ InOrder /\ LockInv /\ [Next]_vars => [EveryoneGetsOn]_vars
  <2> SUFFICES ASSUME TypeOK, InOrder, LockInv, Next, NEW r \in Requests
               PROVE  GetsOn(r)
    BY DEF EveryoneGetsOn
  <2>1. Begin(r) => StagesLeft(r)' = 11
    BY DEF Begin, Goto, StagesLeft, TypeOK
  <2>2. Step(r) => \/ StagesLeft(r)' < StagesLeft(r)
                   \/ /\ StagesLeft(r)' = StagesLeft(r)
                      /\ RowsLeft(r)' \subseteq RowsLeft(r) /\ RowsLeft(r)' # RowsLeft(r)
    BY StepGetsOn
  <2>3. ~ Begin(r) => \/ StagesLeft(r)' < StagesLeft(r)
                      \/ StagesLeft(r)' = StagesLeft(r) /\ RowsLeft(r)' \subseteq RowsLeft(r)
    <3>1. CASE Crash
      <4>1. StagesLeft(r)' = 0 /\ RowsLeft(r)' = {}
        BY <3>1 DEF Crash, StagesLeft, RowsLeft
      <4>2. StagesLeft(r) \in Nat /\ (StagesLeft(r) = 0 => pc[r] = "idle")
        BY DEF StagesLeft
      <4> QED
        BY <4>1, <4>2
    <3>2. ASSUME NEW t \in Requests \ {r}, Begin(t) \/ Step(t)
          PROVE  StagesLeft(r)' = StagesLeft(r) /\ RowsLeft(r)' \subseteq RowsLeft(r)
      <4>1. /\ pc'[r] = pc[r] /\ kind'[r] = kind[r]
            /\ fetched'[r] = fetched[r] /\ added'[r] = added[r]
        BY <3>2, Locality
      <4>2. StagesLeft(r)' = StagesLeft(r)
        BY <4>1 DEF StagesLeft
      <4>3. Pending(r)' = Pending(r) /\ doomed'[r] \subseteq doomed[r]
        BY <3>2, <4>1, OthersHold DEF Pending
      <4>4. RowsLeft(r)' \subseteq RowsLeft(r)
        BY <4>1, <4>3 DEF RowsLeft
      <4> QED
        BY <4>2, <4>4
    <3> QED
      BY <2>2, <3>1, <3>2 DEF Next
  <2> QED
    BY <2>1, <2>2, <2>3 DEF GetsOn
<1> QED
  BY <1>1, OrderInvariant, LockInvariant, PTL DEF Spec
=============================================================================
