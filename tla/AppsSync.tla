------------------------------ MODULE AppsSync ------------------------------
(***************************************************************************)
(* POST /admin/sync-all (backend/routes/admin.py) with the applications    *)
(* service (services/cyperf_applications_service.py), by several requests  *)
(* at once.  A request resolves the endpoint, fetches the application      *)
(* types and the applications, saves both to files, replaces the one table *)
(* and then the other, each in a transaction of its own, and queues the    *)
(* sync of the strikes.  Fetching and saving never give up the event loop: *)
(* all of it is one step.  The statements of the replaces interleave as    *)
(* those of SyncEngine do.                                                 *)
(***************************************************************************)
EXTENDS Naturals

CONSTANTS
    Requests,   \* concurrent requests
    Ids,        \* ids of application types and applications
    Listings,   \* the sets of ids a controller may list
    Endpoints,  \* addresses an administrator may save
    Env,        \* cyperf_controller_ip, which the settings require
    Environ,    \* the same in the process's environment, None if only .env has it
    None,       \* no address
    Faults      \* what may fail, a subset of FaultKinds

FaultKinds == {"cyperf", "disk", "db", "crash"}

ASSUME AppsSyncAssumption ==
    /\ Listings \subseteq SUBSET Ids
    /\ None \notin Endpoints \union {Env}
    /\ Env \notin Endpoints
    /\ Environ \in {Env, None}
    /\ Faults \subseteq FaultKinds

Kinds == {"types", "apps"}

VARIABLES
    saved,     \* the endpoint in system_config, or None; EndpointConfig has its changes
    rows,      \* committed ids of each table
    files,     \* the ids in each JSON file
    pc,        \* the await each request is at
    kind,      \* the table a request is at
    endpoint,  \* the address a request has resolved
    fetched,   \* the listings it has fetched
    doomed,    \* rows the DELETE of its transaction matches and has not reached
    deleted,   \* rows its transaction has deleted
    added,     \* rows its transaction has inserted
    told,      \* apps_synced of its answer
    answer,    \* status of its last answer
    alone      \* no other request has been under way beside it

vars == <<saved, rows, files, pc, kind, endpoint, fetched, doomed, deleted, added,
          told, answer, alone>>

-----------------------------------------------------------------------------
(* Variants: plausible mistakes in the code, none of which it makes.       *)

\* Only the records that were fetched again are deleted.
MatchedRefetched(r) == rows[kind[r]] \intersect fetched[r][kind[r]]

\* A failing sync of the applications is tried again for ever.
AfterAppsFailureRetry == "resolve"

\* The second file is forgotten.
SavedKindsTypes == {"types"}

-----------------------------------------------------------------------------
Nothing == [k \in Kinds |-> {}]

FirstKind == "types"

\* The table replaced after k.
KindAfter(k) == IF k = "types" THEN "apps" ELSE "done"

Init ==
    /\ saved \in Endpoints \union {None}
    /\ rows = Nothing
    /\ files = Nothing
    /\ pc = [r \in Requests |-> "idle"]
    /\ kind = [r \in Requests |-> "done"]
    /\ endpoint = [r \in Requests |-> None]
    /\ fetched = [r \in Requests |-> Nothing]
    /\ doomed = [r \in Requests |-> {}]
    /\ deleted = [r \in Requests |-> {}]
    /\ added = [r \in Requests |-> {}]
    /\ told = [r \in Requests |-> "nothing"]
    /\ answer = [r \in Requests |-> "none"]
    /\ alone = [r \in Requests |-> FALSE]

Goto(r, stage) == pc' = [pc EXCEPT ![r] = stage]

Respond(r, status) ==
    /\ Goto(r, "idle")
    /\ answer' = [answer EXCEPT ![r] = status]
    /\ fetched' = [fetched EXCEPT ![r] = Nothing]

\* What follows when the applications could not be synced: nothing but a log
\* entry and apps_synced["error"], then the strikes.
AfterAppsFailure == "queue"

AppsFail(r) ==
    /\ told' = [told EXCEPT ![r] = "error"]
    /\ fetched' = [fetched EXCEPT ![r] = Nothing]
    /\ Goto(r, AfterAppsFailure)

-----------------------------------------------------------------------------
Begin(r) ==
    /\ pc[r] = "idle"
    /\ told' = [told EXCEPT ![r] = "nothing"]
    /\ answer' = [answer EXCEPT ![r] = "none"]
    /\ endpoint' = [endpoint EXCEPT ![r] = None]
    /\ kind' = [kind EXCEPT ![r] = "done"]
    /\ alone' = [t \in Requests |-> t = r /\ \A u \in Requests : pc[u] = "idle"]
    /\ Goto(r, "resolve")
    /\ UNCHANGED <<saved, rows, files, fetched, doomed, deleted, added>>

\* What the table says when it can be read, else what the environment does.
Resolutions == {IF saved = None THEN Environ ELSE saved}
                  \union (IF "db" \in Faults THEN {Environ} ELSE {})

Resolve(r) ==
    /\ pc[r] = "resolve"
    /\ \E e \in Resolutions \ {None} : endpoint' = [endpoint EXCEPT ![r] = e]
    /\ Goto(r, "fetch")
    /\ UNCHANGED <<saved, rows, files, kind, fetched, doomed, deleted, added, told, answer, alone>>

Refuse(r) ==
    /\ pc[r] = "resolve"
    /\ None \in Resolutions
    /\ Respond(r, "http_400")
    /\ UNCHANGED <<saved, rows, files, kind, endpoint, doomed, deleted, added, told, alone>>

\* settings.cyperf_controller_ip or endpoint, where the setting is required.
Controller(r) == Env

SavedKinds == Kinds

FetchAndSave(r) ==
    /\ pc[r] = "fetch"
    /\ \E types, apps \in Listings :
          /\ fetched' = [fetched EXCEPT ![r]["types"] = types, ![r]["apps"] = apps]
          /\ files' = [k \in Kinds |-> IF k \in SavedKinds THEN fetched'[r][k] ELSE files[k]]
    /\ kind' = [kind EXCEPT ![r] = FirstKind]
    /\ Goto(r, "delete")
    /\ UNCHANGED <<saved, rows, endpoint, doomed, deleted, added, told, answer, alone>>

\* One of the two fetches fails, and neither file is touched.
FetchFails(r) ==
    /\ "cyperf" \in Faults
    /\ pc[r] = "fetch"
    /\ AppsFail(r)
    /\ UNCHANGED <<saved, rows, files, kind, endpoint, doomed, deleted, added, answer, alone>>

\* A file cannot be opened, or is left truncated.
SaveFails(r) ==
    /\ "disk" \in Faults
    /\ pc[r] = "fetch"
    /\ \/ \E left \in {files["types"], {}} : files' = [files EXCEPT !["types"] = left]
       \/ \E types \in Listings, left \in {files["apps"], {}} :
             files' = [k \in Kinds |-> IF k = "types" THEN types ELSE left]
    /\ AppsFail(r)
    /\ UNCHANGED <<saved, rows, kind, endpoint, doomed, deleted, added, answer, alone>>

-----------------------------------------------------------------------------
(* ingest_application_types and ingest_applications.                       *)

\* The others in a transaction on the table of r.
Rivals(r) ==
    {t \in Requests \ {r} : kind[t] = kind[r] /\ pc[t] \in {"lock", "insert", "commit"}}

\* The rows a DELETE without WHERE matches.
Matched(r) == rows[kind[r]]

Delete(r) ==
    /\ pc[r] = "delete"
    /\ doomed' = [doomed EXCEPT ![r] = Matched(r)]
    /\ Goto(r, "lock")
    /\ UNCHANGED <<saved, rows, files, kind, endpoint, fetched, deleted, added, told, answer, alone>>

LockRow(r, k) ==
    /\ \A t \in Rivals(r) : k \notin deleted[t]
    /\ doomed' = [doomed EXCEPT ![r] = @ \ {k}]
    /\ deleted' = [deleted EXCEPT ![r] = @ \union {k}]

Lock(r) ==
    /\ pc[r] = "lock"
    /\ \/ /\ \E k \in doomed[r] : LockRow(r, k)
          /\ UNCHANGED pc
       \/ /\ doomed[r] = {}
          /\ Goto(r, "insert")
          /\ UNCHANGED <<doomed, deleted>>
    /\ UNCHANGED <<saved, rows, files, kind, endpoint, fetched, added, told, answer, alone>>

\* What the INSERT has still to put in.
Pending(r) == fetched[r][kind[r]] \ added[r]

InsertRow(r, k) ==
    /\ k \notin rows[kind[r]] \ deleted[r]
    /\ \A t \in Rivals(r) : k \notin added[t]
    /\ added' = [added EXCEPT ![r] = @ \union {k}]

Insert(r) ==
    /\ pc[r] = "insert"
    /\ \/ /\ \E k \in Pending(r) : InsertRow(r, k)
          /\ UNCHANGED pc
       \/ /\ Pending(r) = {}
          /\ Goto(r, "commit")
          /\ UNCHANGED added
    /\ UNCHANGED <<saved, rows, files, kind, endpoint, fetched, doomed, deleted, told, answer, alone>>

\* A row to insert is there already, and nobody is about to take it away.
Duplicates(r) ==
    Pending(r) \intersect
        (rows[kind[r]] \ UNION {deleted[t] : t \in {r} \union Rivals(r)}) # {}

\* A row r has still to delete or to insert is held by t.
WaitsFor(r, t) ==
    /\ t \in Rivals(r)
    /\ \/ pc[r] = "lock" /\ doomed[r] \intersect deleted[t] # {}
       \/ pc[r] = "insert" /\ Pending(r) \intersect (deleted[t] \union added[t]) # {}

\* r is one of several that wait for each other.
Deadlocked(r) ==
    \E ring \in SUBSET Requests :
       /\ r \in ring
       /\ \A t \in ring : (\E u \in ring : WaitsFor(t, u)) /\ (\E u \in ring : WaitsFor(u, t))

\* Deleted rows are gone for a DELETE that has not reached them.
Commit(r) ==
    /\ pc[r] = "commit"
    /\ rows' = [rows EXCEPT ![kind[r]] = (@ \ deleted[r]) \union added[r]]
    /\ doomed' = [t \in Requests |->
                     IF kind[t] = kind[r] THEN doomed[t] \ deleted[r] ELSE doomed[t]]
    /\ deleted' = [deleted EXCEPT ![r] = {}]
    /\ added' = [added EXCEPT ![r] = {}]
    /\ kind' = [kind EXCEPT ![r] = KindAfter(kind[r])]
    /\ \/ KindAfter(kind[r]) # "done" /\ Goto(r, "delete") /\ UNCHANGED told
       \/ /\ KindAfter(kind[r]) = "done"
          /\ told' = [told EXCEPT ![r] = "counts"]
          /\ Goto(r, "queue")
    /\ UNCHANGED <<saved, files, endpoint, fetched, answer, alone>>

\* A duplicate id in the table, a deadlock of which PostgreSQL picks this
\* transaction to end it, or any other error of the database, such as a
\* duplicate in a listing that changed between two of its pages.
ReplaceFails(r) ==
    /\ \/ pc[r] = "insert" /\ Duplicates(r)
       \/ Deadlocked(r)
       \/ pc[r] \in {"delete", "lock", "insert", "commit"} /\ "db" \in Faults
    /\ AppsFail(r)
    /\ doomed' = [doomed EXCEPT ![r] = {}]
    /\ deleted' = [deleted EXCEPT ![r] = {}]
    /\ added' = [added EXCEPT ![r] = {}]
    /\ UNCHANGED <<saved, rows, files, kind, endpoint, answer, alone>>

-----------------------------------------------------------------------------
(* The strikes, see SyncEngine.                                            *)

Queue(r) ==
    /\ pc[r] = "queue"
    /\ Respond(r, "sync_queued")
    /\ UNCHANGED <<saved, rows, files, kind, endpoint, doomed, deleted, added, told, alone>>

\* Without a scheduler perform_sync runs before the answer, and seldom raises.
SyncDirectly(r) ==
    /\ pc[r] = "queue"
    /\ \/ Respond(r, "sync_completed")
       \/ "db" \in Faults /\ Respond(r, "http_500")
    /\ UNCHANGED <<saved, rows, files, kind, endpoint, doomed, deleted, added, told, alone>>

\* The process ends, with all its requests and transactions.
Crash ==
    /\ "crash" \in Faults
    /\ \E r \in Requests : pc[r] # "idle"
    /\ pc' = [r \in Requests |-> "idle"]
    /\ fetched' = [r \in Requests |-> Nothing]
    /\ doomed' = [r \in Requests |-> {}]
    /\ deleted' = [r \in Requests |-> {}]
    /\ added' = [r \in Requests |-> {}]
    /\ told' = [r \in Requests |-> "nothing"]
    /\ UNCHANGED <<saved, rows, files, kind, endpoint, answer, alone>>

Step(r) ==
    \/ Resolve(r) \/ Refuse(r) \/ FetchAndSave(r) \/ FetchFails(r) \/ SaveFails(r)
    \/ Delete(r) \/ Lock(r) \/ Insert(r) \/ Commit(r) \/ ReplaceFails(r)
    \/ Queue(r) \/ SyncDirectly(r)

Next == Crash \/ \E r \in Requests : Begin(r) \/ Step(r)

Spec == Init /\ [][Next]_vars

\* As in SyncEngine: statements return or fail, row locks are granted in turn and
\* deadlocks found.
Fairness == \A r \in Requests : SF_vars(Step(r))

FairSpec == Spec /\ Fairness

-----------------------------------------------------------------------------
(* Properties.                                                             *)

TypeOK ==
    /\ saved \in Endpoints \union {None}
    /\ rows \in [Kinds -> SUBSET Ids]
    /\ files \in [Kinds -> SUBSET Ids]
    /\ pc \in [Requests -> {"idle", "resolve", "fetch", "delete", "lock", "insert",
                            "commit", "queue"}]
    /\ kind \in [Requests -> Kinds \union {"done"}]
    /\ endpoint \in [Requests -> Endpoints \union {Env, None}]
    /\ fetched \in [Requests -> [Kinds -> SUBSET Ids]]
    /\ doomed \in [Requests -> SUBSET Ids]
    /\ deleted \in [Requests -> SUBSET Ids]
    /\ added \in [Requests -> SUBSET Ids]
    /\ told \in [Requests -> {"nothing", "counts", "error"}]
    /\ alone \in [Requests -> BOOLEAN]
    /\ answer \in [Requests -> {"none", "sync_queued", "sync_completed", "http_400", "http_500"}]

\* Whether r has replaced table k.
Replaced(r, k) == told[r] = "counts" \/ (k = "types" /\ kind[r] = "apps")

Phase(r, k) ==
    CASE pc[r] = "idle" -> "idle"
      [] pc[r] # "idle" /\ Replaced(r, k) -> "published"
      [] OTHER -> "running"

Types == INSTANCE SyncContract
             WITH Syncs <- Requests, Results <- Listings, NoRows <- {},
                  store <- rows["types"], phase <- [r \in Requests |-> Phase(r, "types")]

Apps == INSTANCE SyncContract
            WITH Syncs <- Requests, Results <- Listings, NoRows <- {},
                 store <- rows["apps"], phase <- [r \in Requests |-> Phase(r, "apps")]

\* Each of the two tables always holds one whole fetch, which a request puts
\* there at most once and only while it is under way: overlapping full
\* replaces, failures and crashes never mix their rows
\* (ingest_application_types and ingest_applications).  As for the strikes this
\* needs listings that share an id or are empty.
TablesReplacedWhole == Types!Spec /\ Apps!Spec

\* Whatever fails, the request goes on to the strikes and is answered, and no
\* two transactions wait for each other for ever ("Non-fatal: log and continue
\* to CVE sync", admin.py:328).
EveryRequestAnswered == \A r \in Requests : pc[r] # "idle" ~> pc[r] = "idle"

\* After a request that nobody else's disturbed, an answer with counts means
\* that both tables and both files hold the same records, whatever an earlier
\* one has left half done (admin.py:310-321).
CountsAreHeld ==
    \A r \in Requests : alone[r] /\ pc[r] = "idle" /\ told[r] = "counts" => rows = files

(* What the documentation says and the code does not do.                   *)

\* "Set CyPerf Controller IP at runtime" (README.md:153): the applications
\* come from the endpoint that the answer names.
AppsFromEndpoint == \A r \in Requests : told[r] = "counts" => endpoint[r] = Controller(r)
=============================================================================
