----------------------------- MODULE CveLookup ------------------------------
(***************************************************************************)
(* Exact CVE lookups (GET /cve/search, get_cve and _fetch_and_cache of     *)
(* services/cve_service.py) of one CVE by concurrent requests: Redis       *)
(* first, then NVD with three tries, then the cves table as last resort.   *)
(* Every answer of NVD is stored, joined with the strikes and cached; an   *)
(* entry close to its expiry is served and refreshed in the background.    *)
(* NVD's record is known by its version, the strikes by whether there are  *)
(* any; both change while requests are under way.                          *)
(***************************************************************************)
EXTENDS Naturals

CONSTANTS
    Requests,      \* concurrent requests for the CVE
    MaxVersion,    \* versions NVD publishes, a bound of the model
    MaxSyncs,      \* syncs that change the strikes, a bound of the model
    MaxTries,      \* tries of fetch_cve_with_retry, 3 in the code
    Faults         \* what may go wrong, a subset of FaultKinds

\* absent:    Redis does not answer when the process starts.
\* withdrawn: NVD answers with no result for a CVE it has had.
FaultKinds == {"absent", "redis", "ratelimit", "nvd", "db", "withdrawn"}

ASSUME CveLookupAssumption ==
    /\ MaxVersion \in Nat
    /\ MaxSyncs \in Nat
    /\ MaxTries \in Nat \ {0}
    /\ Faults \subseteq FaultKinds

VARIABLES
    nvd,       \* version of NVD's record, 0 when it has none
    strikes,   \* whether the mapping table has a strike for the CVE
    syncs,     \* syncs that have changed it
    stored,    \* version in the cves table, 0 without a row
    redis,     \* whether lifespan has injected a Redis client
    entry,     \* the Redis entry, or Missing
    pc,        \* the await each request is at
    tries,     \* tries of NVD that have failed, while there is another
    record,    \* the record a request has in hand
    answered,  \* the request has responded and goes on in the background
    answer     \* the response to the last search, Missing until there is one

remote == <<nvd, strikes, syncs>>
vars == <<remote, redis, stored, entry, pc, tries, record, answered, answer>>

Versions == 0 .. MaxVersion
Cve == [version : Versions, testable : BOOLEAN]

\* Version 0 stands for no record: a cache miss, or HTTP 404.
Missing == [version |-> 0, testable |-> FALSE]

\* An exception that leaves the route as HTTP 500, a value no record has.
ServerError == [version |-> 0, testable |-> TRUE]

-----------------------------------------------------------------------------
(* Variants: plausible mistakes in the code, none of which it makes.       *)

\* The entry keeps the default of extract_cve_fields.
NotEnriched == FALSE

\* The cache is filled before the commit.
CachedEarly(r) == pc[r] \in {"insert", "update", "same", "cacheSet"}

\* The loop goes on without counting.
TriesKept(r) == tries[r]

-----------------------------------------------------------------------------
Init ==
    /\ nvd \in {0, 1} \intersect Versions
    /\ strikes \in BOOLEAN
    /\ syncs = 0
    /\ redis \in IF "absent" \in Faults THEN BOOLEAN ELSE {TRUE}
    /\ stored = 0
    /\ entry = Missing
    /\ pc = [r \in Requests |-> "idle"]
    /\ tries = [r \in Requests |-> 0]
    /\ record = [r \in Requests |-> Missing]
    /\ answered = [r \in Requests |-> FALSE]
    /\ answer = [r \in Requests |-> Missing]

Goto(r, stage) == pc' = [pc EXCEPT ![r] = stage]

\* The request ends with a response, the background refresh without one.
Finish(r, result) ==
    /\ Goto(r, "idle")
    /\ answer' = IF answered[r] THEN answer ELSE [answer EXCEPT ![r] = result]
    /\ answered' = [answered EXCEPT ![r] = FALSE]
    /\ record' = [record EXCEPT ![r] = Missing]
    /\ tries' = [tries EXCEPT ![r] = 0]

-----------------------------------------------------------------------------
(* The cache.                                                              *)

Search(r) ==
    /\ pc[r] = "idle"
    /\ redis
    /\ answer' = [answer EXCEPT ![r] = Missing]
    /\ Goto(r, "cacheGet")
    /\ UNCHANGED <<remote, redis, stored, entry, tries, record, answered>>

\* get_redis has no client to inject.
SearchWithoutRedis(r) ==
    /\ pc[r] = "idle"
    /\ ~ redis
    /\ Finish(r, ServerError)
    /\ UNCHANGED <<remote, redis, stored, entry>>

CacheHit(r) ==
    /\ pc[r] = "cacheGet"
    /\ entry # Missing
    /\ record' = [record EXCEPT ![r] = entry]
    /\ Goto(r, "ttl")
    /\ UNCHANGED <<remote, redis, stored, entry, tries, answered, answer>>

CacheMiss(r) ==
    /\ pc[r] = "cacheGet"
    /\ entry = Missing \/ "redis" \in Faults
    /\ Goto(r, "nvd")
    /\ UNCHANGED <<remote, redis, stored, entry, tries, record, answered, answer>>

\* Fresh enough.
ServeFresh(r) ==
    /\ pc[r] = "ttl"
    /\ Finish(r, record[r])
    /\ UNCHANGED <<remote, redis, stored, entry>>

\* Less than four hours left, or Redis did not say: respond, then refresh.
ServeStale(r) ==
    /\ pc[r] = "ttl"
    /\ answer' = [answer EXCEPT ![r] = record[r]]
    /\ answered' = [answered EXCEPT ![r] = TRUE]
    /\ record' = [record EXCEPT ![r] = Missing]
    /\ Goto(r, "nvd")
    /\ UNCHANGED <<remote, redis, stored, entry, tries>>

-----------------------------------------------------------------------------
(* NVD.                                                                    *)

\* fetch_cve_with_retry returns or raises.
EndTries(r) == tries' = [tries EXCEPT ![r] = 0]

NvdFound(r) ==
    /\ pc[r] = "nvd"
    /\ nvd # 0
    /\ record' = [record EXCEPT ![r] = [version |-> nvd, testable |-> FALSE]]
    /\ EndTries(r)
    /\ Goto(r, "rowGet")
    /\ UNCHANGED <<remote, redis, stored, entry, answered, answer>>

NvdEmpty(r) ==
    /\ pc[r] = "nvd"
    /\ nvd = 0 \/ "withdrawn" \in Faults
    /\ Finish(r, Missing)
    /\ UNCHANGED <<remote, redis, stored, entry>>

NextTry(r) == tries[r] + 1
MayTry(n) == n < MaxTries

RateLimited(r) ==
    /\ "ratelimit" \in Faults
    /\ pc[r] = "nvd"
    /\ \/ /\ MayTry(NextTry(r))
          /\ tries' = [tries EXCEPT ![r] = NextTry(r)]
          /\ Goto(r, "backoff")
       \/ /\ ~ MayTry(NextTry(r))
          /\ EndTries(r)
          /\ Goto(r, "fallback")
    /\ UNCHANGED <<remote, redis, stored, entry, record, answered, answer>>

Retry(r) ==
    /\ pc[r] = "backoff"
    /\ Goto(r, "nvd")
    /\ UNCHANGED <<remote, redis, stored, entry, tries, record, answered, answer>>

NvdFails(r) ==
    /\ "nvd" \in Faults
    /\ pc[r] = "nvd"
    /\ EndTries(r)
    /\ Goto(r, "fallback")
    /\ UNCHANGED <<remote, redis, stored, entry, record, answered, answer>>

-----------------------------------------------------------------------------
(* The cves table.                                                         *)

\* _upsert_cve looks for the row; an equal record flushes nothing.
RowGet(r) ==
    /\ pc[r] = "rowGet"
    /\ Goto(r, CASE stored = 0 -> "insert"
                 [] stored = record[r].version -> "same"
                 [] OTHER -> "update")
    /\ UNCHANGED <<remote, redis, stored, entry, tries, record, answered, answer>>

CommitRow(r) ==
    /\ \/ pc[r] = "insert" /\ stored = 0 /\ stored' = record[r].version
       \/ pc[r] = "update" /\ stored' = record[r].version
       \/ pc[r] = "same" /\ UNCHANGED stored
    /\ Goto(r, "strikes")
    /\ UNCHANGED <<remote, redis, entry, tries, record, answered, answer>>

\* Another request has inserted the row, or the database fails.  The session
\* then refuses every statement until somebody rolls it back, and nobody does;
\* after a failed SELECT the next one may work on some databases.
DatabaseFails(r) ==
    /\ \/ pc[r] = "insert" /\ stored # 0 /\ Goto(r, "broken")
       \/ "db" \in Faults /\ pc[r] \in {"insert", "update", "same"} /\ Goto(r, "broken")
       \/ /\ "db" \in Faults /\ pc[r] \in {"rowGet", "strikes"}
          /\ \E stage \in {"broken", "fallback"} : Goto(r, stage)
    /\ record' = [record EXCEPT ![r] = Missing]
    /\ UNCHANGED <<remote, redis, stored, entry, tries, answered, answer>>

\* attack_profiles and testable, as selected from the mapping table.
Enriched == strikes

ReadStrikes(r) ==
    /\ pc[r] = "strikes"
    /\ record' = [record EXCEPT ![r].testable = Enriched]
    /\ Goto(r, "cacheSet")
    /\ UNCHANGED <<remote, redis, stored, entry, tries, answered, answer>>

\* Where cache.set stands in _fetch_and_cache.
Caches(r) == pc[r] = "cacheSet"

CacheSet(r) ==
    /\ Caches(r)
    /\ entry' = record[r] \/ ("redis" \in Faults /\ UNCHANGED entry)
    /\ Finish(r, record[r])
    /\ UNCHANGED <<remote, redis, stored>>

-----------------------------------------------------------------------------
(* The last resort, _get_from_db.                                          *)

Fallback(r) ==
    /\ pc[r] = "fallback"
    /\ stored # 0
    /\ record' = [record EXCEPT ![r] = [version |-> stored, testable |-> FALSE]]
    /\ Goto(r, "fallbackStrikes")
    /\ UNCHANGED <<remote, redis, stored, entry, tries, answered, answer>>

FallbackEmpty(r) ==
    /\ pc[r] = "fallback"
    /\ stored = 0
    /\ Finish(r, Missing)
    /\ UNCHANGED <<remote, redis, stored, entry>>

FallbackStrikes(r) ==
    /\ pc[r] = "fallbackStrikes"
    /\ Finish(r, [record[r] EXCEPT !.testable = strikes])
    /\ UNCHANGED <<remote, redis, stored, entry>>

FallbackFails(r) ==
    /\ \/ pc[r] = "broken"
       \/ "db" \in Faults /\ pc[r] \in {"fallback", "fallbackStrikes"}
    /\ Finish(r, ServerError)
    /\ UNCHANGED <<remote, redis, stored, entry>>

-----------------------------------------------------------------------------
(* What happens elsewhere.                                                 *)

Publish ==
    /\ nvd < MaxVersion
    /\ nvd' = nvd + 1
    /\ UNCHANGED <<strikes, syncs, redis, stored, entry, pc, tries, record, answered, answer>>

Sync ==
    /\ syncs < MaxSyncs
    /\ syncs' = syncs + 1
    /\ strikes' = ~ strikes
    /\ UNCHANGED <<nvd, redis, stored, entry, pc, tries, record, answered, answer>>

Expire ==
    /\ entry # Missing
    /\ entry' = Missing
    /\ UNCHANGED <<remote, redis, stored, pc, tries, record, answered, answer>>

Step(r) ==
    \/ CacheHit(r) \/ CacheMiss(r) \/ ServeFresh(r) \/ ServeStale(r)
    \/ NvdFound(r) \/ NvdEmpty(r) \/ RateLimited(r) \/ Retry(r) \/ NvdFails(r)
    \/ RowGet(r) \/ CommitRow(r) \/ DatabaseFails(r) \/ ReadStrikes(r) \/ CacheSet(r)
    \/ Fallback(r) \/ FallbackEmpty(r) \/ FallbackStrikes(r) \/ FallbackFails(r)

Next ==
    \/ Publish \/ Sync \/ Expire
    \/ \E r \in Requests : Search(r) \/ SearchWithoutRedis(r) \/ Step(r)

Spec == Init /\ [][Next]_vars

\* Every await returns or raises, and Redis expires the entry.
Fairness == WF_vars(Expire) /\ \A r \in Requests : WF_vars(Step(r))

FairSpec == Spec /\ Fairness

-----------------------------------------------------------------------------
(* Properties.                                                             *)

TypeOK ==
    /\ nvd \in Versions
    /\ strikes \in BOOLEAN
    /\ redis \in BOOLEAN
    /\ syncs \in 0 .. MaxSyncs
    /\ stored \in Versions
    /\ entry \in Cve
    /\ pc \in [Requests -> {"idle", "cacheGet", "ttl", "nvd", "backoff", "rowGet", "insert", "update",
                            "same", "strikes", "cacheSet", "broken", "fallback",
                            "fallbackStrikes"}]
    /\ tries \in [Requests -> 0 .. MaxTries - 1]
    /\ record \in [Requests -> Cve]
    /\ answered \in [Requests -> BOOLEAN]
    /\ answer \in [Requests -> Cve]

\* "Never returns None due to NVD rate-limit if a cached copy exists"
\* (cve_service.py:62): when a request gives up with no record after the last
\* resort, the cache has none either.  Holds because a record is committed
\* before it is cached, even if Redis loses the lookup or expires the entry.
CachedCopyIsFound ==
    [][\A r \in Requests :
          pc[r] = "fallback" /\ pc'[r] = "idle" /\ ~ answered[r] /\ answer'[r] = Missing
             => entry = Missing]_vars

\* Once NVD and the strikes stop changing, the cache in the end holds nothing
\* that disagrees with them: late fills, lost updates of the table and syncs
\* that leave the cache alone are all undone by the expiry
\* (cache_service.py:20-36).
EntryCatchesUp ==
    <>[](entry \in {Missing, [version |-> nvd, testable |-> strikes]})

\* A search is answered: retries are bounded.
EverySearchEnds == \A r \in Requests : pc[r] # "idle" ~> pc[r] = "idle"

(* What the comments of the code say and the code does not do.             *)

\* "they do not raise infrastructure exceptions" (cve_service.py:4-5), "Redis
\* unavailability must NOT propagate as an API error" (cache_service.py:8).
NeverRaises == \A r \in Requests : answer[r] # ServerError

\* "Returns None only if CVE is not found anywhere" (cve_service.py:217).
NotFoundMeansNowhere ==
    [][\A r \in Requests :
          pc[r] # "idle" /\ pc'[r] = "idle" /\ ~ answered[r] /\ answer'[r] = Missing
             => stored = 0]_vars
=============================================================================
