--------------------------- MODULE EndpointConfig ---------------------------
(***************************************************************************)
(* GET and POST /admin/config/cyperf-endpoint (backend/routes/admin.py):   *)
(* the endpoint setting lives in the system_config table and is cached in  *)
(* Redis for an hour.  Requests interleave at every await: a GET looks in  *)
(* the cache, then in the table, then fills the cache; a POST validates,   *)
(* selects the row, writes and commits it, deletes the cache entry and     *)
(* sets it again.  Redis and the database may fail at any call.            *)
(***************************************************************************)
EXTENDS Naturals, FiniteSets

CONSTANTS
    Gets,       \* concurrent GET requests
    Posts,      \* concurrent POST requests
    Endpoints,  \* controller addresses an administrator may enter
    Env,        \* CYPERF_CONTROLLER_IP, or None when it is not set
    None,       \* no value
    Faults      \* the services that may fail, a subset of {"redis", "db"}

ASSUME EndpointAssumption ==
    /\ None \notin Endpoints
    /\ Env \notin Endpoints
    /\ Gets \intersect Posts = {}
    /\ Faults \subseteq {"redis", "db"}

VARIABLES
    db,      \* the committed config_value, or None without a row
    cache,   \* the Redis entry, or None
    pc,      \* the await each request is at
    local,   \* the endpoint a request holds: looked up, or to be saved
    cached,  \* whether a GET still has its cache client
    answer   \* the endpoint in the response to the last GET, None until then

vars == <<db, cache, pc, local, cached, answer>>

Requests == Gets \union Posts
Values == Endpoints \union {None}

-----------------------------------------------------------------------------
(* Variants: plausible mistakes in the code, none of which it makes.       *)

\* The environment value is treated as if it had been read from the table.
LookedUpOrEnv == IF db = None THEN Env ELSE db

\* The entry is written without an expiry.
ExpirableNever == FALSE

-----------------------------------------------------------------------------
Init ==
    /\ db = None
    /\ cache = None
    /\ pc = [r \in Requests |-> "idle"]
    /\ local = [r \in Requests |-> None]
    /\ cached = [g \in Gets |-> FALSE]
    /\ answer = [g \in Gets |-> None]

Goto(r, stage) == pc' = [pc EXCEPT ![r] = stage]

Return(r) ==
    /\ Goto(r, "idle")
    /\ local' = [local EXCEPT ![r] = None]

Respond(g, endpoint) ==
    /\ Return(g)
    /\ answer' = [answer EXCEPT ![g] = endpoint]

OrEnv(endpoint) == IF endpoint = None THEN Env ELSE endpoint

-----------------------------------------------------------------------------
(* GET.                                                                    *)

Get(g) ==
    /\ pc[g] = "idle"
    /\ Goto(g, "lookup")
    /\ answer' = [answer EXCEPT ![g] = None]
    /\ UNCHANGED <<db, cache, local, cached>>

CacheHit(g) ==
    /\ pc[g] = "lookup"
    /\ cache # None
    /\ Respond(g, cache)
    /\ UNCHANGED <<db, cache, cached>>

\* The cache is empty, or Redis fails and the request goes on without it.
CacheMiss(g) ==
    /\ pc[g] = "lookup"
    /\ \/ cache = None /\ cached' = [cached EXCEPT ![g] = TRUE]
       \/ "redis" \in Faults /\ cached' = [cached EXCEPT ![g] = FALSE]
    /\ Goto(g, "read")
    /\ UNCHANGED <<db, cache, local, answer>>

\* What SystemConfig.get_value returns.
LookedUp == db

ReadDb(g) ==
    /\ pc[g] = "read"
    /\ LET found == LookedUp IN
       \/ /\ found # None /\ cached[g]
          /\ local' = [local EXCEPT ![g] = found]
          /\ Goto(g, "fill")
          /\ UNCHANGED answer
       \/ /\ found = None \/ ~ cached[g]
          /\ Respond(g, OrEnv(found))
    /\ UNCHANGED <<db, cache, cached>>

ReadDbFails(g) ==
    /\ "db" \in Faults
    /\ pc[g] = "read"
    /\ Respond(g, Env)
    /\ UNCHANGED <<db, cache, cached>>

\* The fill is best effort; a failing one is ignored.
FillCache(g) ==
    /\ pc[g] = "fill"
    /\ \/ cache' = local[g]
       \/ "redis" \in Faults /\ UNCHANGED cache
    /\ Respond(g, local[g])
    /\ UNCHANGED <<db, cached>>

-----------------------------------------------------------------------------
(* POST.                                                                   *)

Post(p) ==
    /\ pc[p] = "idle"
    /\ \E e \in Endpoints : local' = [local EXCEPT ![p] = e]
    /\ Goto(p, "validate")
    /\ UNCHANGED <<db, cache, cached, answer>>

Reachable(p) ==
    /\ pc[p] = "validate"
    /\ Goto(p, "select")
    /\ UNCHANGED <<db, cache, local, cached, answer>>

\* HTTP 400.
Unreachable(p) ==
    /\ pc[p] = "validate"
    /\ Return(p)
    /\ UNCHANGED <<db, cache, cached, answer>>

\* set_value looks for the row to decide between INSERT and UPDATE; an equal
\* value makes the record no different, and the flush then writes nothing.
SelectRow(p) ==
    /\ pc[p] = "select"
    /\ Goto(p, CASE db = None -> "insert"
                 [] db = local[p] -> "same"
                 [] OTHER -> "update")
    /\ UNCHANGED <<db, cache, local, cached, answer>>

Save(p) ==
    /\ \/ pc[p] = "insert" /\ db = None
       \/ pc[p] = "update"
    /\ db' = local[p]
    /\ Goto(p, "invalidate")
    /\ UNCHANGED <<cache, local, cached, answer>>

SaveNothing(p) ==
    /\ pc[p] = "same"
    /\ Goto(p, "invalidate")
    /\ UNCHANGED <<db, cache, local, cached, answer>>

\* HTTP 500: config_key is unique, or the database fails.
SaveFails(p) ==
    /\ \/ pc[p] = "insert" /\ db # None
       \/ "db" \in Faults /\ pc[p] \in {"select", "insert", "update", "same"}
    /\ Return(p)
    /\ UNCHANGED <<db, cache, cached, answer>>

Invalidate(p) ==
    /\ pc[p] = "invalidate"
    /\ cache' = None
    /\ Goto(p, "refill")
    /\ UNCHANGED <<db, local, cached, answer>>

Refill(p) ==
    /\ pc[p] = "refill"
    /\ cache' = local[p]
    /\ Return(p)
    /\ UNCHANGED <<db, cached, answer>>

\* Either Redis call fails: HTTP 200 all the same, the cache as it is.
CacheUpdateFails(p) ==
    /\ "redis" \in Faults
    /\ pc[p] \in {"invalidate", "refill"}
    /\ Return(p)
    /\ UNCHANGED <<db, cache, cached, answer>>

-----------------------------------------------------------------------------
\* Both writers of the entry give it an expiry.
Expirable == cache # None

Expire ==
    /\ Expirable
    /\ cache' = None
    /\ UNCHANGED <<db, pc, local, cached, answer>>

GetStep(g) ==
    CacheHit(g) \/ CacheMiss(g) \/ ReadDb(g) \/ ReadDbFails(g) \/ FillCache(g)

PostStep(p) ==
    \/ Reachable(p) \/ Unreachable(p) \/ SelectRow(p)
    \/ Save(p) \/ SaveNothing(p) \/ SaveFails(p)
    \/ Invalidate(p) \/ Refill(p) \/ CacheUpdateFails(p)

Next ==
    \/ Expire
    \/ \E g \in Gets : Get(g) \/ GetStep(g)
    \/ \E p \in Posts : Post(p) \/ PostStep(p)

Spec == Init /\ [][Next]_vars

\* Redis expires the entry and every request runs to its end; nobody has to
\* send one.
Fairness ==
    /\ WF_vars(Expire)
    /\ \A g \in Gets : WF_vars(GetStep(g))
    /\ \A p \in Posts : WF_vars(PostStep(p))

FairSpec == Spec /\ Fairness

-----------------------------------------------------------------------------
(* Properties.                                                             *)

TypeOK ==
    /\ db \in Values
    /\ cache \in Values
    /\ pc \in [Requests -> {"idle", "lookup", "read", "fill", "validate", "select",
                             "insert", "update", "same", "invalidate", "refill"}]
    /\ local \in [Requests -> Values]
    /\ cached \in [Gets -> BOOLEAN]
    /\ answer \in [Gets -> Values \union {Env}]

\* The environment's address is a fallback only: it never gets into the cache,
\* so no GET that ends after an endpoint has been saved answers with it
\* (admin.py:86-91), unless its own read of the table fails.
SavedBeatsEnv ==
    [][\A g \in Gets : db # None /\ pc[g] # "idle" /\ pc'[g] = "idle" /\ ~ ReadDbFails(g)
                         => answer'[g] # Env]_vars

\* A cache entry that a slow GET, a second POST or a Redis failure has left
\* stale does not stay: once nobody saves any more, the cache is in the end
\* empty or equal to the table for good, because every writer of the entry
\* gives it an expiry (admin.py:75-77 and 161).
StaleCacheHeals ==
    <>[](\A p \in Posts : pc[p] = "idle") => <>[](cache \in {None, db})

\* "Prevents stale reads: delete-before-set ensures no window where the old
\* cached value would be served to concurrent GET requests"
\* (test_cyperf_endpoint_integration.py:287): when no POST is active the cache
\* does not hold an old value.
FreshWhenQuiet ==
    (\A p \in Posts : pc[p] = "idle") => cache \in {None, db}
=============================================================================
