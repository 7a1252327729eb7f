---------------------------- MODULE TableReaders ----------------------------
(***************************************************************************)
(* The routes that read the strike tables in more than one statement, next *)
(* to syncs that replace them: GET /ai-cves (routes/ai_cves.py), GET       *)
(* /cve/latest and the wildcard search of GET /cve/search (search_cves,    *)
(* get_latest_cves and _search_by_prefix of services/cve_service.py).      *)
(* Each statement reads the rows committed by then.  The syncs are those   *)
(* of SyncContract, which SyncEngine implements.  Readers only read, so    *)
(* one client stands for all: it asks for a listing page by page until a   *)
(* page is empty.                                                          *)
(***************************************************************************)
EXTENDS Naturals, FiniteSets

CONSTANTS
    Syncs,        \* jobs that replace the tables
    Results,      \* what they may put there
    Cves,         \* CVE ids, as numbers in the order of the ids
    Published,    \* the date of each CVE, a number
    Severe,       \* the CVEs NVD gives the severity that is asked for
    AiStrikes,    \* strikes without a CVE
    Genuine,      \* those whose references make them AI strikes
    Typed,        \* those of the strike_type that is asked for
    Limits,       \* page sizes
    MaxPage,      \* pages of a walk, a bound of the model
    PrefixLimit   \* rows of a wildcard search, 50 in the code

Contents == [cve : SUBSET Cves, ai : SUBSET AiStrikes]

NoRows == [cve |-> {}, ai |-> {}]

ASSUME ReadersAssumption ==
    /\ Results \subseteq Contents
    /\ Cves \subseteq Nat /\ IsFiniteSet(Cves)
    /\ IsFiniteSet(AiStrikes)
    /\ Published \in [Cves -> Nat]
    /\ Severe \subseteq Cves
    /\ Genuine \subseteq AiStrikes /\ Typed \subseteq AiStrikes
    /\ Limits \subseteq Nat \ {0} /\ Limits # {}
    /\ MaxPage \in Nat \ {0} /\ PrefixLimit \in Nat \ {0}

VARIABLES
    store,     \* the mappings and the AI strikes that are committed
    phase,     \* of the syncs
    known,     \* CVEs with a row in the cves table
    pc,        \* the statement the request is at
    query,     \* its parameters
    found,     \* ids or strikes of the page
    todo,      \* those whose details are still to be read
    metadata,  \* whether the CVE whose details are read has a row
    records,   \* the details read
    total,     \* total of the answer
    gathered,  \* what the pages of this walk have shown
    twice,     \* one of them was shown on two pages
    kept,      \* the CVEs that have been mapped since the walk began
    moved      \* a table has changed since the walk began

tables == <<store, phase, known>>
walk == <<gathered, twice, kept, moved>>
vars == <<tables, walk, pc, query, found, todo, metadata, records, total>>

Sync == INSTANCE SyncContract

-----------------------------------------------------------------------------
(* Variants: plausible mistakes in the code, none of which it makes.       *)

\* Pages are counted from zero.
OffsetFromZero(q) == q.page * q.limit

\* One row more is fetched, to see whether there is another page.
PageLengthPlusOne(q) == q.limit + 1

\* The first count is kept.
RecountedBefore == total

\* Only CVEs with metadata are listed.
PassesKnown(c, hasMetadata) == hasMetadata /\ (query.filter => c \in Severe)

\* The strikes are looked up for the first CVE only.
MappedFirst(ids) == {c \in ids : c \in store.cve /\ \A d \in ids : c <= d}

-----------------------------------------------------------------------------
\* filter stands for severity and ai_only, typed for strike_type.
Queries ==
    [route : {"ai", "latest", "prefix"}, page : 1 .. MaxPage, limit : Limits,
     filter : BOOLEAN, typed : BOOLEAN]

Record == [id : Cves, profiled : BOOLEAN, testable : BOOLEAN]

Init ==
    /\ Sync!Init
    /\ known \in SUBSET Cves
    /\ pc = "idle"
    /\ query = CHOOSE q \in Queries : q.page = 1
    /\ found = {} /\ todo = {} /\ records = {} /\ gathered = {}
    /\ metadata = FALSE /\ twice = FALSE /\ kept = {} /\ moved = FALSE
    /\ total = 0

Offset(q) == (q.page - 1) * q.limit

PageLength(q) == q.limit

\* OFFSET and LIMIT on n rows leave this many.
RowsLeft(q, n) ==
    IF n <= Offset(q) THEN 0
    ELSE IF n - Offset(q) < PageLength(q) THEN n - Offset(q) ELSE PageLength(q)

FirstStatement(route) ==
    CASE route = "ai" -> "count" [] route = "latest" -> "ids" [] route = "prefix" -> "rows"

Ask(q) ==
    /\ pc = "idle"
    /\ query' = q
    /\ pc' = FirstStatement(q.route)
    /\ found' = {} /\ todo' = {} /\ records' = {}
    /\ UNCHANGED <<tables, metadata, total>>

\* A walk over the pages begins.
FirstPage ==
    /\ \E q \in Queries : q.page = 1 /\ (q.route # "ai" => ~ q.typed) /\ Ask(q)
    /\ gathered' = {} /\ twice' = FALSE /\ kept' = store.cve /\ moved' = FALSE

NextPage ==
    /\ found # {}
    /\ query.route # "prefix"
    /\ query.page < MaxPage
    /\ Ask([query EXCEPT !.page = query.page + 1])
    /\ UNCHANGED walk

\* The response of a request that shows these ids.
Answer(shown) ==
    /\ pc' = "idle"
    /\ gathered' = gathered \union shown
    /\ twice' = (twice \/ gathered \intersect shown # {})
    /\ todo' = {} /\ metadata' = FALSE
    /\ UNCHANGED <<tables, query, kept, moved>>

-----------------------------------------------------------------------------
(* GET /ai-cves.                                                           *)

OfType == IF query.typed THEN store.ai \intersect Typed ELSE store.ai

Count ==
    /\ pc = "count"
    /\ total' = Cardinality(OfType)
    /\ pc' = "page"
    /\ UNCHANGED <<tables, walk, query, found, todo, metadata, records>>

\* All rows of one sync have the same created_at, so ordered by it they come
\* in any order, and in another one for the next page.
Page ==
    /\ pc = "page"
    /\ \E rows \in SUBSET OfType :
          /\ Cardinality(rows) = RowsLeft(query, Cardinality(OfType))
          /\ \/ query.filter /\ found' = rows \intersect Genuine /\ pc' = "recount"
                   /\ UNCHANGED <<tables, walk, query, todo, metadata>>
             \/ ~ query.filter /\ found' = rows /\ Answer(rows)
    /\ UNCHANGED <<records, total>>

Recounted == Cardinality(OfType \intersect Genuine)

Recount ==
    /\ pc = "recount"
    /\ total' = Recounted
    /\ Answer(found)
    /\ UNCHANGED <<found, records>>

-----------------------------------------------------------------------------
(* GET /cve/latest.                                                        *)

\* The page of the distinct ids in their order.
Slice(ids) ==
    {c \in ids : LET before == Cardinality({d \in ids : d < c}) IN
                 Offset(query) <= before /\ before < Offset(query) + PageLength(query)}

Ids ==
    /\ pc = "ids"
    /\ found' = Slice(store.cve)
    /\ \/ found' = {} /\ Answer({})
       \/ found' # {} /\ todo' = found' /\ pc' = "metadata"
             /\ UNCHANGED <<tables, walk, query, metadata>>
    /\ UNCHANGED <<records, total>>

NextId == CHOOSE c \in todo : \A d \in todo : c <= d

ReadMetadata ==
    /\ pc = "metadata"
    /\ metadata' = (NextId \in known)
    /\ pc' = "strikes"
    /\ UNCHANGED <<tables, walk, query, found, todo, records, total>>

\* Without metadata the record is made up, and testable by definition.
Latest(c) ==
    [id |-> c, profiled |-> c \in store.cve,
     testable |-> IF metadata THEN c \in store.cve ELSE TRUE]

\* The severity is that of the metadata.
Passes(c, hasMetadata) == query.filter => hasMetadata /\ c \in Severe

ReadStrikes ==
    /\ pc = "strikes"
    /\ \/ /\ Passes(NextId, metadata)
          /\ records' = records \union {Latest(NextId)}
          /\ UNCHANGED found
       \/ /\ ~ Passes(NextId, metadata)
          /\ found' = found \ {NextId}
          /\ UNCHANGED records
    /\ \/ todo # {NextId} /\ todo' = todo \ {NextId} /\ pc' = "metadata"
             /\ UNCHANGED <<tables, walk, query, metadata>>
       \/ todo = {NextId} /\ Answer(found')
    /\ UNCHANGED total

-----------------------------------------------------------------------------
(* GET /cve/search with a wildcard.                                        *)

\* The latest rows of the cves table that match.
Matching == {c \in known : Cardinality({d \in known : Published[d] > Published[c]}) < PrefixLimit}

Rows ==
    /\ pc = "rows"
    /\ found' = Matching
    /\ \/ found' = {} /\ Answer({})
       \/ found' # {} /\ pc' = "batch" /\ UNCHANGED <<tables, walk, query, todo, metadata>>
    /\ UNCHANGED <<records, total>>

Mapped(ids) == ids \intersect store.cve

Batch ==
    /\ pc = "batch"
    /\ found' = {c \in found : Passes(c, TRUE)}
    /\ records' = {[id |-> c, profiled |-> c \in Mapped(found), testable |-> c \in Mapped(found)]
                      : c \in found'}
    /\ Answer(found')
    /\ UNCHANGED total

-----------------------------------------------------------------------------
(* What happens elsewhere.                                                 *)

SyncStep ==
    /\ Sync!Next
    /\ moved' = (moved \/ store' # store)
    /\ kept' = kept \intersect store'.cve
    /\ UNCHANGED <<known, gathered, twice, pc, query, found, todo, metadata, records, total>>

\* A lookup has stored a CVE, see CveLookup.
Learn ==
    /\ \E c \in Cves \ known : known' = known \union {c}
    /\ moved' = TRUE
    /\ UNCHANGED <<store, phase, gathered, twice, kept, pc, query, found, todo, metadata, records, total>>

Next ==
    \/ FirstPage \/ NextPage
    \/ Count \/ Page \/ Recount
    \/ Ids \/ ReadMetadata \/ ReadStrikes
    \/ Rows \/ Batch
    \/ SyncStep \/ Learn

Spec == Init /\ [][Next]_vars

-----------------------------------------------------------------------------
(* Properties.                                                             *)

TypeOK ==
    /\ store \in Contents
    /\ phase \in [Syncs -> Sync!Phases]
    /\ known \subseteq Cves
    /\ pc \in {"idle", "count", "page", "recount", "ids", "metadata", "strikes", "rows", "batch"}
    /\ query \in Queries
    /\ found \subseteq Cves \/ found \subseteq AiStrikes
    /\ query.route # "prefix" => Cardinality(found) <= query.limit
    /\ todo \subseteq found
    /\ records \subseteq Record
    /\ {metadata, twice, moved} \subseteq BOOLEAN
    /\ total \in 0 .. Cardinality(AiStrikes)
    /\ gathered \subseteq Cves \/ gathered \subseteq AiStrikes
    /\ kept \subseteq Cves

Answered(route) == pc = "idle" /\ query.route = route

\* Without a sync in between, asking for page after page of the latest CVEs
\* until one is empty shows every mapped CVE, and none on two pages
\* (cve_service.py:139-150).
LatestWalkComplete ==
    Answered("latest") /\ found = {} /\ ~ query.filter /\ ~ moved
        => gathered = store.cve /\ ~ twice

\* "Get all" (routes/cve.py:161): a listing in one page shows every CVE that
\* has been mapped all the while, whatever syncs replace the table between
\* its statements.
GetAllShowsKept ==
    Answered("latest") /\ query.page = 1 /\ ~ query.filter
        /\ query.limit >= Cardinality(Cves)
        => kept \subseteq gathered

WantedAi == IF query.filter THEN OfType \intersect Genuine ELSE OfType

\* Without a sync in between, the total of the AI strikes counts the whole
\* table with both filters, and a page that can hold the table, as the site
\* asks for, shows all that is counted (ai_cves.py:76-103).
AiTotalCountsAll ==
    Answered("ai") /\ ~ moved =>
        /\ total = Cardinality(WantedAi)
        /\ found \subseteq WantedAi
        /\ query.page = 1 /\ query.limit >= Cardinality(store.ai) => found = WantedAi

\* Without a change in between, the made up records, those with metadata and
\* those of a wildcard search agree: testable says that there is a strike, and
\* the strikes are listed (cve_service.py:158-183, 263-292).
TestableMeansMapped ==
    pc = "idle" /\ ~ moved =>
        \A r \in records : r.testable = (r.id \in store.cve) /\ r.profiled = r.testable

(* What the comments and tests say and the code does not do.               *)

\* "sorted by published date (newest first)" (routes/cve.py:158): no CVE that
\* a walk has yet to show is newer than one it has shown.
LatestNewestFirst ==
    Answered("latest") /\ ~ query.filter /\ ~ moved =>
        \A c \in gathered, d \in store.cve \ gathered : Published[c] >= Published[d]

\* "No overlap between pages" (tests/test_ai_cves_endpoint.py:110).
AiPagesDisjoint == Answered("ai") /\ ~ moved => ~ twice

\* "attack_profiles: ... empty list if not testable" and "testable: true if at
\* least one strike covers this CVE" (models/cve.py:67-71), within one record.
RecordsAgree == pc = "idle" => \A r \in records : r.testable = r.profiled
=============================================================================
