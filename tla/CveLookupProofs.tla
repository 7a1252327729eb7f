-------------------------- MODULE CveLookupProofs ---------------------------
(***************************************************************************)
(* Proofs about CveLookup, for any number of concurrent requests, versions *)
(* and tries and every set of faults.                                      *)
(***************************************************************************)
EXTENDS CveLookup, TLAPS

\* A record is in the table before it gets to the cache.
StoredFirst ==
    /\ entry # Missing => stored # 0
    /\ \A r \in Requests :
          pc[r] \in {"rowGet", "insert", "update", "same"} => record[r].version # 0
    /\ \A r \in Requests :
          pc[r] \in {"update", "same", "strikes", "cacheSet"} => stored # 0

LookupInv == TypeOK /\ StoredFirst

-----------------------------------------------------------------------------
\* The two distinguished answers are records like any other and differ.
LEMMA Records == Missing \in Cve /\ ServerError \in Cve /\ Missing # ServerError
BY CveLookupAssumption DEF Missing, ServerError, Cve, Versions

\* The initial states satisfy the invariant.
LEMMA LookupInit == Init => LookupInv
<1> SUFFICES ASSUME Init PROVE LookupInv
  OBVIOUS
<1> USE CveLookupAssumption
<1>1. TypeOK
  <2>1. redis \in BOOLEAN
    BY DEF Init
  <2>2. nvd \in Versions /\ stored \in Versions /\ syncs \in 0 .. MaxSyncs
    BY DEF Init, Versions
  <2>3. tries \in [Requests -> 0 .. MaxTries - 1]
    BY DEF Init
  <2> QED BY <2>1, <2>2, <2>3, Records DEF Init, TypeOK
<1>2. StoredFirst
  BY DEF Init, StoredFirst
<1> QED BY <1>1, <1>2 DEF LookupInv

\* Every step keeps the types and the retry bound: RateLimited counts, and a
\* request that has no try left leaves the retry loop.
LEMMA TypeStep == TypeOK /\ [Next]_vars => TypeOK'
<1> SUFFICES ASSUME TypeOK, [Next]_vars PROVE TypeOK'
  OBVIOUS
<1> USE CveLookupAssumption, Records DEF TypeOK, EndTries, remote, Goto
<1>1. CASE Publish
  BY <1>1 DEF Publish, Versions
<1>2. CASE Sync
  BY <1>2 DEF Sync
<1>3. CASE Expire
  BY <1>3 DEF Expire
<1>4. ASSUME NEW r \in Requests, Search(r) PROVE TypeOK'
  BY <1>4 DEF Search
<1>5. ASSUME NEW r \in Requests, SearchWithoutRedis(r) PROVE TypeOK'
  BY <1>5 DEF SearchWithoutRedis, Finish
<1>6. ASSUME NEW r \in Requests, CacheHit(r) \/ CacheMiss(r) PROVE TypeOK'
  BY <1>6 DEF CacheHit, CacheMiss
<1>7. ASSUME NEW r \in Requests, ServeFresh(r) \/ ServeStale(r) PROVE TypeOK'
  <2>1. CASE ServeFresh(r)
    BY <2>1 DEF ServeFresh, Finish
  <2>2. CASE ServeStale(r)
    BY <2>2 DEF ServeStale
  <2> QED BY <1>7, <2>1, <2>2
<1>8. ASSUME NEW r \in Requests, NvdFound(r) PROVE TypeOK'
  <2>1. [version |-> nvd, testable |-> FALSE] \in Cve
    BY DEF Cve
  <2> QED BY <1>8, <2>1 DEF NvdFound
<1>9. ASSUME NEW r \in Requests, NvdEmpty(r) PROVE TypeOK'
  BY <1>9 DEF NvdEmpty, Finish
<1>10. ASSUME NEW r \in Requests, RateLimited(r) PROVE TypeOK'
  BY <1>10 DEF RateLimited, NextTry, MayTry
<1>11. ASSUME NEW r \in Requests, Retry(r) \/ NvdFails(r) PROVE TypeOK'
  BY <1>11 DEF Retry, NvdFails
<1>12. ASSUME NEW r \in Requests, RowGet(r) PROVE TypeOK'
  BY <1>12 DEF RowGet
<1>13. ASSUME NEW r \in Requests, CommitRow(r) PROVE TypeOK'
  <2>1. record[r].version \in Versions
    BY DEF Cve
  <2> QED BY <1>13, <2>1 DEF CommitRow
<1>14. ASSUME NEW r \in Requests, DatabaseFails(r) PROVE TypeOK'
  BY <1>14 DEF DatabaseFails
<1>15. ASSUME NEW r \in Requests, ReadStrikes(r) PROVE TypeOK'
  <2>1. [record[r] EXCEPT !.testable = Enriched] \in Cve
    BY DEF Cve, Enriched
  <2> QED BY <1>15, <2>1 DEF ReadStrikes
<1>16. ASSUME NEW r \in Requests, CacheSet(r) PROVE TypeOK'
  BY <1>16 DEF CacheSet, Caches, Finish
<1>17. ASSUME NEW r \in Requests, Fallback(r) PROVE TypeOK'
  <2>1. [version |-> stored, testable |-> FALSE] \in Cve
    BY DEF Cve
  <2> QED BY <1>17, <2>1 DEF Fallback
<1>18. ASSUME NEW r \in Requests, FallbackEmpty(r) \/ FallbackStrikes(r) \/ FallbackFails(r)
       PROVE TypeOK'
  <2>1. [record[r] EXCEPT !.testable = strikes] \in Cve
    BY DEF Cve
  <2>2. CASE FallbackEmpty(r)
    BY <2>2 DEF FallbackEmpty, Finish
  <2>3. CASE FallbackStrikes(r)
    BY <2>1, <2>3 DEF FallbackStrikes, Finish
  <2>4. CASE FallbackFails(r)
    BY <2>4 DEF FallbackFails, Finish
  <2> QED BY <1>18, <2>2, <2>3, <2>4
<1>19. CASE UNCHANGED vars
  BY <1>19 DEF vars
<1> QED
  BY <1>1, <1>2, <1>3, <1>4, <1>5, <1>6, <1>7, <1>8, <1>9, <1>10, <1>11, <1>12, <1>13,
     <1>14, <1>15, <1>16, <1>17, <1>18, <1>19 DEF Next, Step

\* Every step keeps the order of table and cache: only CommitRow writes the
\* table, never removes from it, and comes before CacheSet.
LEMMA StoredStep == LookupInv /\ [Next]_vars => StoredFirst'
<1> SUFFICES ASSUME LookupInv, [Next]_vars PROVE StoredFirst'
  OBVIOUS
<1> USE DEF LookupInv, TypeOK, StoredFirst, remote, Goto
<1>1. CASE Publish
  BY <1>1 DEF Publish
<1>2. CASE Sync
  BY <1>2 DEF Sync
<1>3. CASE Expire
  BY <1>3 DEF Expire
<1>4. ASSUME NEW r \in Requests, Search(r) \/ SearchWithoutRedis(r) PROVE StoredFirst'
  BY <1>4 DEF Search, SearchWithoutRedis, Finish
<1>5. ASSUME NEW r \in Requests, CacheHit(r) \/ CacheMiss(r) \/ ServeFresh(r) \/ ServeStale(r)
      PROVE StoredFirst'
  BY <1>5 DEF CacheHit, CacheMiss, ServeFresh, ServeStale, Finish
<1>6. ASSUME NEW r \in Requests, NvdFound(r) PROVE StoredFirst'
  BY <1>6 DEF NvdFound, Versions, Cve
<1>7. ASSUME NEW r \in Requests, NvdEmpty(r) \/ RateLimited(r) \/ Retry(r) \/ NvdFails(r)
      PROVE StoredFirst'
  BY <1>7 DEF NvdEmpty, RateLimited, Retry, NvdFails, Finish
<1>8. ASSUME NEW r \in Requests, RowGet(r) PROVE StoredFirst'
  BY <1>8 DEF RowGet
<1>9. ASSUME NEW r \in Requests, CommitRow(r) PROVE StoredFirst'
  BY <1>9 DEF CommitRow
<1>10. ASSUME NEW r \in Requests, DatabaseFails(r) PROVE StoredFirst'
  BY <1>10 DEF DatabaseFails
<1>11. ASSUME NEW r \in Requests, ReadStrikes(r) PROVE StoredFirst'
  BY <1>11 DEF ReadStrikes, Cve
<1>12. ASSUME NEW r \in Requests, CacheSet(r) PROVE StoredFirst'
  BY <1>12 DEF CacheSet, Caches, Finish
<1>13. ASSUME NEW r \in Requests, Fallback(r) PROVE StoredFirst'
  BY <1>13 DEF Fallback
<1>14. ASSUME NEW r \in Requests, FallbackEmpty(r) \/ FallbackStrikes(r) \/ FallbackFails(r)
       PROVE StoredFirst'
  BY <1>14 DEF FallbackEmpty, FallbackStrikes, FallbackFails, Finish
<1>15. CASE UNCHANGED vars
  BY <1>15 DEF vars
<1> QED
  BY <1>1, <1>2, <1>3, <1>4, <1>5, <1>6, <1>7, <1>8, <1>9, <1>10, <1>11, <1>12, <1>13,
     <1>14, <1>15 DEF Next, Step

LEMMA LookupAlways == Spec => []LookupInv
<1>1. LookupInv /\ [Next]_vars => LookupInv'
  BY TypeStep, StoredStep DEF LookupInv
<1> QED BY LookupInit, <1>1, PTL DEF Spec

\* The variables keep their types; in particular no request asks NVD more than
\* MaxTries times.
THEOREM LookupTypes == Spec => []TypeOK
<1>1. LookupInv => TypeOK
  BY DEF LookupInv, TypeOK
<1> QED BY LookupAlways, <1>1, PTL

\* A request that gives up after the last resort leaves no cached copy behind,
\* with any number of requests: get_cve's promise about rate limits.
THEOREM CachedCopyIsAlwaysFound == Spec => CachedCopyIsFound
<1> DEFINE Step1 ==
      \A r \in Requests :
          pc[r] = "fallback" /\ pc'[r] = "idle" /\ ~ answered[r] /\ answer'[r] = Missing
             => entry = Missing
<1>1. LookupInv /\ [Next]_vars => [Step1]_vars
  <2> SUFFICES ASSUME LookupInv, Next, NEW r \in Requests,
                      pc[r] = "fallback", pc'[r] = "idle", ~ answered[r],
                      answer'[r] = Missing, entry # Missing
               PROVE FALSE
    OBVIOUS
  <2> USE DEF LookupInv, TypeOK, StoredFirst, Goto
  <2>1. stored # 0
    OBVIOUS
  <2>2. ~ (Publish \/ Sync \/ Expire)
    BY DEF Publish, Sync, Expire
  <2>3. PICK q \in Requests : Search(q) \/ SearchWithoutRedis(q) \/ Step(q)
    BY <2>2 DEF Next
  <2>4. pc' = [pc EXCEPT ![q] = pc'[q]]
    BY <2>3 DEF Step, Search, SearchWithoutRedis, CacheHit, CacheMiss, ServeFresh, ServeStale,
       NvdFound, NvdEmpty, RateLimited, Retry, NvdFails, RowGet, CommitRow, DatabaseFails,
       ReadStrikes, CacheSet, Caches, Fallback, FallbackEmpty, FallbackStrikes, FallbackFails,
       Finish
  <2>5. q = r
    BY <2>4
  <2>6. FallbackEmpty(r) \/ FallbackFails(r)
    BY <2>3, <2>5 DEF Step, Search, SearchWithoutRedis, CacheHit, CacheMiss, ServeFresh,
       ServeStale, NvdFound, NvdEmpty, RateLimited, Retry, NvdFails, RowGet, CommitRow,
       DatabaseFails, ReadStrikes, CacheSet, Caches, Fallback, FallbackStrikes
  <2>7. ~ FallbackEmpty(r)
    BY <2>1 DEF FallbackEmpty
  <2>8. ~ FallbackFails(r)
    BY DEF FallbackFails, Finish, ServerError, Missing
  <2> QED BY <2>6, <2>7, <2>8
<1> QED BY LookupAlways, <1>1, PTL DEF Spec, CachedCopyIsFound

-----------------------------------------------------------------------------
(* Searches are bounded.                                                   *)

\* The steps a request may still take: two for each try of NVD, and what
\* follows the last.
StepsLeft(r) ==
    CASE pc[r] = "idle" -> 0
      [] pc[r] = "cacheGet" -> 2 * MaxTries + 6
      [] pc[r] = "ttl" -> 2 * MaxTries + 5
      [] pc[r] = "backoff" -> 2 * (MaxTries - tries[r]) + 5
      [] pc[r] = "nvd" -> 2 * (MaxTries - tries[r]) + 4
      [] pc[r] = "rowGet" -> 5
      [] pc[r] \in {"insert", "update", "same"} -> 4
      [] pc[r] = "strikes" -> 3
      [] pc[r] = "fallback" -> 2
      [] OTHER -> 1

\* No action takes a request further from its end, and each of its own takes
\* it nearer.
GetsOn(r) ==
    /\ Search(r) => StepsLeft(r)' = 2 * MaxTries + 6
    /\ Step(r) => StepsLeft(r)' < StepsLeft(r)
    /\ ~ Search(r) => StepsLeft(r)' <= StepsLeft(r)

EveryoneGetsOn == \A r \in Requests : GetsOn(r)

Counted == \A r \in Requests : StepsLeft(r) \in Nat

\* What the count is made of.
LEMMA CountTypes ==
    ASSUME TypeOK, NEW r \in Requests
    PROVE  /\ MaxTries \in Nat \ {0}
           /\ tries[r] \in 0 .. MaxTries - 1
           /\ StepsLeft(r) \in Nat
<1>1. MaxTries \in Nat \ {0} /\ tries[r] \in 0 .. MaxTries - 1
  BY CveLookupAssumption DEF TypeOK
<1> QED
  BY <1>1 DEF StepsLeft

\* A request that responds for good is over.
LEMMA Finished ==
    ASSUME TypeOK, NEW r \in Requests, NEW result, Finish(r, result), pc[r] # "idle"
    PROVE  StepsLeft(r)' = 0 /\ StepsLeft(r) > 0
<1>1. StepsLeft(r)' = 0
  BY DEF Finish, Goto, StepsLeft, TypeOK
<1>2. StepsLeft(r) > 0
  BY CountTypes DEF StepsLeft
<1> QED
  BY <1>1, <1>2

\* Each step of a request takes it nearer to its end.
LEMMA StepGetsOn ==
    ASSUME TypeOK, NEW r \in Requests, Step(r)
    PROVE  StepsLeft(r)' < StepsLeft(r)
<1> USE DEF Goto
<1>1. MaxTries \in Nat \ {0} /\ tries[r] \in 0 .. MaxTries - 1
  BY CountTypes
<1>2. CASE CacheHit(r) \/ CacheMiss(r)
  <2>1. /\ pc[r] = "cacheGet" /\ tries'[r] = tries[r]
        /\ pc'[r] = "ttl" \/ pc'[r] = "nvd"
    BY <1>2 DEF CacheHit, CacheMiss, TypeOK
  <2> QED
    BY <1>1, <2>1 DEF StepsLeft
<1>3. CASE ServeStale(r)
  <2>1. pc[r] = "ttl" /\ tries'[r] = tries[r] /\ pc'[r] = "nvd"
    BY <1>3 DEF ServeStale, TypeOK
  <2> QED
    BY <1>1, <2>1 DEF StepsLeft
<1>4. CASE NvdFound(r)
  <2>1. pc[r] = "nvd" /\ pc'[r] = "rowGet"
    BY <1>4 DEF NvdFound, TypeOK
  <2> QED
    BY <1>1, <2>1 DEF StepsLeft
<1>5. CASE RateLimited(r) \/ NvdFails(r)
  <2>1. pc[r] = "nvd"
    BY <1>5 DEF RateLimited, NvdFails
  <2>2. \/ pc'[r] = "backoff" /\ tries'[r] = tries[r] + 1
        \/ pc'[r] = "fallback"
    BY <1>5 DEF RateLimited, NvdFails, NextTry, TypeOK
  <2> QED
    BY <1>1, <2>1, <2>2 DEF StepsLeft
<1>6. CASE Retry(r)
  <2>1. pc[r] = "backoff" /\ pc'[r] = "nvd" /\ tries'[r] = tries[r]
    BY <1>6 DEF Retry, TypeOK
  <2> QED
    BY <1>1, <2>1 DEF StepsLeft
<1>7. CASE RowGet(r) \/ CommitRow(r) \/ ReadStrikes(r) \/ Fallback(r)
  <2>1. \/ pc[r] = "rowGet" /\ pc'[r] \in {"insert", "update", "same"}
        \/ pc[r] \in {"insert", "update", "same"} /\ pc'[r] = "strikes"
        \/ pc[r] = "strikes" /\ pc'[r] = "cacheSet"
        \/ pc[r] = "fallback" /\ pc'[r] = "fallbackStrikes"
    BY <1>7 DEF RowGet, CommitRow, ReadStrikes, Fallback, TypeOK
  <2> QED
    BY <2>1 DEF StepsLeft
<1>8. CASE DatabaseFails(r)
  <2>1. /\ pc[r] \in {"insert", "update", "same", "rowGet", "strikes"}
        /\ pc'[r] \in {"broken", "fallback"}
    BY <1>8 DEF DatabaseFails, TypeOK
  <2> QED
    BY <2>1 DEF StepsLeft
<1>9. CASE ServeFresh(r) \/ NvdEmpty(r) \/ CacheSet(r) \/ FallbackEmpty(r)
              \/ FallbackStrikes(r) \/ FallbackFails(r)
  <2>1. pc[r] # "idle" /\ \E result : Finish(r, result)
    BY <1>9 DEF ServeFresh, NvdEmpty, CacheSet, Caches, FallbackEmpty, FallbackStrikes,
                FallbackFails
  <2> QED
    BY <2>1, Finished
<1> QED
  BY <1>2, <1>3, <1>4, <1>5, <1>6, <1>7, <1>8, <1>9 DEF Step

\* The other requests stay where they are.
LEMMA OthersStay ==
    ASSUME TypeOK, NEW q \in Requests, Search(q) \/ SearchWithoutRedis(q) \/ Step(q),
           NEW r \in Requests \ {q}
    PROVE  pc'[r] = pc[r] /\ tries'[r] = tries[r]
<1> USE DEF TypeOK, Goto
<1>1. CASE Search(q) \/ SearchWithoutRedis(q)
  BY <1>1 DEF Search, SearchWithoutRedis, Finish
<1>2. CASE CacheHit(q) \/ CacheMiss(q) \/ ServeFresh(q) \/ ServeStale(q)
  BY <1>2 DEF CacheHit, CacheMiss, ServeFresh, ServeStale, Finish
<1>3. CASE NvdFound(q) \/ NvdEmpty(q) \/ RateLimited(q) \/ Retry(q) \/ NvdFails(q)
  BY <1>3 DEF NvdFound, NvdEmpty, RateLimited, Retry, NvdFails, EndTries, Finish
<1>4. CASE RowGet(q) \/ CommitRow(q) \/ DatabaseFails(q) \/ ReadStrikes(q) \/ CacheSet(q)
  BY <1>4 DEF RowGet, CommitRow, DatabaseFails, ReadStrikes, CacheSet, Finish
<1>5. CASE Fallback(q) \/ FallbackEmpty(q) \/ FallbackStrikes(q) \/ FallbackFails(q)
  BY <1>5 DEF Fallback, FallbackEmpty, FallbackStrikes, FallbackFails, Finish
<1> QED
  BY <1>1, <1>2, <1>3, <1>4, <1>5 DEF Step

\* A search is over after at most two awaits for each try of NVD and six more,
\* twelve with the three tries of fetch_cve_with_retry, the refresh in the
\* background included; no failure, no other search, sync or expiry takes it
\* back (get_cve and _fetch_and_cache of cve_service.py).  This is the safety half of EverySearchEnds.
THEOREM SearchesAreBounded == Spec => [][EveryoneGetsOn]_vars
<1>1. TypeOK => Counted
  BY CountTypes DEF Counted
<1>2. TypeOK /\ Counted /\ Counted' /\ [Next]_vars => [EveryoneGetsOn]_vars
  <2> SUFFICES ASSUME TypeOK, Counted, Counted', Next, NEW r \in Requests
               PROVE  GetsOn(r)
    BY DEF EveryoneGetsOn
  <2>1. Search(r) => StepsLeft(r)' = 2 * MaxTries + 6
    BY DEF Search, Goto, StepsLeft, TypeOK
  <2>2. Step(r) => StepsLeft(r)' < StepsLeft(r)
    BY StepGetsOn
  <2>3. StepsLeft(r) \in Nat /\ StepsLeft(r)' \in Nat
    BY DEF Counted
  <2>4. ~ Search(r) => StepsLeft(r)' <= StepsLeft(r)
    <3>1. CASE Publish \/ Sync \/ Expire
      <4>1. UNCHANGED <<pc, tries>>
        BY <3>1 DEF Publish, Sync, Expire
      <4> QED
        BY <4>1, <2>3 DEF StepsLeft
    <3>2. CASE SearchWithoutRedis(r)
      <4>1. pc'[r] = "idle"
        BY <3>2 DEF SearchWithoutRedis, Finish, Goto, TypeOK
      <4> QED
        BY <4>1, <2>3 DEF StepsLeft
    <3>3. ASSUME NEW q \in Requests \ {r}, Search(q) \/ SearchWithoutRedis(q) \/ Step(q)
          PROVE  StepsLeft(r)' = StepsLeft(r)
      BY <3>3, OthersStay DEF StepsLeft
    <3> QED
      BY <2>2, <2>3, <3>1, <3>2, <3>3 DEF Next
  <2> QED
    BY <2>1, <2>2, <2>4 DEF GetsOn
<1> QED
  BY <1>1, <1>2, LookupTypes, PTL DEF Spec
=============================================================================
