----------------------------- MODULE AppProofs -----------------------------
(***************************************************************************)
(* Theorems about the pages of App and about the settings panel that       *)
(* App.tsx puts beside them, for every number of syncs, retries, requests  *)
(* and timers and every kind of trouble on the network: the types, what    *)
(* the listings say, what the form sends to the agent, and what dialog and *)
(* widget show.                                                            *)
(***************************************************************************)
EXTENDS App, SettingsPanel, TLAPS

-----------------------------------------------------------------------------
(* The operators of ReactQuery keep a query a query.                       *)

\* No step leaves the type of a query.
LEMMA QuerySteps ==
    ASSUME NEW V, NEW r \in Nat, NEW q \in Query(V, r)
    PROVE  /\ Started(q) \subseteq Query(V, r)
           /\ Observed(q) \subseteq Query(V, r)
           /\ \A v \in V : Handled(q, v) \in Query(V, r)
           /\ Arrived(q) \in Query(V, r)
           /\ Failures(q, r) \subseteq Query(V, r)
           /\ Resumed(q) \in Query(V, r)
<1> USE DEF Query
<1>1. Started(q) \subseteq Query(V, r)
  <2>1. Sending \subseteq Stages
    BY DEF Sending, Stages
  <2>2. ASSUME NEW s \in Sending
        PROVE  [q EXCEPT !.stage = s, !.failed = q.failed /\ q.data # {}] \in Query(V, r)
    <3>1. (q.failed /\ q.data # {}) \in BOOLEAN
      OBVIOUS
    <3> QED
      BY <2>1, <3>1
  <2> QED
    BY <2>2 DEF Started
<1>2. Observed(q) \subseteq Query(V, r)
  BY <1>1 DEF Observed
<1>3. \A v \in V : Handled(q, v) \in Query(V, r)
  BY DEF Handled, Stages, Optional
<1>4. Arrived(q) \in Query(V, r)
  BY DEF Arrived, Stages, Optional
<1>5. Failures(q, r) \subseteq Query(V, r)
  <2>1. CASE q.tries < r
    <3>1. q.tries + 1 \in 0 .. r /\ Sending \subseteq Stages /\ {} \in Optional(V)
      BY <2>1 DEF Sending, Stages, Optional
    <3> QED
      BY <2>1, <3>1 DEF Failures, TriedAgain
  <2>2. CASE ~ (q.tries < r)
    BY <2>2 DEF Failures, GivenUp, Stages, Optional
  <2> QED
    BY <2>1, <2>2
<1>6. Resumed(q) \in Query(V, r)
  BY DEF Resumed, Stages
<1> QED
  BY <1>1, <1>2, <1>3, <1>4, <1>5, <1>6

\* NoQuery, and what is started from it, is a query that holds nothing.
LEMMA FreshQuery ==
    ASSUME NEW V, NEW r \in Nat
    PROVE  /\ NoQuery \in Query(V, r)
           /\ Started(NoQuery) \subseteq Query(V, r)
           /\ \A q \in Started(NoQuery) :
                 q.data = {} /\ q.reply = {} /\ q.stage \in {"asked", "paused"}
<1>1. NoQuery \in Query(V, r)
  BY DEF NoQuery, Query, Optional, Stages
<1>2. Started(NoQuery) \subseteq Query(V, r)
  BY <1>1, QuerySteps
<1>3. \A q \in Started(NoQuery) :
         q.data = {} /\ q.reply = {} /\ q.stage \in {"asked", "paused"}
  BY DEF NoQuery, Started, Sending
<1> QED
  BY <1>1, <1>2, <1>3

-----------------------------------------------------------------------------
(* The inductive invariant.                                                *)

\* A fetch that was answered has an answer, and a listing that shows nothing
\* is under way or has failed.
Alive(q) ==
    /\ q.stage = "answered" => q.reply # {}
    /\ q.data = {} /\ ~ q.failed => q.stage # "idle"

\* Nothing older than the visit is held or on its way.
Recent(q) == \A v \in q.data \union q.reply : v >= entered

AppInv ==
    /\ AppTypeOK
    /\ AgentTakesForm
    /\ entered <= version
    /\ Recent(listing)
    /\ route \in Listings => Alive(listing)

LEMMA RetriesOfNat == \A r \in Routes : RetriesOf(r) \in Nat
BY PagesAssumption DEF RetriesOf, AiRetries

LEMMA AppInvInit == AppInit => AppInv
<1> SUFFICES ASSUME AppInit PROVE AppInv
  OBVIOUS
<1> USE DEF AppInit, PagesInit, AdvisorInit
<1>1. version = 0 /\ 0 \in Versions /\ entered = 0
  BY PagesAssumption DEF Versions
<1>2. status \in Query(Versions, Retries)
  BY FreshQuery, PagesAssumption
<1>3. AdvisorTypeOK(Versions)
  <2>1. profiles \in [Buckets -> Optional(Versions)]
    BY DEF Optional
  <2>2. scenario \in {NoScenario}
    OBVIOUS
  <2> QED
    BY <2>1, <2>2 DEF AdvisorTypeOK, FormMounted, Focuses, UseCases
<1>4. AgentTakesForm
  BY DEF AgentTakesForm, NoScenario
<1>5. /\ listing \in IF route \in Listings THEN Query(Versions, RetriesOf(route)) ELSE {NoQuery}
      /\ listing.data = {} /\ listing.reply = {}
      /\ route \in Listings => listing.stage \in {"asked", "paused"}
  <2>1. CASE route \in Listings
    <3>1. listing \in Started(NoQuery)
      BY <2>1 DEF Load
    <3>2. listing \in Query(Versions, RetriesOf(route))
      BY <3>1, FreshQuery, RetriesOfNat
    <3> QED
      BY <2>1, <3>1, <3>2, FreshQuery, PagesAssumption
  <2>2. CASE route \notin Listings
    BY <2>2 DEF Load, NoQuery
  <2> QED
    BY <2>1, <2>2
<1>6. PagesTypeOK
  BY <1>1, <1>2, <1>5 DEF PagesTypeOK, Filters
<1> QED
  BY <1>1, <1>3, <1>4, <1>5, <1>6 DEF AppInv, AppTypeOK, Recent, Alive

-----------------------------------------------------------------------------
(* One lemma per part of the next-state relation.                          *)

\* What a page that is loaded starts with.
LEMMA LoadKeeps ==
    ASSUME NEW r \in Routes, NEW q \in Load(r)
    PROVE  /\ q \in IF r \in Listings THEN Query(Versions, RetriesOf(r)) ELSE {NoQuery}
           /\ Recent(q)
           /\ r \in Listings => Alive(q)
<1>1. CASE r \in Listings
  <2>1. q \in Started(NoQuery)
    BY <1>1 DEF Load
  <2>2. q \in Query(Versions, RetriesOf(r))
    BY <2>1, FreshQuery, RetriesOfNat
  <2> QED
    BY <1>1, <2>1, <2>2, FreshQuery, PagesAssumption DEF Recent, Alive
<1>2. CASE r \notin Listings
  BY <1>2 DEF Load, NoQuery, Recent
<1> QED
  BY <1>1, <1>2

\* A step of a query keeps what is recent recent and what is alive alive.
LEMMA QueryKeeps ==
    ASSUME version \in Nat, entered \in Nat, entered <= version,
           NEW V, NEW r \in Nat, NEW q \in Query(V, r), Recent(q), Alive(q)
    PROVE  /\ \A p \in Observed(q) : Recent(p) /\ Alive(p)
           /\ Recent(Handled(q, version)) /\ Alive(Handled(q, version))
           /\ q.stage = "answered" => Recent(Arrived(q)) /\ Alive(Arrived(q))
           /\ \A p \in Failures(q, r) : Recent(p) /\ Alive(p)
           /\ Recent(Resumed(q)) /\ Alive(Resumed(q))
<1> USE DEF Query, Recent, Alive
<1>1. ASSUME NEW p \in Started(q) PROVE Recent(p) /\ Alive(p)
  <2>1. PICK s \in Sending : p = [q EXCEPT !.stage = s, !.failed = q.failed /\ q.data # {}]
    BY <1>1 DEF Started
  <2>2. p.data = q.data /\ p.reply = q.reply /\ p.stage = s
    BY <2>1
  <2> QED
    BY <2>2 DEF Sending
<1>2. \A p \in Observed(q) : Recent(p) /\ Alive(p)
  BY <1>1 DEF Observed
<1>3. Recent(Handled(q, version)) /\ Alive(Handled(q, version))
  BY DEF Handled
<1>4. q.stage = "answered" => Recent(Arrived(q)) /\ Alive(Arrived(q))
  BY DEF Arrived
<1>5. \A p \in Failures(q, r) : Recent(p) /\ Alive(p)
  BY DEF Failures, TriedAgain, GivenUp, Sending
<1>6. Recent(Resumed(q)) /\ Alive(Resumed(q))
  BY DEF Resumed
<1> QED
  BY <1>2, <1>3, <1>4, <1>5, <1>6

LEMMA PagesStep == ASSUME AppInv, PagesNext, UNCHANGED advisorVars PROVE AppInv'
<1> USE DEF AppInv, AppTypeOK, PagesTypeOK
<1>1. AdvisorTypeOK(Versions)' /\ AgentTakesForm'
  BY DEF advisorVars, advisorPage, form, AdvisorTypeOK, AgentTakesForm, Acceptable
<1>2. version \in Nat /\ entered \in Nat /\ RetriesOf(route) \in Nat
  BY PagesAssumption, RetriesOfNat DEF Versions
<1>3. CASE ToggleGroup \/ ClickOutside
  BY <1>1, <1>3 DEF ToggleGroup, ClickOutside, Recent, Alive
<1>4. CASE SyncCompletes
  BY <1>1, <1>2, <1>4, PagesAssumption DEF SyncCompletes, Recent, Alive, Versions
<1>5. ASSUME NEW f \in Filters, TypeFilter(f) PROVE AppInv'
  BY <1>1, <1>5 DEF TypeFilter, Recent, Alive
<1>6. ASSUME NEW q, ListingStep(q), q \in Query(Versions, RetriesOf(route)), Recent(q), Alive(q)
      PROVE  AppInv'
  BY <1>1, <1>6 DEF ListingStep, Recent
<1>7. ASSUME NEW q, StatusStep(q), q \in Query(Versions, Retries) PROVE AppInv'
  BY <1>1, <1>7 DEF StatusStep, Recent
<1>8. CASE ListingHandled \/ ListingArrives \/ ListingResumes \/ ListingRefocus \/ ListingFails
  <2>1. listing \in Query(Versions, RetriesOf(route)) /\ Recent(listing) /\ Alive(listing)
    BY <1>8 DEF ListingHandled, ListingArrives, ListingResumes, ListingRefocus, ListingFails,
                ListingStep
  <2> QED
    BY <1>2, <1>6, <1>8, <2>1, QuerySteps, QueryKeeps
       DEF ListingHandled, ListingArrives, ListingResumes, ListingRefocus, ListingFails
<1>9. CASE StatusHandled \/ StatusArrives \/ StatusResumes \/ StatusDue \/ StatusFails
  BY <1>7, <1>9, QuerySteps, PagesAssumption
     DEF StatusHandled, StatusArrives, StatusResumes, StatusDue, Due, StatusFails
<1> QED
  BY <1>3, <1>4, <1>5, <1>8, <1>9 DEF PagesNext

LEMMA VisitStep == ASSUME AppInv, Visit PROVE AppInv'
<1> USE DEF AppInv, AppTypeOK, PagesTypeOK
<1>1. PICK r \in Routes : PageLoads(r)
  BY DEF Visit, Reload, FollowLink
<1>2. AdvisorTypeOK(Versions)' /\ AgentTakesForm'
  BY DEF Visit, AdvisorMounts, FormMounts, AdvisorTypeOK, AgentTakesForm, Focuses, UseCases,
         NoScenario
<1>3. version' = version /\ version \in Nat /\ entered' \in Versions /\ entered' <= version'
  BY <1>1, PagesAssumption DEF PageLoads, Versions
<1>4. status' \in Query(Versions, Retries)
  BY <1>1, FreshQuery, PagesAssumption DEF PageLoads
<1>5. route' = r /\ openGroup' \in BOOLEAN /\ filter' \in Filters
  BY <1>1 DEF PageLoads, Filters
<1>6. /\ listing' \in Load(r)
      /\ listing'.data = {} /\ listing'.reply = {}
  <2>1. listing' \in Load(r)
    BY <1>1 DEF PageLoads, QueryAfterLoad
  <2> QED
    BY <2>1, FreshQuery, PagesAssumption DEF Load, NoQuery
<1> QED
  BY <1>2, <1>3, <1>4, <1>5, <1>6, LoadKeeps DEF Recent, Alive

LEMMA AdvisorStep == ASSUME AppInv, AdvisorNext(version), UNCHANGED pagesVars PROVE AppInv'
<1> USE DEF AppInv, AppTypeOK, AdvisorTypeOK, AgentTakesForm, advisorPage, form
<1>1. /\ PagesTypeOK' /\ entered' <= version' /\ Recent(listing)'
      /\ (route \in Listings => Alive(listing))'
  BY DEF pagesVars, PagesTypeOK, Recent, Alive
<1>2. ASSUME NEW f \in Focuses, ChooseFocus(f) PROVE AppInv'
  BY <1>1, <1>2 DEF ChooseFocus, Acceptable
<1>3. ASSUME NEW b \in Buckets, EditMetric(b) PROVE AppInv'
  BY <1>1, <1>3 DEF EditMetric, Acceptable
<1>4. ASSUME NEW b \in Buckets, BucketExpires(b) PROVE AppInv'
  <2>1. profiles' \in [Buckets -> Optional(Versions)]
    BY <1>4 DEF BucketExpires, Optional
  <2> QED
    BY <1>1, <1>4, <2>1 DEF BucketExpires, Acceptable
<1>5. ASSUME NEW u \in UseCases, EditUseCase(u) PROVE AppInv'
  BY <1>1, <1>5 DEF EditUseCase, Acceptable
<1>6. CASE SubmitScenario
  <2>1. Concerned(focus) \subseteq metrics \intersect MetricsSent(focus)
    BY <1>6 DEF SubmitScenario, Complete, MetricsSent
  <2>2. scenario' \in Scenarios
    BY <1>6 DEF SubmitScenario, Scenarios
  <2>3. AgentTakesForm'
    BY <1>6, <2>1 DEF SubmitScenario, Complete, Acceptable, UseCases
  <2> QED
    BY <1>1, <1>6, <2>2, <2>3 DEF SubmitScenario
<1>7. CASE StartOver
  BY <1>1, <1>7 DEF StartOver, Acceptable
<1>8. CASE AgentRefuses
  BY <1>1, <1>8 DEF AgentRefuses, Answer, Answers
<1>9. CASE AgentRecommends(version)
  <2>1. profiles' \in [Buckets -> Optional(Versions)]
    BY <1>9 DEF AgentRecommends, Optional, PagesTypeOK
  <2>2. scenario' \in Answers /\ scenario'.stage = "answered"
    BY <1>9 DEF AgentRecommends, Answer, Answers
  <2> QED
    BY <1>1, <1>9, <2>1, <2>2 DEF AgentRecommends
<1>10. CASE ResultArrives
  <2>1. result' \in {"form", "cards", "none"}
    BY <1>10 DEF ResultArrives, Answers, Scenarios, NoScenario
  <2> QED
    BY <1>1, <1>10, <2>1 DEF ResultArrives, FormMounts, NoScenario, Focuses, UseCases
<1>11. CASE AdviceFails
  BY <1>1, <1>11 DEF AdviceFails, StatusAfterError, NoScenario
<1> QED
  BY <1>2, <1>3, <1>4, <1>5, <1>6, <1>7, <1>8, <1>9, <1>10, <1>11 DEF AdvisorNext

LEMMA AppInvStep == AppInv /\ [AppNext]_appVars => AppInv'
<1> SUFFICES ASSUME AppInv, [AppNext]_appVars PROVE AppInv'
  OBVIOUS
<1>1. CASE UNCHANGED appVars
  BY <1>1 DEF appVars, pagesVars, advisorVars, advisorPage, form, AppInv, AppTypeOK, PagesTypeOK,
              AdvisorTypeOK, AgentTakesForm, Acceptable, Recent, Alive
<1> QED
  BY <1>1, PagesStep, VisitStep, AdvisorStep DEF AppNext

LEMMA AppInvariant == AppSpec => []AppInv
BY AppInvInit, AppInvStep, PTL DEF AppSpec

-----------------------------------------------------------------------------
(* The theorems.                                                           *)

\* The variables keep their types: a listing is fetched on its own page only,
\* and a request is repeated no more often than react-query was told to.
THEOREM AppTypeCorrect == AppSpec => []AppTypeOK
<1>1. AppInv => AppTypeOK
  BY DEF AppInv
<1> QED
  BY <1>1, AppInvariant, PTL

\* "No applications found. Run admin sync endpoint" (CyperfAppsPage.tsx:122-124)
\* is said only of a table that the server found empty.
THEOREM EmptyIsSaidOfEmpty == AppSpec => []EmptyMeansEmpty
<1>1. AppInv => EmptyMeansEmpty
  <2> SUFFICES ASSUME AppInv, View = "No applications found.", listing.stage # "paused"
               PROVE  listing.data = {0}
    BY DEF EmptyMeansEmpty
  <2>1. route = "/cyperf-apps"
    <3>1. route \in Routes
      BY DEF AppInv, AppTypeOK, PagesTypeOK
    <3>2. CASE route = "/browse"
      BY <3>2 DEF View, BrowseView
    <3>3. CASE route = "/ai-cves"
      BY <3>3 DEF View, AiView
    <3>4. CASE route \notin Listings
      BY <3>4 DEF View, Listings
    <3> QED
      BY <3>1, <3>2, <3>3, <3>4 DEF Routes, Listings
  <2>2. ~ IsLoading(listing) /\ ~ listing.failed /\ RowsOf(listing) = {}
    BY <2>1 DEF View, AppsView, ErrorBox, IsError
  <2>3. listing.stage \in Stages /\ Alive(listing)
    BY <2>1 DEF AppInv, AppTypeOK, PagesTypeOK, Listings, Query
  <2>4. listing.data # {}
    BY <2>2, <2>3 DEF IsLoading, Stages, Alive
  <2> QED
    BY <2>2, <2>4 DEF RowsOf
<1> QED
  BY <1>1, AppInvariant, PTL

\* A listing is never older than the visit to its page (useAPI.ts:84, 110, 167).
THEOREM ListingsAreFresh == AppSpec => []FreshOnArrival
<1>1. AppInv => FreshOnArrival
  BY DEF AppInv, Recent, FreshOnArrival
<1> QED
  BY <1>1, AppInvariant, PTL

\* The agent takes what the form lets pass, unless it is too long
\* (L47ScenarioForm.tsx:50-71, agent-service/main.py:69-85).
THEOREM FormPassesAgent == AppSpec => []AgentTakesForm
<1>1. AppInv => AgentTakesForm
  BY DEF AppInv
<1> QED
  BY <1>1, AppInvariant, PTL

-----------------------------------------------------------------------------
(* The settings panel: the inductive invariant.                            *)

\* What is sent is a text, and what was saved is an address the server had.
PostIsHeld ==
    /\ post # "none" => posted \in Texts
    /\ post = "saved" => Clean[posted] \in held

\* An answer on its way is an address the server had.
AnswersWereHeld == \A i \in GetIds : gets[i] \in Texts => Clean[gets[i]] \in held

ServedIsHeld == served \in held /\ served \in Addresses \union {None}

SettingsInv ==
    /\ TypeOK
    /\ OneSave
    /\ ShownWasHeld
    /\ PostIsHeld
    /\ AnswersWereHeld
    /\ ServedIsHeld

\* Cleaning an address changes nothing any more.
LEMMA AddressesAreClean == \A a \in Addresses : a \in Texts /\ Clean[a] = a
BY SettingsAssumption DEF Addresses

LEMMA SettingsInit == Init => SettingsInv
<1> SUFFICES ASSUME Init PROVE SettingsInv
  OBVIOUS
<1>1. gets \in [GetIds -> Values \union {"free", "asked"}] /\ timers \in 0 .. MaxTimers
  BY SettingsAssumption DEF Init
<1>2. TypeOK
  BY <1>1, AddressesAreClean DEF Init, TypeOK, Values
<1>3. AnswersWereHeld
  BY SettingsAssumption DEF Init, AnswersWereHeld, Values
<1> QED
  BY <1>2, <1>3 DEF Init, SettingsInv, OneSave, ShownWasHeld, PostIsHeld, ServedIsHeld

-----------------------------------------------------------------------------
(* The server's address may change under everything that is in flight.     *)

LEMMA ServeKeeps ==
    ASSUME SettingsInv, NEW a \in Addresses \union {None}, Serve(a)
    PROVE  held' \subseteq Values /\ held \subseteq held' /\ served' \in Values /\ ServedIsHeld'
BY AddressesAreClean DEF SettingsInv, TypeOK, Serve, ServedIsHeld, Values

LEMMA PrefillKeeps ==
    ASSUME SettingsInv, NEW o \in BOOLEAN, NEW v \in Values, Prefill(o, v)
    PROVE  text' \in Values /\ feedback' \in {"none", "error", "success"}
BY DEF SettingsInv, TypeOK, Prefill

LEMMA SettingsStep == SettingsInv /\ [Next]_vars => SettingsInv'
<1> SUFFICES ASSUME SettingsInv, [Next]_vars PROVE SettingsInv'
  OBVIOUS
<1> USE SettingsAssumption
    DEF SettingsInv, OneSave, ShownWasHeld, PostIsHeld, AnswersWereHeld, ServedIsHeld,
        dialog, request, server
<1>1. CASE OpenSettings
  <2>1. text' \in Values /\ feedback' \in {"none", "error", "success"}
    BY <1>1, PrefillKeeps DEF OpenSettings, TypeOK
  <2> QED
    BY <1>1, <2>1 DEF OpenSettings, SavingAfterOpen, TypeOK
<1>2. ASSUME NEW t \in Values, Type(t) PROVE SettingsInv'
  BY <1>2 DEF Type, TypeOK
<1>3. CASE HandleSave
  BY <1>3 DEF HandleSave, TypeOK, Values
<1>4. CASE CloseSettings
  BY <1>4 DEF CloseSettings, TypeOK
<1>5. CASE PostHandled
  <2>1. CASE post' = "saved" /\ Serve(Clean[posted])
    <3>1. Clean[posted] \in Addresses
      BY <1>5 DEF PostHandled, Addresses
    <3>2. held' \subseteq Values /\ held \subseteq held' /\ served' \in Values /\ ServedIsHeld'
      BY <2>1, <3>1, ServeKeeps
    <3>3. Clean[posted] \in held'
      BY <2>1 DEF Serve
    <3> QED
      BY <1>5, <2>1, <3>2, <3>3 DEF PostHandled, TypeOK
  <2>2. CASE post' = "refused" /\ UNCHANGED server
    BY <1>5, <2>2 DEF PostHandled, TypeOK
  <2> QED
    BY <1>5, <2>1, <2>2 DEF PostHandled
<1>6. CASE SaveSucceeds
  <2>1. posted \in Texts /\ Clean[posted] \in held /\ timers' \in 0 .. MaxTimers
    BY <1>6 DEF SaveSucceeds, Accepted, TypeOK
  <2> QED
    BY <1>6, <2>1 DEF SaveSucceeds, PostEnds, SavingAfterPost, TypeOK, Values
<1>7. CASE SaveFails
  BY <1>7 DEF SaveFails, PostEnds, SavingAfterPost, TypeOK, Values
<1>8. CASE AutoClose
  <2>1. timers' \in 0 .. MaxTimers
    BY <1>8 DEF AutoClose, TypeOK
  <2> QED
    BY <1>8, <2>1 DEF AutoClose, TypeOK
<1>9. ASSUME NEW i \in GetIds, FetchEndpoint(i) PROVE SettingsInv'
  <2>1. \A j \in GetIds : gets'[j] = IF j = i THEN "asked" ELSE gets[j]
    BY <1>9 DEF FetchEndpoint, TypeOK
  <2>2. "asked" \notin Texts /\ AnswersWereHeld'
    BY <1>9, <2>1 DEF FetchEndpoint, Values
  <2> QED
    BY <1>9, <2>2 DEF FetchEndpoint, TypeOK
<1>10. ASSUME NEW i \in GetIds, GetHandled(i) PROVE SettingsInv'
  <2>1. \A j \in GetIds : gets'[j] = IF j = i THEN served ELSE gets[j]
    BY <1>10 DEF GetHandled, TypeOK
  <2>2. served \in Texts => Clean[served] \in held
    BY AddressesAreClean
  <2>3. AnswersWereHeld'
    BY <1>10, <2>1, <2>2 DEF GetHandled
  <2> QED
    BY <1>10, <2>3 DEF GetHandled, TypeOK
<1>11. ASSUME NEW i \in GetIds, gets' = [gets EXCEPT ![i] = "free"], UNCHANGED held
       PROVE  AnswersWereHeld' /\ gets' \in [GetIds -> Values \union {"free", "asked"}]
  <2>1. \A j \in GetIds : gets'[j] = IF j = i THEN "free" ELSE gets[j]
    BY <1>11 DEF TypeOK
  <2> QED
    BY <1>11, <2>1 DEF TypeOK, Values
<1>12. ASSUME NEW i \in GetIds, GetArrives(i) PROVE SettingsInv'
  <2>1. AnswersWereHeld' /\ gets' \in [GetIds -> Values \union {"free", "asked"}]
    BY <1>11, <1>12 DEF GetArrives
  <2>2. text' \in Values /\ feedback' \in {"none", "error", "success"}
    BY <1>12, PrefillKeeps DEF GetArrives, Shown, TypeOK
  <2>3. endpoint' \in Values /\ ShownWasHeld'
    BY <1>12 DEF GetArrives, Shown, Values
  <2> QED
    BY <1>12, <2>1, <2>2, <2>3 DEF GetArrives, TypeOK
<1>13. ASSUME NEW i \in GetIds, GetFails(i) PROVE SettingsInv'
  <2>1. AnswersWereHeld' /\ gets' \in [GetIds -> Values \union {"free", "asked"}]
    BY <1>11, <1>13 DEF GetFails
  <2> QED
    BY <1>13, <2>1 DEF GetFails, TypeOK
<1>14. ASSUME NEW a \in Addresses \union {None}, Elsewhere(a) PROVE SettingsInv'
  <2>1. held' \subseteq Values /\ held \subseteq held' /\ served' \in Values /\ ServedIsHeld'
    BY <1>14, ServeKeeps DEF Elsewhere
  <2> QED
    BY <1>14, <2>1 DEF Elsewhere, TypeOK
<1>15. CASE UNCHANGED vars
  BY <1>15 DEF vars, TypeOK
<1> QED
  BY <1>1, <1>2, <1>3, <1>4, <1>5, <1>6, <1>7, <1>8, <1>9, <1>10, <1>12, <1>13, <1>14, <1>15
     DEF Next

LEMMA SettingsInvariant == Spec => []SettingsInv
BY SettingsInit, SettingsStep, PTL DEF Spec

-----------------------------------------------------------------------------
(* The theorems.                                                           *)

\* The variables keep their types, whatever the requests answer.
THEOREM SettingsTypeCorrect == Spec => []TypeOK
<1>1. SettingsInv => TypeOK
  BY DEF SettingsInv
<1> QED
  BY <1>1, SettingsInvariant, PTL

\* The Save button is off exactly while a POST is under way
\* (SettingsPanel.tsx:214).
THEOREM OneSaveAtATime == Spec => []OneSave
<1>1. SettingsInv => OneSave
  BY DEF SettingsInv
<1> QED
  BY <1>1, SettingsInvariant, PTL

\* The widget shows only addresses the server has or had, up to the prefix it
\* cuts off (SyncWidget.tsx:43-46, 99).
THEOREM WidgetShowsHeld == Spec => []ShownWasHeld
<1>1. SettingsInv => ShownWasHeld
  BY DEF SettingsInv
<1> QED
  BY <1>1, SettingsInvariant, PTL
=============================================================================
