------------------------------- MODULE Pages -------------------------------
(***************************************************************************)
(* The frame of the site (App.tsx): the menu (Navigation.tsx), the footer  *)
(* (StatusBar.tsx) and the three pages that list a whole table             *)
(* (BrowsePage.tsx, CyperfAiCvesPage.tsx, CyperfAppsPage.tsx).  The links  *)
(* are plain anchors: following one loads the page anew and with it the    *)
(* cache of react-query.  While a page is open its listing is fetched once *)
(* and on focus, the footer also every five minutes.                       *)
(***************************************************************************)
EXTENDS ReactQuery

CONSTANTS
    MaxVersion,  \* syncs that complete, a bound of the model
    Retries      \* of react-query: 3 by default, the model may take fewer

ASSUME PagesAssumption == MaxVersion \in Nat \ {0} /\ Retries \in Nat

VARIABLES
    version,    \* syncs that have completed: what the tables hold, 0 for nothing
    route,      \* the page that is shown
    openGroup,  \* the menu's group of listings is open
    listing,    \* the query of the page, when it is a listing
    filter,     \* what was typed above the listing
    entered,    \* the version when the listing was loaded, 0 on other pages
    status      \* useSyncStatus, for the footer: the last successful sync

pagesVars == <<version, route, openGroup, listing, filter, entered, status>>

Versions == 0 .. MaxVersion
Listings == {"/browse", "/ai-cves", "/cyperf-apps"}
\* "static" stands for the pages without a listing of a table: the search page
\* (SearchPage models it), the guides, and the batch page.
Links == {"static", "/l47-advisor"}
Routes == Listings \union Links
Filters == {"blank", "matching", "missing"}

-----------------------------------------------------------------------------
(* Variants: plausible mistakes in the code, none of which it makes.       *)

\* Links of the router keep the cache, and with it listings of five minutes.
CacheKept(r) == IF r = route THEN {listing} ELSE Observed(NoQuery)

\* The apps page looks at the rows before it looks at the error.
NoErrorBox == FALSE

\* The footer is fetched once, with the page.
NoInterval == {}

-----------------------------------------------------------------------------
\* A page that is loaded fetches its listing.
Load(r) == IF r \in Listings THEN Started(NoQuery) ELSE {NoQuery}

PagesInit ==
    /\ version = 0 /\ entered = 0
    /\ route \in Routes
    /\ openGroup = FALSE /\ filter = "blank"
    /\ listing \in Load(route)
    /\ status \in Started(NoQuery)

\* isError and the box of the apps page.
ErrorBox == IsError(listing)

RowsOf(q) == IF q.data = {0} THEN {} ELSE q.data

\* What the page shows of its table: DataTable of the browse page, AiCveTable,
\* or the table of the apps page.
BrowseView ==
    IF IsLoading(listing) THEN "Loading CVEs..."
    ELSE IF RowsOf(listing) = {} \/ filter = "missing" THEN "No CVEs found" ELSE "rows"

AiView ==
    IF IsLoading(listing) THEN "Loading AI CVE entries..."
    ELSE IF IsError(listing) THEN "error"
    ELSE IF RowsOf(listing) = {} \/ filter = "missing" THEN "No AI CVE entries found."
    ELSE "rows"

AppsView ==
    IF IsLoading(listing) THEN "Loading applications..."
    ELSE IF ErrorBox THEN "error"
    ELSE IF RowsOf(listing) = {} THEN "No applications found."
    ELSE IF filter = "missing" THEN "No applications match your search." ELSE "rows"

View ==
    CASE route = "/browse" -> BrowseView
      [] route = "/ai-cves" -> AiView
      [] route = "/cyperf-apps" -> AppsView
      [] route \notin Listings -> "other"

\* "Data last updated", or "never synced" while nothing is known.
Footer == IF status.data \in {{}, {0}} THEN "never synced" ELSE "last updated"

-----------------------------------------------------------------------------
(* The menu.                                                               *)

ToggleGroup ==
    /\ openGroup' = ~ openGroup
    /\ UNCHANGED <<version, route, listing, filter, entered, status>>

\* A mouse button goes down anywhere else.
ClickOutside ==
    /\ openGroup
    /\ openGroup' = FALSE
    /\ UNCHANGED <<version, route, listing, filter, entered, status>>

QueryAfterLoad(r) == Load(r)

PageLoads(r) ==
    /\ route' = r
    /\ openGroup' = FALSE /\ filter' = "blank"
    /\ entered' = IF r \in Listings THEN version ELSE 0
    /\ listing' \in QueryAfterLoad(r)
    /\ status' \in Started(NoQuery)
    /\ UNCHANGED version

\* The links of the menu, those of the group only while it is open.
FollowLink(r) ==
    /\ r \in Links \/ (openGroup /\ r \in Listings)
    /\ PageLoads(r)

Reload == PageLoads(route)

-----------------------------------------------------------------------------
(* The listing and the footer.                                             *)

TypeFilter(f) ==
    /\ route \in Listings /\ f # filter
    /\ filter' = f
    /\ UNCHANGED <<version, route, openGroup, listing, entered, status>>

AiRetries == 1
RetriesOf(r) == IF r = "/ai-cves" THEN AiRetries ELSE Retries

ListingStep(q) ==
    /\ route \in Listings
    /\ listing' = q
    /\ UNCHANGED <<version, route, openGroup, filter, entered, status>>

ListingHandled == listing.stage = "asked" /\ ListingStep(Handled(listing, version))
ListingArrives == listing.stage = "answered" /\ ListingStep(Arrived(listing))
ListingResumes == listing.stage = "paused" /\ ListingStep(Resumed(listing))
ListingRefocus == \E q \in Observed(listing) : ListingStep(q)

ListingFails ==
    /\ listing.stage \in {"asked", "answered"} /\ "errors" \in Network
    /\ \E q \in Failures(listing, RetriesOf(route)) : ListingStep(q)

StatusStep(q) ==
    /\ status' = q
    /\ UNCHANGED <<version, route, openGroup, listing, filter, entered>>

StatusHandled == status.stage = "asked" /\ StatusStep(Handled(status, version))
StatusArrives == status.stage = "answered" /\ StatusStep(Arrived(status))
StatusResumes == status.stage = "paused" /\ StatusStep(Resumed(status))

\* refetchInterval
Due == Started(status)
StatusDue == status.stage = "idle" /\ \E q \in Due : StatusStep(q)

StatusFails ==
    /\ status.stage \in {"asked", "answered"} /\ "errors" \in Network
    /\ \E q \in Failures(status, Retries) : StatusStep(q)

\* A sync replaces the tables.
SyncCompletes ==
    /\ version < MaxVersion
    /\ version' = version + 1
    /\ UNCHANGED <<route, openGroup, listing, filter, entered, status>>

PagesNext ==
    \/ ToggleGroup \/ ClickOutside \/ SyncCompletes
    \/ \E f \in Filters : TypeFilter(f)
    \/ ListingHandled \/ ListingArrives \/ ListingResumes \/ ListingRefocus \/ ListingFails
    \/ StatusHandled \/ StatusArrives \/ StatusResumes \/ StatusDue \/ StatusFails

PagesTypeOK ==
    /\ version \in Versions /\ entered \in Versions
    /\ route \in Routes /\ openGroup \in BOOLEAN /\ filter \in Filters
    /\ listing \in IF route \in Listings THEN Query(Versions, RetriesOf(route)) ELSE {NoQuery}
    /\ status \in Query(Versions, Retries)
=============================================================================
