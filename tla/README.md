# CyperfBuddy: TLA+ models, model checking and proofs

CyperfBuddy maps CVEs of the NVD to the attack strikes of a CyPerf controller.
It is a FastAPI backend (PostgreSQL, Redis, APScheduler), a React frontend and a
small agent service. The arithmetic is easy; what is hard is that several
sync jobs, HTTP requests, a cache with expiry, a polling browser and dialogs
that outlive their requests, or are outlived by them, work on
the same few pieces of state, each in several awaits. This project models those
parts, checks them with TLC on small instances and proves the safety properties
that matter most with TLAPS for every value of the constants.

Paths below are relative to the repository.

## 1. Inventory

| Part | State it keeps | Operations | Talks to | Status |
|---|---|---|---|---|
| Sync engine (`backend/services/sync_service.py`, `backend/db/sync_metadata.py`, the two strike tables) | `cverf_cve_strike_mappings`, `ai_cves`, the `sync_metadata` row, two JSON files | `perform_sync`, `record_sync_start`, `record_sync_complete`, `get_consecutive_failures` | controller, PostgreSQL, disk | modelled but for the choice of the controller's address |
| Strike fetch (`backend/services/cyperf_service.py`) | none beyond a run | login, paging, classification, synthetic ids | controller | its result is an input of the sync engine |
| Endpoint configuration (`backend/routes/admin.py`, `backend/db/system_config.py`) | one `system_config` row, one Redis key | GET, POST | PostgreSQL, Redis, controller probe | modelled |
| Sync routes (`backend/routes/admin.py`) | none | `sync-all`, `sync-status` | scheduler, sync engine, applications sync | `sync-all` up to the strikes in `AppsSync`; the rest as the button sees it |
| Scheduler and lifespan (`backend/scheduler.py`, `backend/main.py`) | job store | cron job, startup job, manual jobs | sync engine | only its consequences: jobs with different ids overlap, the process may end, Redis may be absent at startup |
| Sync button and poller (`frontend/.../SyncButton.tsx`, `useSyncPolling.ts`) | `status`, `pollActive`, interval, timers, polls in flight | click, poll, effects, timers | sync routes | modelled |
| Settings panel, sync widget (`SettingsPanel.tsx`, `SyncWidget.tsx`) | endpoint shown, dialog state, auto-close timers, GETs and a POST in flight | open, type, save, close, refetch | endpoint routes | modelled but for the sliding widget and toasts |
| Exact CVE lookup (`backend/services/cve_service.py`, `cache_service.py`, `nvd_service.py`) | `cves` row, Redis entry | `get_cve`, `_fetch_and_cache`, `_upsert_cve`, `_get_from_db`, background refresh | Redis, NVD, PostgreSQL | modelled |
| CVE browsing: prefix, fuzzy, latest (`backend/routes/cve.py`, `cve_service.py`) | none | `search_cves`, `_search_by_prefix`, `get_latest_cves` | PostgreSQL | modelled (`TableReaders`); the fuzzy tier cannot be reached |
| AI strikes route (`backend/routes/ai_cves.py`) | none | count, page, filter, count again | `ai_cves` | modelled (`TableReaders`) |
| Applications sync (`backend/services/cyperf_applications_service.py`) | two tables, two JSON files | fetch, save, two full replaces | controller, disk, PostgreSQL | modelled but for the paging |
| Search page (`SearchPage.tsx`, `SearchForm.tsx`, `useSearchCVE`) | the CVE searched for, one query per CVE | search, example, request feature | search route, contact form | modelled but for sorting |
| Contact form (`ContactFormSidebar.tsx`, `ConfirmDialog.tsx`, `useContactForm.ts`, `backend/routes/contact.py`) | sheet state, fields, error, response, a POST in flight | open, confirm, edit, submit, close | search page, contact route | modelled; the mail is sent in the background and left out |
| Listings, menu, footer (`App.tsx`, `Navigation.tsx`, `BrowsePage.tsx`, `CyperfAiCvesPage.tsx`, `CyperfAppsPage.tsx`, `StatusBar.tsx`) | route, open group, filter, the queries of page and footer | follow a link, reload, filter, refetch | list routes, sync-status | modelled but for sorting |
| L4-7 advisor (`L47ScenarioForm.tsx`, `L47AdvisorPage.tsx`, `agent-service/`) | form, mutation, result; two profile caches | edit, submit, start over; validate, fetch candidates | backend, Gemini | modelled for one user; ranking (floating point) and Gemini stay out |
| Health checks, guides, batch page, legacy assistant, migrations, deployment | none that evolves | | | not modelled (see section 7) |

What makes each part correct, and what is hard about it:

- **Sync engine.** The two tables always hold one whole fetch; the status row
  settles and describes the tables; every run ends. Hard: jobs with different
  ids run `perform_sync` at the same time, each in three or more transactions at
  READ COMMITTED, with a retry loop of which the database handler is a part, and
  with the ORM writing only the columns that changed.
- **Endpoint configuration.** A saved address beats the one of the environment;
  a stale cache entry does not stay. Hard: a GET fills the cache after three
  awaits, in any of which a POST may commit; Redis may fail after the commit.
- **Button and poller.** Every click leads to a result or to polling, the result
  goes away, the interval does not outlive its session. Hard: two components with an effect each, timers that outlive
  the session that started them, answers that arrive late.
- **CVE lookup.** A record that is cached is also stored, so that the last
  resort finds it; the cache catches up; every search ends. Hard: concurrent
  first lookups, three services that fail on their own, a refresh that goes on
  after the response.
- **Applications sync.** Neither table mixes two fetches; a request is answered
  whatever fails; the counts it reports are those of tables and files. Hard: two
  transactions after two fetches and two files, each of which may fail, by requests
  that overlap.
- **Listings of the backend.** Pages are complete, totals count the table,
  `testable` and the strikes of a record agree. Hard: several statements per
  answer and several answers per listing, while a sync replaces the tables.
- **Settings panel.** The Save button is off exactly while a save is under way,
  the widget never shows an address the server did not have and ends up showing
  the current one. Hard: the dialog can be dismissed while it saves; its answer,
  older GETs and the auto-close timer meet a later session of the dialog.
- **Search page and contact form.** One submission at a time of a mounted sheet;
  thanks only for what the server took, about the CVE on the page; nothing stays
  disabled.
  Hard: the sheet is unmounted, kept or handed another CVE by a search,
  depending on what is cached; neither closing nor unmounting it recalls its request.
- **Listings, footer, advisor.** A visit shows nothing older than itself;
  "empty" is not said of a failure; the footer catches up; form and agent agree
  on what a complete scenario is. Hard: requests fail, are repeated, pause while
  the browser is offline; the agent caches what it read for an hour.

`PROJECT.json` lists every hazard at its line with the property that covers it.

## 2. Modules

| Module | Models |
|---|---|
| `SyncEngine` | `perform_sync` run by the jobs `Syncs`, one step per statement, commit or remote call |
| `SyncContract` | what a full replace promises: an abstract specification with two variables, which `SyncEngine` and both halves of `AppsSync` implement and `TableReaders` takes for its environment |
| `SyncAlerts` | `SyncEngine` with the circuit breaker and a history of failures |
| `MCSyncEngine` | catalogues for TLC |
| `AppsSync` | `sync-all` with the applications service, by concurrent requests |
| `TableReaders`, `MCTableReaders` | the routes that read the strike tables in several statements; small tables for TLC |
| `EndpointConfig` | GET and POST of the controller's address |
| `SyncButton` | the button, its poller, its user, and the backend as they see it |
| `CveLookup` | exact lookups of one CVE by concurrent requests |
| `SettingsPanel`, `MCSettingsPanel` | the settings dialog and the widget's endpoint; three texts for TLC |
| `ReactQuery` | one query of `@tanstack/react-query` as the hooks use it (external): operators on a record |
| `ContactForm` | the contact sheet, its hook and its route |
| `SearchPage` | the search page, composed of `ReactQuery` and `ContactForm` |
| `Pages` | menu, routes, listings and footer |
| `Advisor` | the advisor's form and page, and the agent |
| `App` | `Pages` and `Advisor` composed as `App.tsx` does |
| `SyncEngineProofs`, `EndpointConfigProofs`, `SyncButtonProofs`, `CveLookupProofs`, `AppsSyncProofs`, `TableReadersProofs`, `SearchPageProofs`, `AppProofs` | theorems, each about the module of its name; `SyncEngineProofs` also about `SyncAlerts` and about the readers of `TableReaders` beside the engine, `AppProofs` also about `SettingsPanel`, which `App.tsx` renders on every page |

Each module has a short section of *variants*: forms of a definition with a
plausible bug, each of which makes one of the properties fail. No specification
uses them.

### SyncEngine

`pc[s]` is the statement a run is about to execute. `Begin` to `WriteStart` are
`record_sync_start`; `Fetch*` the call of the controller; `DeleteCve` to
`Commit` the `async with session.begin()` block; `WriteArtifacts` the two JSON
files; `ReadComplete`, `WriteComplete`, `CheckAfterSuccess` the bookkeeping
that the *same* `try` covers; `ReadFailure` to `CheckAfterFailure` the code
after the loop. `EndAttempt` is the loop: it continues with the next attempt or,
after the last, goes on to record the failure.

READ COMMITTED is modelled per row. `doomed` are the rows a DELETE matched when
it began and has not reached, `deleted` those it has. `LockRow` moves a row from one to
the other, in any order, and waits for another open transaction that has deleted it;
`Commit` takes its rows out of the pending DELETEs of the others, which then skip
them. It does *not* add the new rows to those DELETEs: that is the anomaly of
interest. `InsertRow` adds one row: it waits for a key that another open
transaction has inserted or deleted, and `Duplicates` fails on one that is committed and that
nobody is about to take away. What a statement has locked or inserted it keeps
while it waits, so runs may wait for each other in a ring; `Deadlocked` is being in one,
and PostgreSQL answers with the failure of one of them (`ReplaceFails`).

`sync_metadata` is a record of three columns. `Flush(old, new)` writes the
columns in which the record differs from what the session loaded and leaves the
others as they are now, which is what SQLAlchemy's unit of work does.

Left out: the choice of the controller address and the five-second waits;
timestamps. The keys of a statement come in the order of the table's pages or of the
fetch, which is any order here. SQLite, which the tests use, has a single
writer and shows a subset of these behaviours. A commit whose acknowledgement is
lost is not modelled.

`SyncContract` includes the end of the process (`Restart`): runs vanish, the
tables stay.

### AppsSync

`pc[r]` is the await a request is at. The fetches of the applications service
call a synchronous client inside `async` functions and the files are written
in between without an await: nothing else runs meanwhile, so `FetchAndSave` is one step.
`kind[r]` says which of the two tables a request is replacing; `Delete`, `Lock`,
`Insert`, `Commit` are those of `SyncEngine`. After a failure of any of this
the request goes on to the strikes (`AfterAppsFailure`): `Queue` with a scheduler,
`SyncDirectly` without. What the strikes' sync does is `SyncEngine`.
`saved` does not change, since nothing here depends on when it was read;
`alone` is history: no other request has been under way beside this one.

Two requests may leave the types of one fetch with the applications of
the other, and an older fetch may replace a newer one: the code promises neither, and
`TablesReplacedWhole` is about each table by itself.

### TableReaders

One client asks for one listing page by page (`FirstPage`, `NextPage`) while
`SyncContract` replaces the tables (`SyncStep`) and lookups add rows to
`cves` (`Learn`). Readers change nothing, so one stands for all. `Count`, `Page` and
`Recount` are GET /ai-cves; `Ids`, then `ReadMetadata` and `ReadStrikes` for each
id, GET /cve/latest; `Rows` and `Batch` the wildcard search. CVE ids are
numbers in their order; the order of the AI strikes, which all have the
timestamp of their sync, is any order, and another one for each page. Severity
and `ai_only` are the bit `filter`, applied where the code applies it: after the page is cut.
`gathered`, `twice`, `kept` and `moved` are history.

### EndpointConfig

A GET is `lookup`, `read`, `fill`; a POST is `validate`, `select`, one of
`insert`, `update` and `same`, then `invalidate` and `refill`. `same` is there because the ORM
writes nothing when the value is unchanged. Redis and the database fail at
any call. The probe of the controller succeeds or fails.

### SyncButton

One step is one browser event with all React effects it triggers, or one step
of the backend. `Allowed` names the circumstances a run admits: an impatient
user, polls that outlast the interval, a rerender that passes a new
`onSyncComplete`, the five-minute limit, a backend without scheduler, failing
requests, a `sync-status` that cannot read its table.

`StatusFields` are the fields an answer may carry the status in. The two sides of the
code disagree: the hook declares, and its tests use, a field `status`; the backend
sends `sync_status`, of which the hook reads nothing (`Read`). The passing runs
admit both, answer by answer, and the theorems any set, so what they say holds of the
program as it is and of one in which the names are made to agree. It is little
for the program as it is: a queued click leads to polling, no poll
ever ends it (`ButtonPollsOn.cfg`), and the five-minute limit leaves the button
disabled (`ButtonTimesOut.cfg`).

Left out: toasts; that a result is *announced* only once (the code announces it
again when the widget renders again).

### CveLookup

`nvd`, `stored` and `entry` are the versions of the record that NVD, the
table and Redis have; the strikes are one bit, `testable`. A request looks in
Redis (`cacheGet`, `ttl`), asks NVD (`nvd`, `backoff`), upserts (`rowGet`, then
`insert`, `update` or `same`), joins the strikes, fills the cache, or goes to
`fallback`. `answered` marks a request that has responded and is refreshing in
the background. After an error in a write the session refuses every statement
(`broken`): the handler does not roll it back. Because a record is a
version, two UPDATEs that mix columns of two versions cannot be seen here.

### SettingsPanel

`gets` are the widget's GET requests, each free, asked, or the endpoint the
server has answered with; `post` is the one POST. `Prefill` is the effect on
`[isOpen, currentEndpoint]`: it runs in every step that changes one of the two, so
an answer of a GET overwrites what the user has typed. `SaveSucceeds` is the
whole success path, with the timer it starts and the closing of the dialog by
the widget in the same step. `Clean` is what the backend's validator does to a
text (`models/__init__.py`): the widget shows the text that was typed until the
next GET, so "the server had it" is up to `Clean`. The server is one
address, `served`, that other administrators change and that reads as empty
when the table cannot be read; its inside is `EndpointConfig`.

### ReactQuery

A query has data or none, and is idle, asked, answered or paused. What depends on
timing (whether data is still fresh on focus, whether the browser is
offline) is a choice. Fetches of one query are
deduplicated, as in the library. A failed fetch is repeated `retries` times and then
leaves `failed` set; a query without data that is started again is pending
again. `isLoading` is pending *and* fetching: a first fetch that is paused is
neither loading nor failed, which several pages do not expect.

### ContactForm and SearchPage

`state` is the sheet's own state machine and `isOpen` belongs to the page, as in the
code; the effect on `isOpen` is part of the steps that change it. `outlived`
and `late` are history: they record that the sheet was closed after its POST was
sent, and that the answer of such a POST has come into the present session.
`Detail` is the text of a refusal: the backend's handler makes one of the list of errors in a
422. `SheetAfterSearch` is the `cveResult &&` around the sheet: a search for a CVE
without data unmounts it; one for a cached CVE keeps it. What an unmounted or
reloaded sheet has sent goes on in `orphans`: the server may still take it
(`OrphanHandled`), its answer changes nothing, and the next sheet knows nothing of it. So does
a request whose answer the client has given up after 15 seconds. The dialogs are modal: `PageUsable`.

The rest of the page's state, the sort arrows and the text typed in the search
box, decides nothing here; `ValidCveId` is the pattern of `SearchForm`, which
takes numbers of four or five digits only.

### Pages, Advisor, App

The menu's links are plain anchors: `PageLoads` starts every query anew. Routes
without a listing are one, `static`; the batch page has no link and is
reached by its address, like it. A `version` is the number of syncs that have
completed; a listing's data is the version its answer was read at. The
three views differ in how they sort out loading, error, filter and emptiness, and are
translated one by one.

In `Advisor` the form is unmounted when a result arrives; its fields are gone.
Fields stay editable while a request is under way. The agent is one step per
request: buckets that are missing are fetched, those that fail stay
missing, and a failure leaves no candidates. `profiles` survive the pages.

## 3. Runs

### Passing

| Run | Question | Instance |
|---|---|---|
| `SyncOverlap` | Do overlapping full replaces mix? (`OneFetch`) Can one still be held up once its mappings are in? (`PastMappingsUnhindered`) | 2 jobs, 2 attempts, catalogues that overlap, failing fetches, database errors, failing bookkeeping, crashes |
| `AppsOverlap` | Do overlapping replaces of the applications mix, is every request answered, do its counts describe tables and files? | 2 requests, 2 listings that share an id, failing controller, disk and database, crashes |
| `TableReads` | Are listings complete, do totals count, do `testable` and strikes agree, next to a sync and lookups? | 1 job, 3 fetches, 3 CVEs, 3 AI strikes, pages of 1 to 3 rows, 4 pages |
| `SyncSettles` | Does the status row settle, does the engine implement `SyncContract`, and does every run end although transactions wait for each other, in a ring too? | 2 jobs, 2 attempts, empty fetches and unique violations |
| `SyncAlone` | Do status row, count, error text and files describe the tables? | 1 job, 3 attempts, a catalogue with two strikes under one name |
| `EndpointAnswers` | Can the environment's address win over a saved one? Does a stale entry go away? | 2 GETs, 2 POSTs, 2 addresses, failing Redis and database |
| `ButtonAnswers` | Can the button stay at loading with nothing under way, or a click lead nowhere? | 3 clicks, both status fields, failing requests, direct syncs, degraded status |
| `ButtonDisturbed` | Does the interval stop with its session and the result go away, whatever happens? | 2 clicks, 2 polls, 2 timers, both status fields, every circumstance |
| `CveAnswers` | Can a request give up while Redis has a copy? Does the cache catch up, and does every search end? | 2 requests, 2 versions, 1 sync, 3 tries, every fault |
| `SettingsHeals` | Can two saves overlap, can the dialog stay disabled, can the widget show what the server never had, and does it end up right? | 3 texts with one prefix, 2 GETs in flight, 1 pending timer, other administrators, lost requests |
| `SearchContacts` | Can a mounted sheet send while it sends, thank for nothing or for another CVE, hide behind a search, or stay disabled? | 2 CVEs (one typed, one an example), every failure, offline |
| `AppPages` | Are listings as fresh as the visit, does "empty" mean empty, does the footer catch up, does the agent take what the form lets pass? | every route, 1 sync, every failure, offline |

The type invariants that TLAPS proves (section 6) are not checked again by the
runs, but for that of `TableReaders`.

Assumptions:

- `OneFetch` needs *any two usable fetches share a mapping*. Two fetches of one
  strike library do.
- `StatusSettles` and `ImplementsContract` are checked without crashes and
  without failing bookkeeping: a process that dies leaves the row at
  `running`, and a `record_sync_complete` that fails after the commit
  makes one run publish twice. (`ImplementsContract` is proved with crashes.)
- `TablesReplacedWhole` needs the same of listings that are not empty: they
  share an id. Those of one controller do.
- `LatestWalkComplete`, `AiTotalCountsAll` and `TestableMeansMapped` are
  about listings during which no table changes; `GetAllShowsKept` is not.
- `CountsDescribeRows`, `ErrorExplainsFailure` and `ArtifactsMirrorTables` are
  about one job at a time.
- `PastMappingsUnhindered` needs the same of fetches: two that share no mapping may both be
  past their first INSERT and wait for each other's AI strikes.
- `ButtonAnswers` assumes that no poll outlasts the interval, that nobody
  clicks while a result is shown, that the five-minute limit is not reached, and
  that the widget does not render again while a result is shown. `LoadingIsAlive`
  needs all of this: with any single one of the four circumstances added, TLC finds
  a button left at "loading" with nothing under way.
- `SendIsOff` is about the requests of the sheet that is mounted.

Most of these assumptions are necessary; the table below says what happens
without them.

### More behaviours worth a look

The following configurations are kept beside the runs. TLC violates
the property of each; they show what an assumption of the passing runs
excludes, or a sentence of the repository the code does not keep.

| Configuration (module) | Property | What the code does |
|---|---|---|
| `ButtonPollsOn` (`SyncButton`) | `StopsOnTerminal` | "Stops automatically when: - status changes from "running"" (`useSyncPolling.ts:6-7`): the hook reads `data.status`, the backend sends `sync_status` (`models/__init__.py:71`): no answer ends the polling, which runs until the five-minute limit |
| `ContactTwice` (`SearchPage`) | `OneSubmission` | Send is off while a submission is under way (`ContactFormSidebar.tsx:299`), but the flag is state of the mounted sheet (`useContactForm.ts:15`): another search (`SearchPage.tsx:251`) or a reload unmounts it with its POST on the way, and the next sheet sends again |
| `AppsElsewhere` (`AppsSync`) | `AppsFromEndpoint` | "Set CyPerf Controller IP at runtime" (`README.md:153`): the applications come from the controller of the environment, which the settings require (`config.py:68`), whatever is saved (`admin.py:304`) |
| `LatestByDate` (`MCTableReaders`) | `LatestNewestFirst` | "sorted by published date (newest first)" (`routes/cve.py:158`): the ids are sorted (`cve_service.py:150`) |
| `AiPagesOverlap` (`MCTableReaders`) | `AiPagesDisjoint` | "No overlap between pages" (`tests/test_ai_cves_endpoint.py:110`): the pages are ordered by a timestamp that all rows of a sync share (`ai_cves.py:86`) |
| `ReadersTear` (`MCTableReaders`) | `RecordsAgree` | "empty list if not testable" (`models/cve.py:70`): a sync between the ids and the strikes leaves a record testable with no strike (`cve_service.py:190-191`) |
| `SyncRetriesDatabase` (`MCSyncEngine`) | `NoRetryAfterDatabaseError` | "On database errors: ... Does NOT retry" (`sync_service.py:62-65`): the handler at 254-259 falls out of the try and the loop goes on with another fetch |
| `SyncNeverAlerts` (`SyncAlerts`) | `CircuitBreakerAlerts` | "alert on 3+ failures" (`sync_metadata.py:23`): the count at 173-209 is 0 or 1 and is compared with 3 (`sync_service.py:301`) |
| `EndpointStale` (`EndpointConfig`) | `FreshWhenQuiet` | "no window where the old cached value would be served" (`tests/test_cyperf_endpoint_integration.py:287`): a GET that read the table before a POST's commit fills the cache after it (`admin.py:75`) |
| `CveRace` (`CveLookup`) | `NeverRaises` | "do not raise infrastructure exceptions" (`cve_service.py:4-5`): two first lookups collide in the INSERT, the handler at 243-245 does not roll back, and the fallback raises: HTTP 500 |
| `SyncMixes` (`MCSyncEngine`) | `OneFetch` | two replaces with no mapping in common leave the rows of both; the comment at `sync_service.py:155` says "atomic full-replace" |
| `SyncReplacesThenFails` (`MCSyncEngine`) | `FailedSyncRetainsRows` | the rows are replaced, the bookkeeping fails, the retries fail: the run is reported as failed with the old count, though `sync_service.py:55-60` says a failure keeps all rows |
| `ButtonTimesOut` (`SyncButton`) | `LoadingIsAlive` | after the five minutes the button stays disabled with nothing under way (`useSyncPolling.ts:76`, `SyncButton.tsx:10`) |
| `ButtonReportsEarly` (`SyncButton`) | `SuccessIsEarned` | with the declared status field, the first poll reads, and the button shows, the result of the previous run (`useSyncPolling.ts:125`, `admin.py:262`) |
| `CveWithoutRedis` (`CveLookup`) | `NeverRaises` | a backend started without Redis answers every search with HTTP 500 (`dependencies.py:45`, `cache_service.py:8`) |
| `SettingsHidesSuccess` (`MCSettingsPanel`) | `SuccessIsSeen` | "Auto-close after 1 second so user sees the success message" (`SettingsPanel.tsx:82`): `onEndpointSaved` has closed the dialog already (`SyncWidget.tsx:45`) |
| `SettingsClosesOnError` (`MCSettingsPanel`) | `ErrorStaysOpen` | "On failure the error is shown in-line and the modal stays open" (`SettingsPanel.tsx:14`): the timer of an earlier success closes it |
| `ContactUnconfirmed` (`SearchPage`) | `ConfirmedFirst` | "shown after confirmation" (`ContactFormSidebar.tsx:150`): a late answer moves a new session from its confirmation to the form or the preview |
| `AdvisorSaysUnsynced` (`App`) | `NoProfilesMeansUnsynced` | "ensure backend data is synced" (`agent-service/main.py:101-104`) is said after the sync, from an empty list cached before it |
| `CveForgotten` (`CveLookup`) | `NotFoundMeansNowhere` | an empty answer of NVD is "not found" although the table has the CVE (`cve_service.py:217-222`) |

## 4. Bounds

- *Jobs.* Two runs are the smallest number that overlap. The properties
  relate a waiting transaction to the one it waits for; the theorems of
  section 6 hold for any number. Jobs are interchangeable, so `SyncOverlap`
  uses symmetry (it checks invariants only).
- *Attempts.* Three, as in the code, with one job; two with two jobs, which
  already has a first, a last and a repeated attempt.
- *Catalogues.* `Overlapping` has an empty fetch and two that share one mapping
  but not their AI strikes; so mixing in either table would be seen.
  `OverlappingWithClash` adds one with a duplicate synthetic id. `Disjoint`, of
  `SyncMixes`, has two with different mappings.
- *Endpoints, requests.* Two addresses and, per kind, two requests: one stale
  value and one new one. Requests restart, so sequences are not bounded.
- *Clicks, polls, timers.* Three clicks in `ButtonAnswers`, where the third is the first
  that meets two earlier sessions, otherwise two. Two polls in flight allow one to overtake
  the other and to survive its session; two timers allow one to fire after
  the other's session began. At the bounds, a poll is not sent and an answer
  waits.
- *CVE.* Two versions (old and new), one change of the strikes, three tries as
  in the code.
- *Applications.* Two requests, as for jobs, and two listings that share one id of
  two each. An empty listing deletes and inserts nothing that another could wait for;
  only the theorems cover it. Requests repeat without bound.
- *Tables read.* Three CVEs and three AI strikes are the fewest where a page of two is
  followed by another that is not full. The order of dates is not that of
  ids. Four pages: the last is empty for every size.
- *Settings.* `A`, the same with a prefix, and `B`: an old address, a new one, and
  one that changes on its way. Two GETs, so that one can overtake the other.
  One auto-close timer is pending at a time; it may still fire in a
  session after its own. With it pending, the answer of another save waits.
- *Search.* Two CVEs: one to look at and one whose result is cached, or not, when
  it is searched for. Verdicts change between fetches. Queries
  are not retried in the run (three retries in the code): a retry repeats the same request
  and shows nothing new to the page; the theorems hold for any number, and in
  `AppPages` the AI listing retries once, as in the code.
- *Pages.* One sync divides what was read into before and after. Visits,
  reloads and requests to the agent repeat without bound.

## 5. Fairness

- `SyncEngine`: strong fairness for each run's `Step`. Statements and remote calls
  return or raise (the HTTP client and the driver have timeouts). Strong and not weak, because
  a run that waits for a row is enabled only between the transactions of
  the other; PostgreSQL's lock queue serves it in the end. Of a ring of runs that
  wait for each other one at least fails: its deadlock check runs after a
  second of waiting. No job has to begin.
- `AppsSync`: the same for each request's `Step`; the client of the controller is
  assumed to return or raise. No request has to be sent.
- `TableReaders`: none; its properties are invariants.
- `EndpointConfig`, `CveLookup`: weak fairness for every started request and for
  the expiry, which Redis guarantees for an entry written with one. No request
  has to be sent, and no save or publication has to happen.
- `SyncButton`: weak fairness for the timers, the interval, the POST and the
  sync runs; strong fairness for a poll being read and its answer arriving,
  since single polls may fail again and again, and only the repetition by the interval makes an answer
  certain. The user has no obligation.
- `SettingsPanel`: weak fairness for handling a POST, for its end (its answer
  arrives or it fails), for the timers and the interval; strong fairness for a GET being
  handled and arriving, since the interval repeats it for ever. The user and other
  administrators have no obligation.
- `SearchPage`: weak fairness for a submission (axios gives up after 15
  seconds) and for the fetches of a search, which are answered or fail.
- `App`: the same for the advisor's request; for the footer the interval and the resumption
  are weakly fair, handling and arrival strongly: a fetch may be lost again and again, or
  be cut off by the next page, but not for ever. That the browser tab stays in the
  foreground (the interval stops in others) and comes online again is assumed.

## 6. Proofs

All theorems hold for every value of the constants that satisfies the ASSUME of
the module.

| Theorem | States | Argument |
|---|---|---|
| `TypeCorrect` | `TypeOK` of `SyncEngine` | inductive; the retry counter is bounded by `LastAttempt` |
| `StatusAlwaysSettles` | `StatusSettles`, while the bookkeeping cannot fail and nothing crashes | strengthened to `StatusOwed`: as long as the row says running some run still *owes* a write. The write of a run that loaded the row before another's write may leave the status alone, but only if it loaded a terminal one; `Owing` says which runs do not |
| `OverlappingSyncsDoNotMix` | `OneFetch`, under `Overlap` | `ReplaceInv`: at most one run is past its first INSERT, and its DELETE covers all that is committed (`Covers`). Of any other transaction the DELETE still covers all that is committed, or a mapping it has still to insert is committed and not its to delete (`Blocked`): the shared key, of which it then never gets past its INSERT. If nothing is committed between, it waits at that key for the uncommitted row, whatever it has locked or inserted before |
| `SyncImplementsContract` | `ImplementsContract`, under `Overlap`, without failing bookkeeping; crashes are `Restart` | step simulation from the same invariant; every step but `Commit` leaves the tables alone |
| `PastMappingsAlwaysUnhindered` | `PastMappingsUnhindered`, under `Overlap`: a replace whose mappings are in waits for nobody and meets no row of another. Before that two may wait for each other, and PostgreSQL ends one | `LockInv`: a row is deleted, and a key inserted, by one open transaction at a time. By `ReplaceInv` only one run is past its first INSERT, and only such a run holds AI strikes: whatever that run has still to delete or insert there is held by nobody |
| `RunsAreBounded` | of `SyncEngine`: each step of a run takes it to a later stage (`StagesLeft` falls) or over a row of the statement it is at (`RowsLeft` shrinks), which nobody else's step undoes: at most 50 stages with three attempts | a measure over `pc` and `attempt`, then one over rows; one lemma per group of stages |
| `ReadersBesideSyncs` | the readers of `TableReaders` beside `SyncEngine` itself implement `TableReaders`, under `Overlap`, without failing bookkeeping; so its four properties hold there | composition: the engine's step is one of the contract (`ContractStep`) or leaves the tables alone, the readers' step is the readers'; then the theorems of `TableReadersProofs`, through INSTANCE, whose assumption becomes a hypothesis |
| `CountsAlwaysDescribeRows`, `ErrorAlwaysExplains` | `CountsDescribeRows`, `ErrorExplainsFailure`, under `LoneJob`, without failing bookkeeping and crashes | `LoneInv`: nobody else has touched what the run relies on. Its DELETEs match all that is committed, so after its commit the tables *are* its fetch, which it still holds when it counts it; the row is as it has read it, so the column-wise write is a whole write. `CountInv` and `ErrorInv` say what the row says between the commit and the end |
| `ArtifactsAlwaysMirror` | `ArtifactsMirrorTables`, under `LoneJob`, while the files can be written and nothing crashes; the bookkeeping may fail | from `LoneInv`, which the bookkeeping does not enter: the commit is followed by the files before anything else can fail |
| `BreakerOnlyWatches` | `SyncAlerts` implements `SyncEngine` | each of its steps is one of the engine's: what is proved of the engine holds beside the breaker |
| `BreakerNeverAlerts` | the alert is never raised | the count is 0 or 1, the threshold 3; this is the general form of what `SyncNeverAlerts.cfg` shows |
| `EndpointTypes`, `SavedEndpointBeatsEnv` | `TypeOK`, `SavedBeatsEnv` of `EndpointConfig` | `Holding`: who is past its lookup holds an address of an administrator, so the environment's never enters the cache; a GET whose own read of the table fails is excepted |
| `ButtonTypes`, `IntervalNeverLeaks`, `ResultAlwaysGoesAway` | `TypeOK`, `NoLeakedInterval`, `ResultGoesAway` | their conjunction is inductive: wherever the interval is set `pollActive` is, and each result starts a timer |
| `LoadingIsAlwaysAlive` | `LoadingIsAlive`, under `Calm`: none of the four circumstances above | `InTurn`: one click at a time. A click whose POST is open finds the poller inactive (so that `setPollActive(true)` starts it), the poller is active only while the button is at loading, no poll is in flight outside a session and at most one in it, and a result has exactly one timer, which takes it away before the next click |
| `LookupTypes` | `TypeOK` of `CveLookup` | inductive; a request that waits for another try has one left |
| `CachedCopyIsAlwaysFound` | `CachedCopyIsFound` | `StoredFirst`: an entry in Redis implies a row, and so does a request past the commit |
| `SearchesAreBounded` | of `CveLookup`: a search, its background refresh included, ends after at most twelve awaits with three tries | `StepsLeft` over the stage and the tries left |
| `AppsTypeCorrect` | `TypeOK` of `AppsSync` | inductive |
| `CountsAreAlwaysHeld` | `CountsAreHeld` | `AloneInv`: a request that is alone has its DELETE match all that is committed, and the files are those it wrote; so each commit makes a table equal to its file. Being alone is lost for good as soon as another request begins |
| `TablesAreReplacedWhole` | `TablesReplacedWhole`, under `Overlap` | `ReplaceInv`, the argument of `OverlappingSyncsDoNotMix` for each table by itself (`Covers`, `Blocked`), where a transaction may also have nothing to delete or insert (`Idles`); then a step simulation of `SyncContract` for each `kind` |
| `RequestsAreBounded` | of `AppsSync`: a request is answered after at most eleven stages, with a step for each row of a statement | `StagesLeft`, which `InOrder` keeps falling from one table to the next, then `RowsLeft` |
| `ReadersTypeCorrect` | `TypeOK` of `TableReaders` | `RouteInv`: the statement tells the route, and the route which table the rows come from. That a page is no longer than its limit is a counting argument: the *place* of an id among its like is injective, and the places of a page are an interval (`PlaceInjective`, `SliceBound`). The loop over the ids has a next one because a finite set of numbers has a least element (`LeastExists`) |
| `LatestWalkAlwaysComplete` | `LatestWalkComplete` | `WalkHolds`: after a page, the walk has shown exactly the ids placed before the next page (`SliceExtends`). An empty page ends it: places leave no gap (`PlacesAreTaken`), so nothing can be placed after it (`EmptySliceEnds`) |
| `GetAllAlwaysShowsKept` | `GetAllShowsKept` | `KeptInPage`: the one page holds all mapped ids when it is read (`WholeSlice`), and what is kept can only shrink |
| `AiTotalAlwaysCountsAll` | `AiTotalCountsAll` | `AiHolds`: what total and rows are at each statement while nothing moves; a part with as many strikes as the whole is the whole |
| `TestableAlwaysMeansMapped` | `TestableMeansMapped` | `DetailsHold`: while nothing moves, the ids of a page are mapped, which makes the made-up `testable` of a CVE without metadata true |
| `SettingsTypeCorrect`, `OneSaveAtATime`, `WidgetShowsHeld` | `TypeOK`, `OneSave`, `ShownWasHeld` of `SettingsPanel` | `SettingsInv`: what a GET has been answered with was held by the server, and so was what a saved POST carries, once cleaned; `Clean` is idempotent |
| `SearchTypeCorrect`, `SendIsOffWhileSending`, `OpenSheetIsVisible`, `SheetIsConfirmed`, `ThanksAreEarned`, `ThanksAreForPage` | the type invariant of `SearchPage` and the five invariants of `SearchContacts` | `SearchInv`, one half for the sheet, one for the page. A submission whose sheet was not closed since belongs to the session on the screen and names its CVE (`SentByThisSession`): a search is possible only while no dialog is up, so it cannot come between. An open sheet implies a result, because queries that have data keep some (`QueryKeeps`) |
| `AppTypeCorrect`, `EmptyIsSaidOfEmpty`, `ListingsAreFresh`, `FormPassesAgent` | the type invariant of `App` and the three invariants of `AppPages` | `AppInv`: data and reply of a listing are between `entered` and `version`; a query that is idle has data or has failed, unless its first fetch is paused; a scenario under way has the metrics its focus needs |

Assumptions on the constants, beyond the types and ranges in the ASSUMEs:

- `Overlap` (in `SyncEngineProofs` for fetches, in `AppsSyncProofs` for listings):
  section 3. `SyncMixes` shows that the first is needed. It does not keep runs from
  waiting in a ring: before their first INSERT is through, two whose rows come in
  different orders may, and one of them fails. What it gives is `PastMappingsUnhindered`.
- `LoneJob`: one job. With two, on the instance of `SyncSettles`, TLC finds each of the
  three properties violated: the row may carry the count of one and the tables the
  fetch of the other. `SyncReplacesThenFails` shows why the bookkeeping must not fail.
- `ReadersAssumption` says that there are finitely many CVEs and strikes and at
  least one page size; otherwise nothing could be counted or asked for.

The invariants that the proofs induct on were checked by TLC on the
instances of the runs first.

Model-checked only: liveness (`EverySyncFinishes`, `StaleCacheHeals`,
`EveryClickLeadsOn`, `EntryCatchesUp`, `EverySearchEnds`, `SavingEnds`,
`WidgetCatchesUp`, `SendingEnds`, `FooterCatchesUp`,
`AdviceComes`, `EveryRequestAnswered`), which is out of the prover's reach, as it
needs fairness and ENABLED. The safety halves of three of them are proved: that
`EverySyncFinishes` and `EveryRequestAnswered` are not kept from holding by an endless
run, and that a search of `EverySearchEnds` takes a bounded number of awaits; what
TLC adds is that each step is taken, through rings of waits too.
Every invariant and action property that a run checks is also proved. The
instance of `ReadersBesideSyncs` has no run: its steps are those of `SyncEngine` and
`TableReaders`, whose runs check them.

## 7. Not modelled

- Health checks: two stateless probes. Migrations: the unique constraints appear
  as guards. Deployment: configuration.
- The legacy assistant (its router is not included; `AshAiAssistantPage`,
  `QuestionnaireForm`), `CyperfAppTypesPage`, `StaleDataWarning` and
  `TestableFilter`: no route or page renders them.
- `WhatIsCyperfPage`, `CyperfDeploymentPage`, `BatchPage`: text.
- Sorting: the arrows of a table change, its rows do not. Toasts and wording.
  The widget that slides out. The browser's back-forward cache, which may keep a page
  that a link has left. StrictMode's double mount, a matter of development builds.
- Several users of the agent at once; its ranking, which is floating-point
  arithmetic; Gemini, whose failure falls back to a template.
- The fuzzy tier of the search: the route admits exact and wildcard ids only
  (`routes/cve.py:29-32`), so `search_cves` never takes it. The GET routes of the
  applications: one statement on one table.
- The paging of the controller's lists: it ends at an empty page, and a list
  that changes meanwhile is a failing or a different listing here.
- The mail of the contact form: fire and forget, its failure is only logged.
- The connection that the background refresh keeps after its session is closed is
  a matter of SQLAlchemy's pool and the garbage collector.

## 8. Plan

In this order; each with an MC instance, its hazards' properties and, where
named, theorems.

1. `SyncAll` - `AppsSync` and `SyncEngine` composed as `sync-all` does, with the
   queued job or the direct sync in place of `Queue` and `SyncDirectly`.
2. `Scheduler` - cron, startup and manual jobs, one instance per id, misfire
   grace, coalescing, shutdown before or after the database is disposed of.
   Composes with `SyncContract`. Theorem: runs of one id never overlap, which
   `SyncEngine` assumes.
3. `StrikeFetch` - paging until an empty page over a library that changes,
   classification, synthetic ids. The result refines the `Catalogues` of
   `SyncEngine`; a reference definition over bounded inputs.
4. `AdvisorCache` - the two profile caches with concurrent refills.
5. `SettingsPanel` composed with `EndpointConfig` instead of one address.
6. Proofs along with these; for `AppsSync`, that the counts of a request still hold
   beside a `SyncEngine` in place of `Queue` and `SyncDirectly`.
