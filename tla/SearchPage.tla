----------------------------- MODULE SearchPage -----------------------------
(***************************************************************************)
(* The search page (SearchPage.tsx, SearchForm.tsx, useSearchCVE) with the *)
(* contact sheet of ContactForm below it.  Each CVE that was searched has  *)
(* a query of its own in react-query's cache; the sheet is rendered only   *)
(* while the selected query has data, and its dialogs block the page.      *)
(***************************************************************************)
EXTENDS ReactQuery, ContactForm

CONSTANTS
    ShortIds,  \* CVEs whose number has four or five digits
    Examples,  \* CVEs with a button of their own
    Retries    \* of react-query: 3 by default, the model may take fewer

ASSUME SearchAssumption ==
    /\ Examples \subseteq Cves
    /\ ShortIds \subseteq Cves
    /\ Retries \in Nat

VARIABLES
    searchInput,  \* the CVE that is searched for
    queries       \* the query of each CVE

page == <<searchInput, queries>>
searchVars == <<page, formVars>>

Verdicts == {"testable", "untestable"}

-----------------------------------------------------------------------------
(* Variants: plausible mistakes in the code, none of which it makes.       *)

\* The dialogs do not block the page behind them.
NotModal == TRUE

-----------------------------------------------------------------------------
SearchInit ==
    /\ FormInit
    /\ searchInput = NoCve
    /\ queries = [c \in Cves |-> NoQuery]

\* data and isLoading of useSearchCVE(searchInput).
CveResult == IF searchInput = NoCve THEN {} ELSE queries[searchInput].data
SearchLoading == searchInput # NoCve /\ IsLoading(queries[searchInput])

\* What the page shows below the search form: DataTable and the details.
View ==
    IF SearchLoading THEN "Loading CVEs..."
    ELSE IF CveResult = {} THEN "No CVEs found" ELSE "details"

\* The dialogs are modal.
PageUsable == Dialog = "none"

QueryBecomes(c, q) == queries' = [queries EXCEPT ![c] = q]

-----------------------------------------------------------------------------
(* The user.                                                               *)

\* validateCVEID.
ValidCveId(id) == id \in ShortIds

\* Setting the same searchInput again changes nothing; a new one is observed,
\* and without data in its query the sheet is not rendered.
SheetAfterSearch(c) ==
    IF queries[c].data = {} THEN UnmountSheet ELSE UNCHANGED formVars

Search(c) ==
    /\ searchInput' = c
    /\ IF c = searchInput
       THEN UNCHANGED <<queries, formVars>>
       ELSE /\ \E q \in Observed(queries[c]) : QueryBecomes(c, q)
            /\ SheetAfterSearch(c)

\* The search box is disabled while a search is loading; other texts it
\* refuses with a message.
HandleSearch(id) ==
    /\ PageUsable /\ ~ SearchLoading
    /\ ValidCveId(id)
    /\ Search(id)

\* The example buttons are not.
HandleExample(c) ==
    /\ PageUsable
    /\ Search(c)

\* Request Feature is shown for a CVE that cannot be tested.
RequestFeature ==
    /\ PageUsable
    /\ CveResult = {"untestable"}
    /\ OpenSheet
    /\ UNCHANGED page

UseSheet ==
    /\ HandleConfirm \/ CloseSheet \/ EditFields \/ HandleSubmit(searchInput)
    /\ UNCHANGED page

-----------------------------------------------------------------------------
(* The queries; the selected one is fetched again on focus.                *)

Refocus ==
    /\ searchInput # NoCve
    /\ \E q \in Observed(queries[searchInput]) : QueryBecomes(searchInput, q)
    /\ UNCHANGED <<searchInput, formVars>>

Forget(c) ==
    /\ c # searchInput /\ queries[c].stage = "idle"
    /\ QueryBecomes(c, NoQuery)
    /\ UNCHANGED <<searchInput, formVars>>

\* Syncs and NVD change what the server knows at any time.
SearchHandled(c) ==
    /\ queries[c].stage = "asked"
    /\ \E v \in Verdicts : QueryBecomes(c, Handled(queries[c], v))
    /\ UNCHANGED <<searchInput, formVars>>

SearchArrives(c) ==
    /\ queries[c].stage = "answered"
    /\ QueryBecomes(c, Arrived(queries[c]))
    /\ UNCHANGED <<searchInput, formVars>>

SearchFailures(q) == Failures(q, Retries)

\* 404 for a CVE nobody knows, or a request that fails.
SearchFails(c) ==
    /\ \/ queries[c].stage = "asked"
       \/ queries[c].stage \in {"asked", "answered"} /\ "errors" \in Network
    /\ \E q \in SearchFailures(queries[c]) : QueryBecomes(c, q)
    /\ UNCHANGED <<searchInput, formVars>>

SearchResumes(c) ==
    /\ queries[c].stage = "paused"
    /\ QueryBecomes(c, Resumed(queries[c]))
    /\ UNCHANGED <<searchInput, formVars>>

\* The browser loads the page again; a request of the form that has left it is
\* not recalled.
Reload ==
    /\ isOpen' = FALSE /\ state' = "idle" /\ filled' = FALSE /\ isSubmitting' = FALSE
    /\ apiError' = "none" /\ apiResponse' = NoCve
    /\ request' = "none" /\ about' = NoCve /\ outlived' = FALSE
    /\ orphans' = LeftBehind
    /\ agreed' = FALSE /\ late' = FALSE
    /\ searchInput' = NoCve
    /\ queries' = [c \in Cves |-> NoQuery]
    /\ UNCHANGED accepted

SearchNext ==
    \/ \E id \in Cves : HandleSearch(id)
    \/ \E c \in Examples : HandleExample(c)
    \/ RequestFeature \/ UseSheet \/ Refocus \/ Reload
    \/ (SubmitHandled \/ SubmitSucceeds \/ SubmitFails) /\ UNCHANGED page
    \/ \E c \in Cves : OrphanHandled(c) /\ UNCHANGED page
    \/ \E c \in Cves : \/ SearchHandled(c) \/ SearchArrives(c) \/ SearchFails(c)
                       \/ SearchResumes(c) \/ Forget(c)

SearchSpec == SearchInit /\ [][SearchNext]_searchVars

\* Requests are answered or fail: axios gives up on a submission after 15
\* seconds, the browser on a search in the end.
SearchFairness ==
    /\ WF_searchVars(SubmitHandled /\ UNCHANGED page)
    /\ WF_searchVars((SubmitSucceeds \/ SubmitFails) /\ UNCHANGED page)
    /\ \A c \in Cves : WF_searchVars(SearchHandled(c) \/ SearchArrives(c) \/ SearchFails(c))

FairSearchSpec == SearchSpec /\ SearchFairness

-----------------------------------------------------------------------------
(* Properties.                                                             *)

SearchTypeOK ==
    /\ FormTypeOK
    /\ searchInput \in Cves \union {NoCve}
    /\ queries \in [Cves -> Query(Verdicts, Retries)]

\* As long as the sheet stays mounted, Send is off exactly while one of its
\* submissions is under way, in whatever session it was sent and however often
\* the sheet was closed and opened since (ContactFormSidebar.tsx:299,
\* useContactForm.ts:15).  A sheet that was unmounted or reloaded leaves its
\* submission behind, and its successor can send again (OneSubmission).
SendIsOff == isSubmitting <=> request # "none"

\* While the page counts the sheet as open, one of its dialogs is seen, with a
\* CVE's details behind it; it never waits, invisible, for the next result to
\* come up with (SearchPage.tsx:251-261, ContactFormSidebar.tsx:89-91).
OpenIsVisible == isOpen => Dialog # "none" /\ View = "details"

\* "Sidebar sheet - shown after confirmation" (ContactFormSidebar.tsx:150): a
\* session into which no earlier one has answered shows it only then.
SheetFollowsConfirmation == Dialog \in {"form", "preview"} /\ ~ late => agreed

\* "Email sent to the Keysight team." (ContactFormSidebar.tsx:196) is said
\* only of a request that the server has taken.
PreviewIsEarned == state = "success" => apiResponse \in accepted

\* The preview is about the CVE on the page, although the sheet survives a
\* search for a CVE that is in the cache (SearchPage.tsx:251-261).
PreviewIsAboutPage == Dialog = "preview" /\ ~ late => apiResponse = searchInput

\* The form does not stay at "Sending" (useContactForm.ts:34-36).
SendingEnds == isSubmitting ~> ~ isSubmitting

\* No submission is sent while another of this page is on its way to the server.
OneSubmission == request # "none" => orphans = {}

\* The same as SheetFollowsConfirmation, for every session.
ConfirmedFirst == Dialog \in {"form", "preview"} => agreed
=============================================================================
