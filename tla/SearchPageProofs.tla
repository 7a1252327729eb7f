-------------------------- MODULE SearchPageProofs --------------------------
(***************************************************************************)
(* Theorems about SearchPage for any set of CVEs, any number of retries    *)
(* and every kind of trouble: what the contact sheet shows and sends while *)
(* searches, submissions and their answers interleave.                     *)
(***************************************************************************)
EXTENDS SearchPage, TLAPS

-----------------------------------------------------------------------------
(* The operators of ReactQuery.                                            *)

\* No step leaves the type of a query.
LEMMA QuerySteps ==
    ASSUME NEW V, NEW r \in Nat, NEW q \in Query(V, r)
    PROVE  /\ Started(q) \subseteq Query(V, r)
           /\ Observed(q) \subseteq Query(V, r)
           /\ \A v \in V : Handled(q, v) \in Query(V, r)
           /\ Arrived(q) \in Query(V, r)
           /\ Failures(q, r) \subseteq Query(V, r)
           /\ Resumed(q) \in Query(V, r)
<1> USE DEF Query
<1>1. Started(q) \subseteq Query(V, r)
  <2>1. Sending \subseteq Stages
    BY DEF Sending, Stages
  <2>2. ASSUME NEW s \in Sending
        PROVE  [q EXCEPT !.stage = s, !.failed = q.failed /\ q.data # {}] \in Query(V, r)
    <3>1. (q.failed /\ q.data # {}) \in BOOLEAN
      OBVIOUS
    <3> QED
      BY <2>1, <3>1
  <2> QED
    BY <2>2 DEF Started
<1>2. Observed(q) \subseteq Query(V, r)
  BY <1>1 DEF Observed
<1>3. \A v \in V : Handled(q, v) \in Query(V, r)
  BY DEF Handled, Stages, Optional
<1>4. Arrived(q) \in Query(V, r)
  BY DEF Arrived, Stages, Optional
<1>5. Failures(q, r) \subseteq Query(V, r)
  <2>1. CASE q.tries < r
    <3>1. q.tries + 1 \in 0 .. r /\ Sending \subseteq Stages /\ {} \in Optional(V)
      BY <2>1 DEF Sending, Stages, Optional
    <3> QED
      BY <2>1, <3>1 DEF Failures, TriedAgain
  <2>2. CASE ~ (q.tries < r)
    BY <2>2 DEF Failures, GivenUp, Stages, Optional
  <2> QED
    BY <2>1, <2>2
<1>6. Resumed(q) \in Query(V, r)
  BY DEF Resumed, Stages
<1> QED
  BY <1>1, <1>2, <1>3, <1>4, <1>5, <1>6

\* A query that has data keeps some, and an answered one has an answer.
Answered(q) == q.stage = "answered" => q.reply # {}

LEMMA QueryKeeps ==
    ASSUME NEW V, NEW r \in Nat, NEW q \in Query(V, r), Answered(q)
    PROVE  /\ \A p \in Observed(q) : Answered(p) /\ p.data = q.data
           /\ \A v \in V : Answered(Handled(q, v)) /\ Handled(q, v).data = q.data
           /\ Answered(Arrived(q)) /\ (q.stage = "answered" => Arrived(q).data # {})
           /\ \A p \in Failures(q, r) : Answered(p) /\ p.data = q.data
           /\ Answered(Resumed(q)) /\ Resumed(q).data = q.data
<1> USE DEF Query, Answered
<1>1. ASSUME NEW p \in Started(q) PROVE Answered(p) /\ p.data = q.data
  <2>1. PICK s \in Sending : p = [q EXCEPT !.stage = s, !.failed = q.failed /\ q.data # {}]
    BY <1>1 DEF Started
  <2>2. p.data = q.data /\ p.stage = s
    BY <2>1
  <2> QED
    BY <2>2 DEF Sending
<1>2. \A p \in Observed(q) : Answered(p) /\ p.data = q.data
  BY <1>1 DEF Observed
<1>3. \A v \in V : Answered(Handled(q, v)) /\ Handled(q, v).data = q.data
  BY DEF Handled
<1>4. Answered(Arrived(q)) /\ (q.stage = "answered" => Arrived(q).data # {})
  BY DEF Arrived
<1>5. \A p \in Failures(q, r) : Answered(p) /\ p.data = q.data
  BY DEF Failures, TriedAgain, GivenUp, Sending
<1>6. Answered(Resumed(q)) /\ Resumed(q).data = q.data
  BY DEF Resumed
<1> QED
  BY <1>2, <1>3, <1>4, <1>5, <1>6

LEMMA NoQueryType == NoQuery \in Query(Verdicts, Retries) /\ Answered(NoQuery)
BY SearchAssumption DEF NoQuery, Query, Optional, Stages, Answered

-----------------------------------------------------------------------------
(* The inductive invariant.                                                *)

\* A sheet that is closed is idle, unless a late answer has moved it.
ClosedIsIdle == ~ isOpen => state = "idle" \/ late

\* Past its confirmation a sheet was confirmed, unless a late answer moved it.
PastConfirmation == state \in {"form", "submitting", "success"} /\ ~ late => agreed

\* A submission whose sheet was not closed since was sent by the session that
\* is on the screen, about the CVE on the page.
SentByThisSession ==
    request # "none" /\ ~ outlived => isOpen /\ (agreed \/ late) /\ about = searchInput

\* What the sheet thanks for.
PreviewIsOurs == isOpen /\ state = "success" /\ ~ late => apiResponse = searchInput

\* What is sent names a CVE, and what is taken is recorded.
TakenIsRecorded ==
    /\ request # "none" => about \in Cves
    /\ request = "accepted" => about \in accepted

SheetInv ==
    /\ FormTypeOK
    /\ SendIsOff
    /\ PreviewIsEarned
    /\ TakenIsRecorded
    /\ isOpen => state # "idle"
    /\ ClosedIsIdle
    /\ isOpen => PastConfirmation
    /\ SentByThisSession
    /\ PreviewIsOurs

PageInv ==
    /\ searchInput \in Cves \union {NoCve}
    /\ queries \in [Cves -> Query(Verdicts, Retries)]
    /\ \A c \in Cves : Answered(queries[c])
    /\ isOpen => CveResult # {}

SearchInv == SheetInv /\ PageInv

LEMMA SearchInvInit == SearchInit => SearchInv
<1> SUFFICES ASSUME SearchInit PROVE SearchInv
  OBVIOUS
<1>1. SheetInv
  BY DEF SearchInit, FormInit, SheetInit, SheetInv, FormTypeOK, SendIsOff, PreviewIsEarned,
         TakenIsRecorded, ClosedIsIdle, PastConfirmation, SentByThisSession, PreviewIsOurs
<1>2. PageInv
  BY NoQueryType DEF SearchInit, FormInit, PageInv
<1> QED
  BY <1>1, <1>2 DEF SearchInv

-----------------------------------------------------------------------------
(* The steps of the sheet.                                                 *)

\* What nobody waits for any more named a CVE.
LEMMA LeftBehindType ==
    ASSUME SheetInv PROVE LeftBehind \subseteq Cves
BY DEF SheetInv, FormTypeOK, TakenIsRecorded, LeftBehind

LEMMA SheetSteps ==
    ASSUME SearchInv, UNCHANGED searchInput,
           \/ OpenSheet \/ HandleConfirm \/ CloseSheet \/ EditFields
           \/ HandleSubmit(searchInput) \/ SubmitHandled \/ SubmitSucceeds \/ SubmitFails
           \/ \E c \in Cves : OrphanHandled(c)
    PROVE  SheetInv'
<1> USE DEF SheetInv, SendIsOff, PreviewIsEarned, TakenIsRecorded, ClosedIsIdle,
            PastConfirmation, SentByThisSession, PreviewIsOurs, sending, sheet
<1>0. SheetInv /\ FormTypeOK
  BY DEF SearchInv
<1>1. CASE OpenSheet
  <2>1. FormTypeOK'
    <3>1. state' \in {"idle", "confirming", "form", "submitting", "success"}
      BY <1>0, <1>1 DEF OpenSheet, FormTypeOK, StateAfterOpen
    <3> QED
      BY <1>0, <1>1, <3>1 DEF OpenSheet, FormTypeOK
  <2> QED
    BY <1>0, <1>1, <2>1 DEF OpenSheet, StateAfterOpen
<1>2. CASE HandleConfirm
  <2>1. FormTypeOK'
    BY <1>0, <1>2 DEF HandleConfirm, FormTypeOK
  <2>2. isOpen
    BY <1>2 DEF HandleConfirm, Dialog
  <2> QED
    BY <1>0, <1>2, <2>1, <2>2 DEF HandleConfirm
<1>3. CASE CloseSheet
  <2>1. FormTypeOK'
    BY <1>0, <1>3 DEF CloseSheet, FormTypeOK, StateAfterClose, SubmittingAfterClose
  <2> QED
    BY <1>0, <1>3, <2>1 DEF CloseSheet, StateAfterClose, SubmittingAfterClose
<1>4. CASE EditFields
  <2>1. FormTypeOK'
    BY <1>0, <1>4 DEF EditFields, FormTypeOK
  <2> QED
    BY <1>0, <1>4, <2>1 DEF EditFields
<1>5. CASE HandleSubmit(searchInput)
  <2>1. FormTypeOK'
    BY <1>0, <1>5 DEF HandleSubmit, FormTypeOK, SearchInv, PageInv
  <2>2. isOpen /\ state \in {"form", "submitting"} /\ request = "none"
    BY <1>0, <1>5 DEF HandleSubmit, Dialog, FormTypeOK
  <2>3. (~ late => agreed) /\ UNCHANGED <<isOpen, late, agreed>>
    BY <1>0, <1>5, <2>2 DEF HandleSubmit
  <2>4. searchInput \in Cves
    BY <2>2 DEF SearchInv, PageInv, CveResult
  <2> QED
    BY <1>0, <1>5, <2>1, <2>2, <2>3, <2>4 DEF HandleSubmit
<1>6. CASE SubmitHandled
  <2>1. FormTypeOK'
    BY <1>0, <1>6 DEF SubmitHandled, FormTypeOK
  <2> QED
    BY <1>0, <1>6, <2>1 DEF SubmitHandled
<1>7. CASE SubmitSucceeds
  <2>1. FormTypeOK'
    BY <1>0, <1>7 DEF SubmitSucceeds, Settle, FormTypeOK, Returned, SubmittingAfterAnswer
  <2> QED
    BY <1>0, <1>7, <2>1 DEF SubmitSucceeds, Settle, Returned, SubmittingAfterAnswer
<1>8. CASE SubmitFails
  <2>1. orphans' \subseteq Cves
    BY <1>0, <1>8, LeftBehindType DEF SubmitFails
  <2>2. FormTypeOK'
    BY <1>0, <1>8, <2>1 DEF SubmitFails, Settle, FormTypeOK, Detail, SubmissionFailed,
                            SubmittingAfterAnswer
  <2> QED
    BY <1>0, <1>8, <2>2 DEF SubmitFails, Settle, SubmittingAfterAnswer
<1>9. ASSUME NEW c \in Cves, OrphanHandled(c) PROVE SheetInv'
  <2>1. FormTypeOK'
    BY <1>0, <1>9 DEF OrphanHandled, FormTypeOK
  <2> QED
    BY <1>0, <1>9, <2>1 DEF OrphanHandled
<1> QED
  BY <1>1, <1>2, <1>3, <1>4, <1>5, <1>6, <1>7, <1>8, <1>9

LEMMA SheetChanges ==
    ASSUME SearchInv, UNCHANGED page,
           \/ OpenSheet /\ CveResult # {}
           \/ HandleConfirm \/ CloseSheet \/ EditFields \/ HandleSubmit(searchInput)
           \/ SubmitHandled \/ SubmitSucceeds \/ SubmitFails
           \/ \E c \in Cves : OrphanHandled(c)
    PROVE  SearchInv'
<1>1. UNCHANGED <<searchInput, queries>> /\ UNCHANGED CveResult
  BY DEF page, CveResult
<1>2. SheetInv'
  BY <1>1, SheetSteps
<1>3. isOpen' => isOpen \/ CveResult # {}
  BY DEF HandleConfirm, CloseSheet, EditFields, HandleSubmit, SubmitHandled, SubmitSucceeds,
         SubmitFails, Settle, OrphanHandled
<1>4. PageInv'
  BY <1>1, <1>3 DEF SearchInv, PageInv
<1> QED
  BY <1>2, <1>4 DEF SearchInv

-----------------------------------------------------------------------------
(* The steps of the page.                                                  *)

\* A query that keeps its type, and its data if it is the selected one,
\* disturbs nothing.
LEMMA QueryChanges ==
    ASSUME SearchInv, UNCHANGED <<searchInput, formVars>>,
           NEW c \in Cves, NEW q \in Query(Verdicts, Retries), QueryBecomes(c, q),
           Answered(q), c = searchInput => q.data # {} \/ q.data = queries[c].data
    PROVE  SearchInv'
<1>1. queries' \in [Cves -> Query(Verdicts, Retries)]
  BY DEF SearchInv, PageInv, QueryBecomes
<1>2. \A d \in Cves : queries'[d] = IF d = c THEN q ELSE queries[d]
  BY DEF SearchInv, PageInv, QueryBecomes
<1>3. CveResult # {} => CveResult' # {}
  BY <1>2, FormAssumption DEF CveResult, SearchInv, PageInv
<1>4. PageInv'
  BY <1>1, <1>2, <1>3 DEF SearchInv, PageInv, formVars
<1>5. SheetInv'
  BY DEF SearchInv, SheetInv, FormTypeOK, SendIsOff, PreviewIsEarned, TakenIsRecorded,
         ClosedIsIdle, PastConfirmation, SentByThisSession, PreviewIsOurs,
         formVars, sheet, sending
<1> QED
  BY <1>4, <1>5 DEF SearchInv

\* The search box is out of reach while the sheet is open.
LEMMA SearchStep ==
    ASSUME SearchInv, NEW c \in Cves, PageUsable, Search(c)
    PROVE  SearchInv'
<1>1. ~ isOpen
  BY DEF PageUsable, Dialog, SearchInv, SheetInv, FormTypeOK
<1>2. ~ isOpen' /\ SheetInv'
  <2>1. CASE UnmountSheet
    BY <1>1, <2>1, LeftBehindType DEF UnmountSheet, SearchInv, SheetInv, FormTypeOK, SendIsOff, PreviewIsEarned,
           TakenIsRecorded, ClosedIsIdle, PastConfirmation, SentByThisSession, PreviewIsOurs
  <2>2. CASE UNCHANGED formVars
    BY <1>1, <2>2 DEF SearchInv, SheetInv, FormTypeOK, SendIsOff, PreviewIsEarned,
           TakenIsRecorded, ClosedIsIdle, PastConfirmation, SentByThisSession, PreviewIsOurs,
           formVars, sheet, sending
  <2> QED
    BY <2>1, <2>2 DEF Search, SheetAfterSearch
<1>3. CASE c = searchInput
  BY <1>2, <1>3 DEF Search, SearchInv, PageInv
<1>4. CASE c # searchInput
  <2>1. PICK q \in Observed(queries[c]) : QueryBecomes(c, q)
    BY <1>4 DEF Search
  <2>2. q \in Query(Verdicts, Retries) /\ Answered(q)
    BY QuerySteps, QueryKeeps, SearchAssumption DEF SearchInv, PageInv
  <2>3. \A d \in Cves : queries'[d] = IF d = c THEN q ELSE queries[d]
    BY <2>1 DEF SearchInv, PageInv, QueryBecomes
  <2>4. queries' \in [Cves -> Query(Verdicts, Retries)]
    BY <2>1, <2>2 DEF SearchInv, PageInv, QueryBecomes
  <2>5. searchInput' = c
    BY DEF Search
  <2> QED
    BY <1>2, <2>2, <2>3, <2>4, <2>5 DEF SearchInv, PageInv
<1> QED
  BY <1>3, <1>4

LEMMA SearchInvStep == SearchInv /\ [SearchNext]_searchVars => SearchInv'
<1> SUFFICES ASSUME SearchInv, [SearchNext]_searchVars PROVE SearchInv'
  OBVIOUS
<1>1. ASSUME NEW c \in Cves
      PROVE  /\ queries[c] \in Query(Verdicts, Retries) /\ Answered(queries[c])
             /\ Retries \in Nat
  BY SearchAssumption DEF SearchInv, PageInv
<1>2. ASSUME NEW c \in Cves, HandleSearch(c) \/ HandleExample(c) PROVE SearchInv'
  BY <1>2, SearchStep DEF HandleSearch, HandleExample
<1>3. CASE RequestFeature \/ UseSheet
  BY <1>3, SheetChanges DEF RequestFeature, UseSheet
<1>4. CASE \/ (SubmitHandled \/ SubmitSucceeds \/ SubmitFails) /\ UNCHANGED page
           \/ \E c \in Cves : OrphanHandled(c) /\ UNCHANGED page
  BY <1>4, SheetChanges
<1>5. CASE Refocus
  <2>1. searchInput \in Cves
    BY <1>5 DEF Refocus, SearchInv, PageInv
  <2>2. PICK q \in Observed(queries[searchInput]) : QueryBecomes(searchInput, q)
    BY <1>5 DEF Refocus
  <2>3. /\ queries[searchInput] \in Query(Verdicts, Retries) /\ Answered(queries[searchInput])
        /\ Retries \in Nat
    BY <1>1, <2>1
  <2>4. q \in Query(Verdicts, Retries)
    BY <2>2, <2>3, QuerySteps
  <2>5. Answered(q) /\ q.data = queries[searchInput].data
    BY <2>2, <2>3, QueryKeeps
  <2> QED
    BY <1>5, <2>4, <2>5, <2>1, <2>2, <2>3, QueryChanges DEF Refocus
<1>6. ASSUME NEW c \in Cves, Forget(c) PROVE SearchInv'
  BY <1>6, NoQueryType, QueryChanges DEF Forget
<1>7. ASSUME NEW c \in Cves, SearchHandled(c) PROVE SearchInv'
  <2>1. PICK v \in Verdicts : QueryBecomes(c, Handled(queries[c], v))
    BY <1>7 DEF SearchHandled
  <2> DEFINE q == Handled(queries[c], v)
  <2>2. q \in Query(Verdicts, Retries)
    BY <1>1, QuerySteps
  <2>3. Answered(q) /\ q.data = queries[c].data
    BY <1>1, QueryKeeps
  <2> QED
    BY <1>7, <2>3, <2>1, <2>2, QueryChanges DEF SearchHandled
<1>8. ASSUME NEW c \in Cves, SearchArrives(c) PROVE SearchInv'
  <2> DEFINE q == Arrived(queries[c])
  <2>1. q \in Query(Verdicts, Retries) /\ Answered(q) /\ q.data # {}
    BY <1>1, <1>8, QuerySteps, QueryKeeps DEF SearchArrives
  <2> QED
    BY <1>8, <2>1, QueryChanges DEF SearchArrives
<1>9. ASSUME NEW c \in Cves, SearchFails(c) PROVE SearchInv'
  <2>1. PICK q \in Failures(queries[c], Retries) : QueryBecomes(c, q)
    BY <1>9 DEF SearchFails, SearchFailures
  <2>2. q \in Query(Verdicts, Retries) /\ Answered(q) /\ q.data = queries[c].data
    BY <1>1, <2>1, QuerySteps, QueryKeeps
  <2> QED
    BY <1>9, <2>1, <2>2, QueryChanges DEF SearchFails
<1>10. ASSUME NEW c \in Cves, SearchResumes(c) PROVE SearchInv'
  <2> DEFINE q == Resumed(queries[c])
  <2>1. q \in Query(Verdicts, Retries) /\ Answered(q) /\ q.data = queries[c].data
    BY <1>1, QuerySteps, QueryKeeps
  <2> QED
    BY <1>10, <2>1, QueryChanges DEF SearchResumes
<1>11. CASE Reload
  <2>1. SheetInv'
    BY <1>11, LeftBehindType DEF Reload, SearchInv, SheetInv, FormTypeOK, SendIsOff, PreviewIsEarned,
           TakenIsRecorded, ClosedIsIdle, PastConfirmation, SentByThisSession, PreviewIsOurs
  <2>2. PageInv'
    BY <1>11, NoQueryType DEF Reload, PageInv
  <2> QED
    BY <2>1, <2>2 DEF SearchInv
<1>12. CASE UNCHANGED searchVars
  BY <1>12 DEF searchVars, page, formVars, sheet, sending, SearchInv, SheetInv, PageInv,
         CveResult, FormTypeOK, SendIsOff, PreviewIsEarned, TakenIsRecorded, ClosedIsIdle,
         PastConfirmation, SentByThisSession, PreviewIsOurs, Answered
<1>13. Examples \subseteq Cves
  BY SearchAssumption
<1> QED
  BY <1>2, <1>3, <1>4, <1>5, <1>6, <1>7, <1>8, <1>9, <1>10, <1>11, <1>12, <1>13 DEF SearchNext

LEMMA SearchInvariant == SearchSpec => []SearchInv
BY SearchInvInit, SearchInvStep, PTL DEF SearchSpec

-----------------------------------------------------------------------------
(* The theorems.                                                           *)

\* The variables of page and sheet keep their types.
THEOREM SearchTypeCorrect == SearchSpec => []SearchTypeOK
<1>1. SearchInv => SearchTypeOK
  BY DEF SearchInv, SheetInv, PageInv, SearchTypeOK
<1> QED
  BY <1>1, SearchInvariant, PTL

\* For any searches, sessions and answers in between: a mounted sheet's Send is
\* off exactly while a submission of that sheet is under way
\* (ContactFormSidebar.tsx:299, useContactForm.ts:15).
THEOREM SendIsOffWhileSending == SearchSpec => []SendIsOff
<1>1. SearchInv => SendIsOff
  BY DEF SearchInv, SheetInv
<1> QED
  BY <1>1, SearchInvariant, PTL

\* A sheet that counts as open is seen (SearchPage.tsx:251-261).
THEOREM OpenSheetIsVisible == SearchSpec => []OpenIsVisible
<1>1. CveResult # {} => View = "details"
  BY DEF CveResult, SearchLoading, IsLoading, View
<1>2. SearchInv /\ isOpen => Dialog # "none"
  BY DEF SearchInv, SheetInv, FormTypeOK, Dialog
<1>3. SearchInv => OpenIsVisible
  BY <1>1, <1>2 DEF SearchInv, PageInv, OpenIsVisible
<1> QED
  BY <1>3, SearchInvariant, PTL

\* The form is shown after the confirmation, where no earlier session's answer
\* has interfered (ContactFormSidebar.tsx:150).
THEOREM SheetIsConfirmed == SearchSpec => []SheetFollowsConfirmation
<1>1. SearchInv => SheetFollowsConfirmation
  BY DEF SearchInv, SheetInv, FormTypeOK, SheetFollowsConfirmation, Dialog, PastConfirmation
<1> QED
  BY <1>1, SearchInvariant, PTL

\* The sheet thanks only for requests the server has taken
\* (ContactFormSidebar.tsx:196).
THEOREM ThanksAreEarned == SearchSpec => []PreviewIsEarned
<1>1. SearchInv => PreviewIsEarned
  BY DEF SearchInv, SheetInv
<1> QED
  BY <1>1, SearchInvariant, PTL

\* The preview is about the CVE on the page, where no earlier session's answer
\* has interfered (SearchPage.tsx:251-261).
THEOREM ThanksAreForPage == SearchSpec => []PreviewIsAboutPage
<1>1. SearchInv => PreviewIsAboutPage
  BY DEF SearchInv, SheetInv, FormTypeOK, PreviewIsAboutPage, Dialog, PreviewIsOurs
<1> QED
  BY <1>1, SearchInvariant, PTL
=============================================================================
