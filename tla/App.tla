-------------------------------- MODULE App --------------------------------
(***************************************************************************)
(* The pages of App.tsx behind their menu, with the footer below them: the *)
(* three listings and the advisor.  Following a link unmounts one page and *)
(* loads the next; the agent's cache and the tables outlive that.  The     *)
(* search page is SearchPage, the widget on the right SettingsPanel and    *)
(* SyncButton.                                                             *)
(***************************************************************************)
EXTENDS Pages, Advisor

appVars == <<pagesVars, advisorVars>>

AppInit == PagesInit /\ AdvisorInit

Visit ==
    /\ Reload \/ \E r \in Routes : FollowLink(r)
    /\ AdvisorMounts
    /\ UNCHANGED profiles

AppNext ==
    \/ PagesNext /\ UNCHANGED advisorVars
    \/ /\ route = "/l47-advisor"
       /\ AdvisorNext(version)
       /\ UNCHANGED pagesVars
    \/ Visit

AppSpec == AppInit /\ [][AppNext]_appVars

\* Requests are answered or fail, paused ones resume, and the footer's fetches
\* are repeated for ever, so that some get through; the user need do nothing.
AppFairness ==
    /\ WF_appVars(StatusDue /\ UNCHANGED advisorVars)
    /\ WF_appVars(StatusResumes /\ UNCHANGED advisorVars)
    /\ SF_appVars(StatusHandled /\ UNCHANGED advisorVars)
    /\ SF_appVars(StatusArrives /\ UNCHANGED advisorVars)
    /\ WF_appVars((AgentRefuses \/ AgentRecommends(version)) /\ UNCHANGED pagesVars)
    /\ WF_appVars((ResultArrives \/ AdviceFails) /\ UNCHANGED pagesVars)

FairAppSpec == AppSpec /\ AppFairness

-----------------------------------------------------------------------------
(* Properties.                                                             *)

AppTypeOK == PagesTypeOK /\ AdvisorTypeOK(Versions)

\* "No applications found. Run admin sync endpoint" (CyperfAppsPage.tsx:122-124)
\* is said only of a table the server found empty, never instead of an error
\* or because a filter matches nothing; the exception is a browser without a
\* network, whose first fetch is neither loading nor failed.
EmptyMeansEmpty ==
    View = "No applications found." /\ listing.stage # "paused" => listing.data = {0}

\* What a listing shows, rows or none, is never older than the visit: a sync
\* that had completed when the page was entered is in it, in spite of the five
\* minutes for which react-query calls its data fresh (useAPI.ts:84, 110, 167).
FreshOnArrival == \A v \in listing.data : v >= entered

\* Renders "time since last Cyperf sync" (StatusBar.tsx:2): the footer comes to
\* show the last sync that completed, again and again, however many fetches
\* are lost, late or paused and however often the user changes the page.
FooterCatchesUp == []<>(status.data = {version})

\* What the form lets pass the agent takes, unless it is too long
\* (L47ScenarioForm.tsx:50-71, agent-service/main.py:69-85): also when the
\* focus was changed back and forth and a metric is hidden.
AgentTakesForm ==
    scenario.stage = "sent" /\ ~ Acceptable(scenario) => scenario.useCase = "long"

\* The submit button does not stay at "Analyzing scenario..." while the user
\* waits on the page.
AdviceComes == mutation = "pending" ~> mutation # "pending"

\* "No matching profiles found. Try a more specific use case or ensure backend
\* data is synced." (agent-service/main.py:101-104)
NoProfilesMeansUnsynced == result = "none" => version = 0
=============================================================================
