------------------------------ MODULE Advisor ------------------------------
(***************************************************************************)
(* The L4-7 Test Advisor: its form (L47ScenarioForm.tsx), the page around  *)
(* it (L47AdvisorPage.tsx), the mutation that sends the form               *)
(* (useGetL47Recommendations) and the agent service that answers           *)
(* (agent-service/main.py, recommendation_agent.py).  The fields stay      *)
(* editable while a request is under way; the agent keeps what it read of  *)
(* the backend for an hour, an empty list like any other.  App mounts the  *)
(* page.                                                                   *)
(***************************************************************************)
EXTENDS ReactQuery

VARIABLES
    focus,        \* testingFocus
    metrics,      \* the metric fields that are filled in
    useCase,      \* the use case: short, fit, or long, which stands for any text
                  \* over its limit (1000 characters, 500 for a metric)
    mutation,     \* status of the mutation
    scenario,     \* the request under way: what the agent receives, or its answer
    result,       \* what the page shows instead of the form
    profiles      \* the agent's cache, per bucket the version of the table read

form == <<focus, metrics, useCase, mutation>>
advisorPage == <<form, scenario, result>>
advisorVars == <<advisorPage, profiles>>

Buckets == {"apps", "strikes"}
Focuses == {"Application Profile", "Security / Attacks", "Both"}
UseCases == {"short", "fit", "long"}

NoScenario == [stage |-> "none"]
Scenarios == [stage : {"sent"}, focus : Focuses, metrics : SUBSET Buckets, useCase : UseCases]
Answers == [stage : {"answered"}, answer : {"cards", "none", "refused"}]

\* showAppMetric and showAttacksMetric; the agent asks for the same metrics
\* and fetches the same buckets.
Concerned(f) ==
    CASE f = "Application Profile" -> {"apps"}
      [] f = "Security / Attacks" -> {"strikes"}
      [] f = "Both" -> Buckets

-----------------------------------------------------------------------------
(* Variants: plausible mistakes in the code, none of which it makes.       *)

\* Only the metrics named in an error are sent, the others are left out.
MetricsOfFirst(f) == IF f = "Both" THEN {"apps"} ELSE Concerned(f)

\* The error of the mutation leaves it pending.
StillPending == "pending"

-----------------------------------------------------------------------------
FormMounted ==
    /\ focus = "Application Profile" /\ metrics = {} /\ useCase = "short"
    /\ mutation = "idle"

AdvisorInit ==
    /\ FormMounted
    /\ scenario = NoScenario /\ result = "form"
    /\ profiles = [b \in Buckets |-> {}]

\* The form is mounted anew: with the page, or after a result.
FormMounts ==
    /\ focus' = "Application Profile" /\ metrics' = {} /\ useCase' = "short"
    /\ mutation' = "idle"

\* The page is loaded.
AdvisorMounts == FormMounts /\ scenario' = NoScenario /\ result' = "form"

-----------------------------------------------------------------------------
(* The user.                                                               *)

ChooseFocus(f) ==
    /\ result = "form" /\ f # focus
    /\ focus' = f
    /\ UNCHANGED <<metrics, useCase, mutation, scenario, result, profiles>>

EditMetric(b) ==
    /\ result = "form" /\ b \in Concerned(focus)
    /\ metrics' = IF b \in metrics THEN metrics \ {b} ELSE metrics \union {b}
    /\ UNCHANGED <<focus, useCase, mutation, scenario, result, profiles>>

EditUseCase(u) ==
    /\ result = "form" /\ u # useCase
    /\ useCase' = u
    /\ UNCHANGED <<focus, metrics, mutation, scenario, result, profiles>>

Complete == Concerned(focus) \subseteq metrics /\ useCase # "short"

\* A metric that is not shown is left out of the request; a form that is not
\* complete only shows what is wrong with it.
MetricsSent(f) == Concerned(f)

SubmitScenario ==
    /\ result = "form" /\ mutation # "pending"
    /\ Complete
    /\ mutation' = "pending"
    /\ scenario' = [stage |-> "sent", focus |-> focus, useCase |-> useCase,
                    metrics |-> metrics \intersect MetricsSent(focus)]
    /\ UNCHANGED <<focus, metrics, useCase, result, profiles>>

\* Start Over, Try Again.
StartOver ==
    /\ result # "form"
    /\ result' = "form"
    /\ UNCHANGED <<form, scenario, profiles>>

-----------------------------------------------------------------------------
(* The agent.                                                              *)

\* What the models and the route accept.
Acceptable(s) == Concerned(s.focus) \subseteq s.metrics /\ s.useCase = "fit"

Answer(a) == scenario' = [stage |-> "answered", answer |-> a]

AgentRefuses ==
    /\ scenario.stage = "sent" /\ ~ Acceptable(scenario)
    /\ Answer("refused")
    /\ UNCHANGED <<form, result, profiles>>

\* The buckets that are not cached are fetched from the backend, whose tables
\* are those of the last sync (version 0: none yet).  A fetch that fails leaves
\* its bucket as it was and the candidates empty.
AgentRecommends(version) ==
    /\ scenario.stage = "sent" /\ Acceptable(scenario)
    /\ LET wanted == Concerned(scenario.focus)
           missing == {b \in wanted : profiles[b] = {}}
       IN \E failing \in SUBSET missing :
             /\ failing # {} => "errors" \in Network
             /\ profiles' = [b \in Buckets |->
                    IF b \in missing \ failing THEN {version} ELSE profiles[b]]
             /\ Answer(IF failing = {} /\ \E b \in wanted : profiles'[b] # {0}
                       THEN "cards" ELSE "none")
    /\ UNCHANGED <<form, result>>

\* An hour has passed since the bucket was filled.
BucketExpires(b) ==
    /\ profiles[b] # {}
    /\ profiles' = [profiles EXCEPT ![b] = {}]
    /\ UNCHANGED advisorPage

\* onSuccess replaces the form by the result: the form is unmounted, and its
\* fields with it.
ResultArrives ==
    /\ scenario.stage = "answered" /\ scenario.answer # "refused"
    /\ result' = scenario.answer
    /\ scenario' = NoScenario
    /\ FormMounts
    /\ UNCHANGED profiles

StatusAfterError == "error"

\* A refusal, or a request that fails on its way.
AdviceFails ==
    /\ \/ scenario.stage = "answered" /\ scenario.answer = "refused"
       \/ scenario.stage # "none" /\ "errors" \in Network
    /\ mutation' = StatusAfterError
    /\ scenario' = NoScenario
    /\ UNCHANGED <<focus, metrics, useCase, result, profiles>>

AdvisorNext(version) ==
    \/ \E f \in Focuses : ChooseFocus(f)
    \/ \E b \in Buckets : EditMetric(b) \/ BucketExpires(b)
    \/ \E u \in UseCases : EditUseCase(u)
    \/ SubmitScenario \/ StartOver
    \/ AgentRefuses \/ AgentRecommends(version) \/ ResultArrives \/ AdviceFails

AdvisorTypeOK(versions) ==
    /\ focus \in Focuses /\ metrics \subseteq Buckets /\ useCase \in UseCases
    /\ mutation \in {"idle", "pending", "error"}
    /\ scenario \in {NoScenario} \union Scenarios \union Answers
    /\ result \in {"form", "cards", "none"}
    /\ profiles \in [Buckets -> Optional(versions)]
=============================================================================
