----------------------------- MODULE ReactQuery -----------------------------
(***************************************************************************)
(* One query of @tanstack/react-query, version 5, as the hooks of          *)
(* frontend/src/hooks/useAPI.ts use it: a library, modelled from its use.  *)
(* A fetch is asked, answered by the server, and its answer arrives; a     *)
(* fetch that fails is repeated and given up after its retries; while the  *)
(* browser is offline a fetch is paused.  The operators give the query     *)
(* after a step, those named in the plural a set of possible ones.         *)
(***************************************************************************)
EXTENDS Naturals

CONSTANT
    Network  \* what may happen to requests, a subset of {"errors", "offline"}

ASSUME NetworkAssumption == Network \subseteq {"errors", "offline"}

Stages == {"idle", "asked", "answered", "paused"}

\* data and reply are the empty set, or the set of the one value they hold.
Optional(Values) == {{}} \union {{v} : v \in Values}

Query(Values, retries) ==
    [data : Optional(Values), stage : Stages, reply : Optional(Values),
     tries : 0 .. retries, failed : BOOLEAN]

NoQuery == [data |-> {}, stage |-> "idle", reply |-> {}, tries |-> 0, failed |-> FALSE]

Sending == {"asked"} \union (IF "offline" \in Network THEN {"paused"} ELSE {})

\* A query without data is pending again when it is fetched again.
Started(q) ==
    {[q EXCEPT !.stage = s, !.failed = q.failed /\ q.data # {}] : s \in Sending}

\* What an observer does to a query that is mounted, focused or due.
Observed(q) ==
    IF q.stage # "idle" THEN {q}
    ELSE IF q.data = {} THEN Started(q) ELSE {q} \union Started(q)

Handled(q, v) == [q EXCEPT !.stage = "answered", !.reply = {v}]

Arrived(q) ==
    [data |-> q.reply, stage |-> "idle", reply |-> {}, tries |-> 0, failed |-> FALSE]

GivenUp(q) ==
    [data |-> q.data, stage |-> "idle", reply |-> {}, tries |-> 0, failed |-> TRUE]

TriedAgain(q) ==
    {[data |-> q.data, stage |-> s, reply |-> {}, tries |-> q.tries + 1,
      failed |-> q.failed] : s \in Sending}

Failures(q, retries) == IF q.tries < retries THEN TriedAgain(q) ELSE {GivenUp(q)}

Resumed(q) == [q EXCEPT !.stage = "asked"]

\* isLoading: pending and fetching; not while paused.
IsLoading(q) == q.data = {} /\ ~ q.failed /\ q.stage \in {"asked", "answered"}
IsError(q) == q.failed
=============================================================================
