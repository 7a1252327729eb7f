---------------------------- MODULE SyncContract ----------------------------
(***************************************************************************)
(* What a full replace promises to the rest of the backend, without its    *)
(* transactions, locks, retries and bookkeeping: the tables it replaces    *)
(* always hold the result of one whole fetch, and each run replaces them   *)
(* at most once.  perform_sync promises it of the two strike tables        *)
(* together, the applications service of each of its tables.               *)
(***************************************************************************)

CONSTANTS
    Syncs,      \* the jobs that may run a sync
    Results,    \* what a usable fetch can put into the tables
    NoRows      \* the contents of the tables before the first sync

VARIABLES
    store,      \* the committed contents of the tables
    phase       \* phase[s]: where the run of job s stands

vars == <<store, phase>>

Phases == {"idle", "running", "published"}

Init ==
    /\ store = NoRows
    /\ phase = [s \in Syncs |-> "idle"]

Start(s) ==
    /\ phase[s] = "idle"
    /\ phase' = [phase EXCEPT ![s] = "running"]
    /\ UNCHANGED store

Publish(s) ==
    /\ phase[s] = "running"
    /\ phase' = [phase EXCEPT ![s] = "published"]
    /\ \E r \in Results : store' = r

Finish(s) ==
    /\ phase[s] # "idle"
    /\ phase' = [phase EXCEPT ![s] = "idle"]
    /\ UNCHANGED store

\* The process ends, and with it every run.
Restart ==
    /\ phase' = [s \in Syncs |-> "idle"]
    /\ UNCHANGED store

Next == Restart \/ \E s \in Syncs : Start(s) \/ Publish(s) \/ Finish(s)

Spec == Init /\ [][Next]_vars
=============================================================================
