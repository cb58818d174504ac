---------------------------- MODULE JobLifecycle ----------------------------
(***************************************************************************)
(* What POST /v2/ingest promises of a job, as its client sees it:          *)
(*                                                                         *)
(*    queued -> discovering -> processing -> completed | failed | canceled *)
(*                                                                         *)
(* A job ends once, only a job that was processing completes, and the      *)
(* deliverable appears together with "completed" and is fixed from then.   *)
(***************************************************************************)
CONSTANTS Jobs, Contents

VARIABLES
    state,         \* status of each job
    deliverable    \* contents of the JSONL that a client can download

vars == <<state, deliverable>>

Running == {"queued", "discovering", "processing"}

Init ==
    /\ state = [j \in Jobs |-> "none"]
    /\ deliverable = [j \in Jobs |-> {}]

Move(j, from, to) ==
    /\ state[j] \in from
    /\ state' = [state EXCEPT ![j] = to]

Accept(j)   == Move(j, {"none"}, "queued") /\ UNCHANGED deliverable
Discover(j) == Move(j, {"queued"}, "discovering") /\ UNCHANGED deliverable
Process(j)  == Move(j, {"queued", "discovering"}, "processing") /\ UNCHANGED deliverable
Fail(j)     == Move(j, Running, "failed") /\ UNCHANGED deliverable
Cancel(j)   == Move(j, Running, "canceled") /\ UNCHANGED deliverable
Complete(j, d) ==
    /\ Move(j, {"processing"}, "completed")
    /\ deliverable' = [deliverable EXCEPT ![j] = d]

Next ==
    \E j \in Jobs :
        \/ Accept(j) \/ Discover(j) \/ Process(j) \/ Fail(j) \/ Cancel(j)
        \/ \E d \in SUBSET Contents : Complete(j, d)

Spec == Init /\ [][Next]_vars
=============================================================================
