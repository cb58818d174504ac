------------------------------- MODULE Search -------------------------------
(***************************************************************************)
(* The search provider behind /v2/lookup: SerperAdapter._post with its     *)
(* retries, and the circuit breaker all its callers share.  The event loop *)
(* runs a search without interruption between two awaits (the post, the    *)
(* backoff), so searches interleave only there.                            *)
(***************************************************************************)
EXTENDS Common

CONSTANTS
    Searchers,      \* requests that search, over and over
    Threshold,      \* failure_threshold
    HalfOpenMax,    \* half_open_max_calls
    MaxAttempts     \* _MAX_ATTEMPTS

ASSUME SearchAssumption == {Threshold, HalfOpenMax, MaxAttempts} \subseteq Nat \ {0}

VARIABLES
    breaker,    \* the state of the service; known: last_failure_time is there; aged: it is
                \* longer ago than the timeout
    search,     \* each caller: where it waits, its posts so far
    proven      \* successes recorded since the last failure (history)

searchVars == <<breaker, search, proven>>

NotSearching == [at |-> "idle", tries |-> 0]
At(s, at) == search' = [search EXCEPT ![s].at = at]

-----------------------------------------------------------------------------
(* CircuitBreaker *)

\* is_open, and the state it leaves
IsOpen(b) == \/ b.state = "open" /\ ~(b.known /\ b.aged)
             \/ b.state = "half_open" /\ b.tests >= HalfOpenMax
Asked(b) == IF b.state = "open" /\ b.known /\ b.aged
            THEN [b EXCEPT !.state = "half_open", !.tests = 0] ELSE b

\* record_failure; the count is only compared with the threshold
AfterFailure(b) ==
    LET failed == [b EXCEPT !.failures = Least(@ + 1, Threshold), !.known = TRUE, !.aged = FALSE]
    IN  IF b.state = "half_open" THEN [failed EXCEPT !.state = "open", !.tests = 0]
        ELSE IF failed.failures >= Threshold THEN [failed EXCEPT !.state = "open"] ELSE failed

\* record_success; in any state but half-open the failures are forgotten
Forgotten(b) == [b EXCEPT !.failures = 0, !.known = FALSE, !.aged = FALSE]
MutAfterSuccess(b) ==      \* one success is enough
    IF b.state # "half_open" THEN Forgotten(b)
    ELSE [Forgotten(b) EXCEPT !.state = "closed", !.tests = 0]
AfterSuccess(b) ==
    IF b.state # "half_open" THEN Forgotten(b)
    ELSE IF b.tests + 1 < HalfOpenMax THEN [b EXCEPT !.tests = @ + 1]
    ELSE [Forgotten(b) EXCEPT !.state = "closed", !.tests = 0]

-----------------------------------------------------------------------------
(* _post *)

\* at the top of each attempt
Attempt(s) ==
    /\ breaker' = Asked(breaker)
    /\ search' = [search EXCEPT ![s] = IF IsOpen(breaker) THEN NotSearching
                                       ELSE [at |-> "posted", tries |-> @.tries + 1]]
    /\ UNCHANGED proven

BeginSearch(s) == search[s].at = "idle" /\ Attempt(s)
RetrySearch(s) == search[s].at = "backoff" /\ Attempt(s)

\* a 200
SearchFound(s) ==
    /\ search[s].at = "posted"
    /\ breaker' = AfterSuccess(breaker)
    /\ proven' = Least(proven + 1, HalfOpenMax)
    /\ search' = [search EXCEPT ![s] = NotSearching]

\* a 200 whose body is no JSON: a success and then a failure
Garbled(s) ==
    /\ search[s].at = "posted"
    /\ breaker' = AfterFailure(AfterSuccess(breaker))
    /\ proven' = 0
    /\ search' = [search EXCEPT ![s] = NotSearching]

\* a rejected key is nobody's outage
Unauthorised(s) ==
    /\ search[s].at = "posted"
    /\ search' = [search EXCEPT ![s] = NotSearching]
    /\ UNCHANGED <<breaker, proven>>

\* a transport error or a status worth a retry, while attempts are left
Transient(s) ==
    /\ search[s].at = "posted" /\ search[s].tries < MaxAttempts
    /\ At(s, "backoff")
    /\ UNCHANGED <<breaker, proven>>

\* another status, or the last attempt
GiveUp(s) ==
    /\ search[s].at = "posted"
    /\ breaker' = AfterFailure(breaker)
    /\ proven' = 0
    /\ search' = [search EXCEPT ![s] = NotSearching]

\* the request's task is cancelled by the timeout: no outcome is recorded
SearchCancelled(s) ==
    /\ search[s].at # "idle"
    /\ search' = [search EXCEPT ![s] = NotSearching]
    /\ UNCHANGED <<breaker, proven>>

\* the breaker's timeout passes
Elapse ==
    /\ breaker.known /\ ~breaker.aged
    /\ breaker' = [breaker EXCEPT !.aged = TRUE]
    /\ UNCHANGED <<search, proven>>

-----------------------------------------------------------------------------
SearchInit ==
    /\ breaker = [state |-> "closed", failures |-> 0, tests |-> 0, known |-> FALSE,
                  aged |-> FALSE]
    /\ search = [s \in Searchers |-> NotSearching]
    /\ proven = 0

SearchNext ==
    \/ \E s \in Searchers :
          \/ BeginSearch(s) \/ RetrySearch(s) \/ SearchFound(s) \/ Garbled(s) \/ Unauthorised(s)
          \/ Transient(s) \/ GiveUp(s) \/ SearchCancelled(s)
    \/ Elapse

-----------------------------------------------------------------------------
(* Properties *)

\* The breaker closes only on the last of HalfOpenMax successes recorded with no failure
\* between, and never straight from open.  Answers of searches begun before the outage count
\* among them when they come in half open (circuit_breaker.record_success).
ClosesOnProof ==
    [][breaker.state # "closed" /\ breaker'.state = "closed" =>
          breaker.state = "half_open" /\ proven >= HalfOpenMax - 1]_searchVars
=============================================================================
