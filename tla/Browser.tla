------------------------------ MODULE Browser ------------------------------
(***************************************************************************)
(* The one headless Chromium and the slots that bound its use:             *)
(* BrowserManager, and the renders of its two kinds of callers: crawls     *)
(* (crawler_slot: hooks on the shared crawler, a watchdog that recycles    *)
(* the browser) and conversions (get_context: a context of their own, a    *)
(* time limit).  Tasks interleave at awaits; the browser may die or hang   *)
(* at any moment, and a task may be cancelled at any await.                *)
(***************************************************************************)
EXTENDS Common, FiniteSets

CONSTANTS
    Renderers,      \* tasks that render
    Slots,          \* max_concurrent_contexts
    MaxLaunches,    \* bound on launches
    MaxBrowserFaults

\* __init__ clamps the slots to one
ASSUME BrowserAssumption == IsFiniteSet(Renderers) /\ Slots \in Nat \ {0}

VARIABLES
    chromium,   \* each process launched: "up", "wedged", "dead"
    manager,    \* its crawler, whether its browser is exposed (and it is initialised)
    launching,  \* who holds the initialization lock
    task,       \* each task: its kind, where it is, the process it uses, if it began anew
    hooked,     \* whose hooks the crawler's strategy holds
    jar,        \* whose cookies the crawler's context holds
    forsaken,   \* processes whose close failed or hung (history)
    uncleaned,  \* tasks that could not clear their cookies (history)
    browserFaults

browserVars == <<chromium, manager, launching, task, hooked, jar, forsaken, uncleaned,
                 browserFaults>>
sharedVars  == <<hooked, jar, uncleaned>>

Launched == DOMAIN chromium
Alive == {p \in Launched : chromium[p] # "dead"}
InSlot == {t \in Renderers : task[t].at \notin {"idle", "waiting"}}
Outside == [kind |-> None, at |-> "idle", with |-> 0, again |-> FALSE]
Leaving(t) == task' = [task EXCEPT ![t] = Outside]      \* releases slot and lock
Moves(t, at) == task' = [task EXCEPT ![t].at = at]
BrowserFault == browserFaults < MaxBrowserFaults /\ browserFaults' = browserFaults + 1
Unfaulted == UNCHANGED browserFaults
NoCrawler == [crawler |-> 0, ready |-> FALSE]
Killed(p) == [q \in Launched |-> IF q = p THEN "dead" ELSE chromium[q]]

-----------------------------------------------------------------------------
(* Slots *)

Queue(t, kind) ==
    /\ task[t].at = "idle"
    /\ task' = [task EXCEPT ![t].kind = kind, ![t].at = "waiting"]
    /\ Unfaulted /\ UNCHANGED <<chromium, manager, launching, sharedVars, forsaken>>

AcquireSlot(t) ==
    /\ task[t].at = "waiting" /\ Cardinality(InSlot) < Slots /\ Moves(t, "check")
    /\ Unfaulted /\ UNCHANGED <<chromium, manager, launching, sharedVars, forsaken>>

\* 503, at capacity
SlotTimeout(t) ==
    /\ task[t].at = "waiting" /\ Cardinality(InSlot) = Slots /\ Leaving(t)
    /\ Unfaulted /\ UNCHANGED <<chromium, manager, launching, sharedVars, forsaken>>

\* with the browser ready, a conversion asks for its context and a crawl hooks the strategy
Begins(t, p) ==
    /\ task' = [task EXCEPT ![t].with = p,
                            ![t].at = IF task[t].kind = "context" THEN "opening" ELSE "render"]
    /\ IF task[t].kind = "context" THEN UNCHANGED sharedVars
       ELSE hooked' = t /\ jar' = jar \cup {t} /\ UNCHANGED uncleaned

\* ensure_browser_ready: connected is not dead, even when wedged
EnsureReady(t) ==
    /\ task[t].at = "check"
    /\ IF manager.ready /\ chromium[manager.crawler] # "dead" THEN Begins(t, manager.crawler)
       ELSE Moves(t, "close") /\ UNCHANGED sharedVars
    /\ Unfaulted /\ UNCHANGED <<chromium, manager, launching, forsaken>>

-----------------------------------------------------------------------------
(* Tear down and start *)

\* _dispose_crawler, or the bounded close of force_recover: whatever close() does, the
\* manager forgets the crawler
MutDispose(t, closed) ==    \* it is forgotten without a close
    /\ task[t].at \in {"close", "recover"}
    /\ manager' = NoCrawler
    /\ Moves(t, IF task[t].at = "close" THEN "start" ELSE "restart")
    /\ closed /\ Unfaulted /\ UNCHANGED <<chromium, launching, sharedVars, forsaken>>
Dispose(t, closed) ==
    /\ task[t].at \in {"close", "recover"}
    /\ IF closed THEN chromium' = Killed(manager.crawler) /\ Unfaulted /\ UNCHANGED forsaken
       ELSE /\ manager.crawler \in Alive /\ BrowserFault
            /\ forsaken' = forsaken \cup {manager.crawler} /\ UNCHANGED chromium
    /\ manager' = NoCrawler
    /\ Moves(t, IF task[t].at = "close" THEN "start" ELSE "restart")
    /\ UNCHANGED <<launching, sharedVars>>

\* initialize, under its lock: a crawler with a strategy and a context of its own
Launch(t) ==
    /\ task[t].at \in {"start", "restart"} /\ launching = {}
    /\ Cardinality(Launched) < MaxLaunches
    /\ LET p == Cardinality(Launched) + 1
       IN  /\ chromium' = [q \in Launched \cup {p} |-> IF q = p THEN "up" ELSE chromium[q]]
           /\ manager' = [crawler |-> p, ready |-> FALSE]
    /\ launching' = {t} /\ hooked' = None /\ jar' = {}
    /\ Moves(t, IF task[t].at = "start" THEN "starting" ELSE "restarting")
    /\ Unfaulted /\ UNCHANGED <<forsaken, uncleaned>>

\* after a recovery the render has failed all the same
Started(t) ==
    /\ task[t].at \in {"starting", "restarting"}
    /\ manager' = [manager EXCEPT !.ready = TRUE]
    /\ launching' = {}
    /\ IF task[t].at = "restarting" THEN Moves(t, "unwind") /\ UNCHANGED sharedVars
       ELSE Begins(t, manager.crawler)
    /\ Unfaulted /\ UNCHANGED <<chromium, forsaken>>

\* the failed start is disposed of; a failed relaunch is left to the next request
StartFails(t) ==
    /\ task[t].at \in {"starting", "restarting"} /\ BrowserFault
    /\ chromium' = Killed(manager.crawler) /\ manager' = NoCrawler
    /\ launching' = {}
    /\ IF task[t].at = "restarting" THEN Moves(t, "unwind") ELSE Leaving(t)
    /\ UNCHANGED <<sharedVars, forsaken>>

-----------------------------------------------------------------------------
(* Render *)

\* get_context: new_context() fails in a browser that died, once it is tried in a new one
OpenContext(t) ==
    /\ task[t].at = "opening"
    /\ CASE chromium[task[t].with] = "up" -> Moves(t, "render")
         [] chromium[task[t].with] = "dead" /\ ~task[t].again ->
                task' = [task EXCEPT ![t].at = "close", ![t].again = TRUE]
         [] chromium[task[t].with] = "dead" /\ task[t].again -> Leaving(t)
         [] OTHER -> FALSE
    /\ Unfaulted /\ UNCHANGED <<chromium, manager, launching, sharedVars, forsaken>>

\* it ends: with a page, or with an error if the browser died
Rendered(t) ==
    /\ task[t].at = "render" /\ chromium[task[t].with] # "wedged" /\ Moves(t, "unwind")
    /\ Unfaulted /\ UNCHANGED <<chromium, manager, launching, sharedVars, forsaken>>

\* arun_with_watchdog: the limit passes and the browser is recycled inside the slot
Watchdog(t) ==
    /\ task[t].at = "render" /\ task[t].kind = "crawler"
    /\ chromium[task[t].with] # "dead" /\ Moves(t, "recover")
    /\ Unfaulted /\ UNCHANGED <<chromium, manager, launching, sharedVars, forsaken>>

\* hook_session restores the hooks before its first await, whatever becomes of that one
Shares(t) == task[t].kind = "crawler" /\ task[t].with = manager.crawler
MutRestored(t) == UNCHANGED hooked      \* the next session overwrites them anyway
Restored(t) == hooked' = IF Shares(t) THEN None ELSE hooked

\* context.close, or clear_cookies of all there are: answered, with an error if the browser
\* died; neither is bounded, in a wedged one it ends only with the task
Unwind(t, cleared) ==
    /\ task[t].at = "unwind" /\ chromium[task[t].with] # "wedged"
    /\ IF cleared THEN /\ jar' = IF Shares(t) THEN {} ELSE jar
                       /\ Unfaulted /\ UNCHANGED uncleaned
       ELSE /\ task[t].kind = "crawler" /\ BrowserFault
            /\ uncleaned' = uncleaned \cup {t} /\ UNCHANGED jar
    /\ Restored(t) /\ Leaving(t)
    /\ UNCHANGED <<chromium, manager, launching, forsaken>>

\* the request is cancelled at an await, or a conversion's time is up: the lock is given
\* back, and the slot after what the render has to undo
Abandon(t) ==
    /\ task[t].at \in {"waiting", "close", "starting", "opening", "render", "recover",
                       "restarting", "unwind"}
    /\ BrowserFault
    /\ launching' = launching \ {t}
    /\ IF task[t].at \in {"render", "recover", "restarting"}
       THEN Moves(t, "unwind") /\ UNCHANGED sharedVars
       ELSE /\ Leaving(t) /\ Restored(t) /\ UNCHANGED jar
            /\ uncleaned' = IF t \in jar THEN uncleaned \cup {t} ELSE uncleaned
    /\ UNCHANGED <<chromium, manager, forsaken>>

Fails(p, how) ==
    /\ chromium[p] = "up" /\ BrowserFault
    /\ chromium' = [chromium EXCEPT ![p] = how]
    /\ UNCHANGED <<manager, launching, task, sharedVars, forsaken>>

-----------------------------------------------------------------------------
\* the lifespan starts it before the first request
BrowserInit ==
    /\ chromium = [p \in {1} |-> "up"] /\ manager = [crawler |-> 1, ready |-> TRUE]
    /\ launching = {} /\ forsaken = {} /\ browserFaults = 0
    /\ hooked = None /\ jar = {} /\ uncleaned = {}
    /\ task = [t \in Renderers |-> Outside]

BrowserNext ==
    \/ \E t \in Renderers :
          \/ (\E kind \in {"crawler", "context"} : Queue(t, kind))
          \/ AcquireSlot(t) \/ SlotTimeout(t) \/ EnsureReady(t)
          \/ (\E closed \in BOOLEAN : Dispose(t, closed)) \/ Launch(t) \/ Started(t)
          \/ StartFails(t) \/ OpenContext(t) \/ Rendered(t) \/ Watchdog(t)
          \/ (\E cleared \in BOOLEAN : Unwind(t, cleared)) \/ Abandon(t)
    \/ \E p \in Launched : \E how \in {"wedged", "dead"} : Fails(p, how)

\* a task runs on; nobody need come, fail or be cancelled
Proceeds(t) ==
    \/ AcquireSlot(t) \/ SlotTimeout(t) \/ EnsureReady(t) \/ Dispose(t, TRUE) \/ Launch(t)
    \/ Started(t) \/ OpenContext(t) \/ Rendered(t) \/ Unwind(t, TRUE)
BrowserFairSpec ==
    BrowserInit /\ [][BrowserNext]_browserVars /\ \A t \in Renderers : WF_browserVars(Proceeds(t))

-----------------------------------------------------------------------------
(* Properties *)

\* However renders die, hang and are cancelled, no Chromium is left running that nobody will
\* ever close, but one whose own close failed; whoever renders, renders in the browser the
\* manager knows; and no render sees the hooks of another ("a failed request can never leak
\* its closures into the next one") or the cookies of one that could clear its own
\* (browser_manager._reinitialize, force_recover, arun_flow.hook_session).
BrowserAccounted ==
    /\ Cardinality(InSlot) <= Slots
    /\ Alive \subseteq {manager.crawler} \cup forsaken
    /\ \A t \in Renderers : task[t].at = "render" =>
          /\ task[t].with = manager.crawler
          /\ task[t].kind = "crawler" => hooked = t /\ jar \ {t} \subseteq uncleaned
    /\ hooked # None => hooked \in InSlot

\* A render that is over or cancelled gives its slot back: "cancellation propagates into the
\* endpoint and releases any held conversion slot on the way out" (middleware/timeout).
SlotReturned == \A t \in Renderers : task[t].at = "unwind" ~> task[t].at = "idle"
=============================================================================
