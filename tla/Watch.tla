------------------------------- MODULE Watch -------------------------------
(***************************************************************************)
(* Watchers: the rows of a project, the handlers that create, patch and    *)
(* delete them, and the poller that claims the due ones, renders each page *)
(* once, compares it with the last good capture and announces a change.    *)
(* Store calls run in threads, so a handler's SELECT and its COMMIT are    *)
(* separate steps and the poller's steps fall between them.                *)
(***************************************************************************)
EXTENDS Integers, Sequences, FiniteSets, FiniteSetsExt, SequencesExt

CONSTANTS
    Watchers,       \* ids a project may use
    Requests,       \* requests of the project's clients, one use each
    Contents,       \* what a watched page may show
    PageFields,     \* what a rendered page carries, see RenderPage
    MaxWatchers,    \* the plan's cap on active watchers
    MaxErrors,      \* MAX_CONSECUTIVE_ERRORS
    ClaimBatch,     \* CLAIM_BATCH
    MaxEdits,       \* bound: how often a watched page changes
    MaxMishaps,     \* bound: renders, captures and stores that go wrong, and deaths
    NoWatcher, NoContent

ASSUME WatchAssumption ==
    /\ MaxWatchers \in Nat \ {0}
    /\ MaxErrors \in Nat \ {0}
    /\ ClaimBatch \in Nat \ {0}
    /\ MaxEdits \in Nat
    /\ MaxMishaps \in Nat
    /\ IsFiniteSet(Watchers) /\ IsFiniteSet(Requests)
    /\ NoWatcher \notin Watchers
    /\ Contents # {} /\ NoContent \notin Contents

VARIABLES
    watcher,    \* [Watchers -> row]: status, next_check_at, consecutive_errors
    baseline,   \* content of the newest snapshot that captured any
    page,       \* what the watched page shows now
    req,        \* [Requests -> handler state]
    poll,       \* the poller: pc, batch of claims, and the check's locals
    owed,       \* changes recorded and not yet announced
    announced,  \* history: changes announced
    unread,     \* history: comparisons against an unreadable baseline
    peak,       \* most requests ever between their gate and their commit
    edits, bads, deaths

rowVars   == <<watcher, baseline>>
notices   == <<owed, announced, unread>>
faults    == <<edits, bads, deaths>>
watchVars == <<watcher, baseline, page, req, poll, owed, announced, unread,
               peak, edits, bads, deaths>>

Row == [status : {"none", "active", "paused", "deleted"},
        next   : {"never", "due", "later"},
        errors : 0 .. MaxErrors + MaxMishaps]

NoRow  == [status |-> "none", next |-> "never", errors |-> 0]
Idle   == [pc |-> "idle", w |-> NoWatcher, op |-> "none", loaded |-> NoRow]
Finished == [Idle EXCEPT !.pc = "done"]
Resting == [pc |-> "sleep", batch |-> <<>>, content |-> NoContent,
            changed |-> FALSE, loaded |-> NoRow]

Mishap == bads + deaths < MaxMishaps

Active == {w \in Watchers : watcher[w].status = "active"}

(***************************************************************************)
(* An ORM commit writes the columns that differ from what was loaded, and  *)
(* leaves the others as they are by then. Two times are never equal.       *)
(***************************************************************************)
Committed(live, loaded, new) ==
    [status |-> IF new.status = loaded.status THEN live.status ELSE new.status,
     next   |-> IF new.next = "never" /\ loaded.next = "never"
                THEN live.next ELSE new.next,
     errors |-> IF new.errors = loaded.errors THEN live.errors ELSE new.errors]

-----------------------------------------------------------------------------
(* Handlers *)

InWindow(p) == p \in {"insert", "count", "load", "write"}

Goto(r, next) ==
    /\ req' = [req EXCEPT ![r] = next]
    /\ peak' = Max({peak, Cardinality({q \in Requests : InWindow(req'[q].pc)})})

\* check_watcher_quota on the count just read
QuotaOpen == Cardinality(Active) < MaxWatchers

\* POST: count and gate, then the address is screened
CreateGate(r) ==
    /\ req[r].pc = "idle"
    /\ Goto(r, IF QuotaOpen THEN [Idle EXCEPT !.op = "create", !.pc = "insert"] ELSE Finished)
    /\ UNCHANGED <<rowVars, page, poll, notices, faults>>

\* the screen refuses, or the row is inserted, due at once
CreateRefused(r) ==
    /\ req[r].op = "create" /\ req[r].pc = "insert"
    /\ Goto(r, Finished)
    /\ UNCHANGED <<rowVars, page, poll, notices, faults>>

CreateInsert(r, w) ==
    /\ req[r].op = "create" /\ req[r].pc = "insert"
    /\ watcher[w].status = "none"
    /\ watcher' = [watcher EXCEPT ![w] =
                     [status |-> "active", next |-> "due", errors |-> 0]]
    /\ Goto(r, Finished)
    /\ UNCHANGED <<baseline, page, poll, notices, faults>>

\* mutant: a resume passes no gate
MutResumeStart(r, w) ==
    /\ req[r].pc = "idle"
    /\ Goto(r, [Idle EXCEPT !.w = w, !.op = "active", !.pc = "load"])
    /\ UNCHANGED <<rowVars, page, poll, notices, faults>>

\* PATCH: only a resume of a watcher that is not active has to pass the gate
ResumeStart(r, w) ==
    /\ req[r].pc = "idle"
    /\ Goto(r, [Idle EXCEPT !.w = w, !.op = "active",
                  !.pc = IF watcher[w].status \notin {"none", "active"}
                         THEN "count" ELSE "load"])
    /\ UNCHANGED <<rowVars, page, poll, notices, faults>>

ResumeGate(r) ==
    /\ req[r].pc = "count"
    /\ Goto(r, IF QuotaOpen THEN [req[r] EXCEPT !.pc = "load"] ELSE Finished)
    /\ UNCHANGED <<rowVars, page, poll, notices, faults>>

\* apply_updates and delete_watcher read the row first ...
LoadRow(r, w, op) ==
    /\ IF op = "active" THEN req[r].pc = "load" /\ req[r].w = w ELSE req[r].pc = "idle"
    /\ Goto(r, IF watcher[w].status \in {"none", "deleted"} THEN Finished
               ELSE [pc |-> "write", w |-> w, op |-> op, loaded |-> watcher[w]])
    /\ UNCHANGED <<rowVars, page, poll, notices, faults>>

\* mutant: a resume also clears the error count
MutUpdated(row, op) ==
    CASE op = "active" -> [status |-> "active", next |-> "due", errors |-> 0]
      [] op = "paused" -> [row EXCEPT !.status = "paused", !.next = "never"]

\* ... and write it back in a later statement
Updated(row, op) ==
    CASE op = "active" -> [row EXCEPT !.status = "active", !.next = "due"]
      [] op = "paused" -> [row EXCEPT !.status = "paused", !.next = "never"]

ApplyUpdates(r) ==
    /\ req[r].pc = "write" /\ req[r].op \in {"active", "paused"}
    /\ watcher' = [watcher EXCEPT ![req[r].w] =
                     Committed(@, req[r].loaded, Updated(req[r].loaded, req[r].op))]
    /\ Goto(r, Finished)
    /\ UNCHANGED <<baseline, page, poll, notices, faults>>

DeleteWrite(r) ==
    /\ req[r].pc = "write" /\ req[r].op = "delete"
    /\ watcher' = [watcher EXCEPT ![req[r].w] =
                     Committed(@, req[r].loaded,
                               [req[r].loaded EXCEPT !.status = "deleted", !.next = "never"])]
    /\ Goto(r, Finished)
    /\ UNCHANGED <<baseline, page, poll, notices, faults>>

-----------------------------------------------------------------------------
(* The poller *)

Due == {w \in Active : watcher[w].next = "due"}

cur == Head(poll.batch).w

Sleep(rest) == [Resting EXCEPT !.batch = rest,
                               !.pc = IF rest = <<>> THEN "sleep" ELSE "render"]
NextCheck == Sleep(Tail(poll.batch))

\* claim_due_watchers: one locked transaction, every claim pushed one interval ahead
Claim ==
    /\ poll.pc = "sleep"
    /\ \E S \in kSubset(Min({ClaimBatch, Cardinality(Due)}), Due) :
         /\ S # {}
         /\ poll' = Sleep(SetToSeq({[w |-> w, errors |-> watcher[w].errors] : w \in S}))
         /\ watcher' = [w \in Watchers |->
                          IF w \in S THEN [watcher[w] EXCEPT !.next = "later"] ELSE watcher[w]]
    /\ UNCHANGED <<baseline, page, req, notices, peak, faults>>

\* run_check: the render returns a page; its capture is compared with the
\* newest good one, whose stored body may turn out unreadable.  It reads the page's
\* content_category, which the perceive_flow of this repository, the fallback of the
\* public mirror, does not define: there a check ends in CheckRaises.
Readable == "content_category" \in PageFields
RenderPage(unreadable) ==
    /\ poll.pc = "render" /\ Readable
    /\ unreadable => Mishap /\ baseline[cur] # NoContent
    /\ bads' = IF unreadable THEN bads + 1 ELSE bads
    /\ unread' = IF unreadable THEN unread + 1 ELSE unread
    /\ poll' = [poll EXCEPT !.pc = "record", !.content = page[cur],
                 !.changed = unreadable \/ baseline[cur] \notin {NoContent, page[cur]}]
    /\ UNCHANGED <<rowVars, page, req, owed, announced, peak, edits, deaths>>

\* a blocked or low-quality render is recorded without a content hash
RenderBlocked ==
    /\ poll.pc = "render" /\ Mishap
    /\ bads' = bads + 1
    /\ poll' = [poll EXCEPT !.pc = "record", !.content = NoContent]
    /\ UNCHANGED <<rowVars, page, req, notices, peak, edits, deaths>>

\* the render, the capture, the comparison or the upload raises
CheckRaises ==
    /\ poll.pc = "render" /\ Mishap
    /\ bads' = bads + 1
    /\ poll' = [poll EXCEPT !.pc = "fail"]
    /\ UNCHANGED <<rowVars, page, req, notices, peak, edits, deaths>>

\* both store calls read the row, in the transaction they will commit
SelectRow ==
    /\ poll.pc \in {"record", "fail"}
    /\ poll' = [poll EXCEPT !.loaded = watcher[cur],
                            !.pc = IF @ = "record" THEN "commit_ok" ELSE "commit_bad"]
    /\ UNCHANGED <<rowVars, page, req, notices, peak, faults>>

\* apply_successful_check: the snapshot always, the counters if the row was active
RecordCheck ==
    /\ poll.pc = "commit_ok"
    /\ baseline' = IF poll.content = NoContent THEN baseline
                   ELSE [baseline EXCEPT ![cur] = poll.content]
    /\ watcher' = IF poll.loaded.status # "active" THEN watcher
                  ELSE [watcher EXCEPT ![cur] =
                          Committed(@, poll.loaded,
                            [poll.loaded EXCEPT !.errors = 0, !.next = "later"])]
    /\ owed' = IF poll.changed THEN owed + 1 ELSE owed
    /\ poll' = IF poll.changed THEN [poll EXCEPT !.pc = "notify"] ELSE NextCheck
    /\ UNCHANGED <<page, req, announced, unread, peak, faults>>

\* mutant: the change is announced although it was not recorded
MutRecordFails ==
    /\ poll.pc = "commit_ok" /\ Mishap
    /\ bads' = bads + 1
    /\ owed' = IF poll.changed THEN owed + 1 ELSE owed
    /\ poll' = IF poll.changed THEN [poll EXCEPT !.pc = "notify"] ELSE NextCheck
    /\ UNCHANGED <<rowVars, page, req, announced, unread, peak, edits, deaths>>

\* _record_check swallows a failed commit: nothing is written, nothing announced
RecordFails ==
    /\ poll.pc = "commit_ok" /\ Mishap
    /\ bads' = bads + 1
    /\ poll' = NextCheck
    /\ UNCHANGED <<rowVars, page, req, notices, peak, edits, deaths>>

\* _notify_change: webhook and mail, each best effort, once per recorded change
NotifyChange ==
    /\ poll.pc = "notify"
    /\ owed' = owed - 1
    /\ announced' = announced + 1
    /\ poll' = NextCheck
    /\ UNCHANGED <<rowVars, page, req, unread, peak, faults>>

\* _handle_failure with the count of the claim, then apply_failed_check
NewErrors == Head(poll.batch).errors + 1
Pauses    == NewErrors >= MaxErrors



RecordFailure ==
    /\ poll.pc = "commit_bad"
    /\ watcher' = IF poll.loaded.status # "active" THEN watcher
                  ELSE [watcher EXCEPT ![cur] =
                          Committed(@, poll.loaded,
                            [errors |-> NewErrors,
                             status |-> IF Pauses THEN "paused" ELSE "active",
                             next   |-> IF Pauses THEN "never" ELSE "later"])]
    /\ poll' = NextCheck
    /\ UNCHANGED <<baseline, page, req, notices, peak, faults>>

-----------------------------------------------------------------------------
(* Time, the watched sites and the process *)

IntervalPasses(w) ==
    /\ watcher[w].next = "later"
    /\ watcher' = [watcher EXCEPT ![w].next = "due"]
    /\ UNCHANGED <<baseline, page, req, poll, notices, peak, faults>>

PageChanges(w, c) ==
    /\ edits < MaxEdits /\ c # page[w]
    /\ page' = [page EXCEPT ![w] = c]
    /\ edits' = edits + 1
    /\ UNCHANGED <<rowVars, req, poll, notices, peak, bads, deaths>>

\* the process dies and starts again: claims and requests are gone, and the
\* schedule in the rows is all the poller needs
WatchCrash ==
    /\ Mishap
    /\ deaths' = deaths + 1
    /\ poll' = Resting
    /\ req' = [r \in Requests |-> IF req[r].pc = "idle" THEN req[r]
                                  ELSE Finished]
    /\ UNCHANGED <<rowVars, page, notices, peak, edits, bads>>

-----------------------------------------------------------------------------
\* a project may already hold watchers, paused or active, within its cap
WatchInit ==
    /\ watcher \in [Watchers -> {NoRow,
                      [status |-> "active", next |-> "later", errors |-> MaxErrors - 1],
                      [status |-> "paused", next |-> "never", errors |-> MaxErrors]}]
    /\ Cardinality(Active) <= MaxWatchers
    /\ baseline = [w \in Watchers |-> NoContent]
    /\ page = [w \in Watchers |-> CHOOSE c \in Contents : TRUE]
    /\ req = [r \in Requests |-> Idle]
    /\ poll = Resting
    /\ owed = 0 /\ announced = 0 /\ unread = 0
    /\ peak = 0
    /\ edits = 0 /\ bads = 0 /\ deaths = 0

Handler(r) ==
    \/ CreateGate(r) \/ CreateRefused(r) \/ ResumeGate(r)
    \/ ApplyUpdates(r) \/ DeleteWrite(r)
    \/ \E w \in Watchers : CreateInsert(r, w) \/ ResumeStart(r, w)
    \/ \E w \in Watchers, op \in {"active", "paused", "delete"} : LoadRow(r, w, op)

Check ==
    \/ \E unreadable \in BOOLEAN : RenderPage(unreadable)
    \/ RenderBlocked \/ CheckRaises \/ SelectRow \/ RecordCheck \/ RecordFails
    \/ NotifyChange \/ RecordFailure

Environment ==
    \/ \E w \in Watchers : IntervalPasses(w)
    \/ \E w \in Watchers, c \in Contents : PageChanges(w, c)
    \/ WatchCrash

WatchNext == (\E r \in Requests : Handler(r)) \/ Claim \/ Check \/ Environment

WatchSpec == WatchInit /\ [][WatchNext]_watchVars

\* the event loop runs the poller, and intervals pass.  The checks follow one another
\* and nothing bounds a render, so no fairness makes one return.
WatchFairness ==
    /\ WF_watchVars(Claim) /\ WF_watchVars(poll.pc # "render" /\ Check)
    /\ \A w \in Watchers : WF_watchVars(IntervalPasses(w))

WatchFairSpec == WatchSpec /\ WatchFairness

-----------------------------------------------------------------------------
(* Properties *)

\* every variable has its type
WatchTypeOK ==
    /\ watcher \in [Watchers -> Row]
    /\ baseline \in [Watchers -> Contents \cup {NoContent}]
    /\ page \in [Watchers -> Contents]
    /\ req \in [Requests ->
         [pc : {"idle", "insert", "count", "load", "write", "done"},
          w : Watchers \cup {NoWatcher},
          op : {"none", "create", "active", "paused", "delete"}, loaded : Row]]
    /\ poll.pc \in {"sleep", "render", "record", "fail", "commit_ok", "commit_bad", "notify"}
    /\ poll.batch \in Seq([w : Watchers, errors : Nat])
    /\ {owed, announced, unread, peak} \subseteq Nat
    /\ edits \in 0 .. MaxEdits /\ bads \in 0 .. MaxMishaps /\ deaths \in 0 .. MaxMishaps

\* _handle_failure trusts the error count of the claim: while the row is still
\* active, whatever the handlers did to it since, that count is the row's.
ClaimedCountExact ==
    poll.pc = "commit_bad" /\ watcher[cur].status = "active" =>
        Head(poll.batch).errors = watcher[cur].errors

\* The known tolerance of check_watcher_quota: the count and the insert (or the
\* resume) are separate, and N racing requests overshoot the cap by N - 1 at most.
OvershootBounded ==
    Cardinality(Active) <= MaxWatchers + Max({0, peak - 1})

\* Every recorded change is announced exactly once unless the process dies in
\* between, and nothing is announced that neither an edit of the page nor a lost
\* baseline accounts for, however often the check was blocked or not recorded.
ChangesAnnouncedOnce ==
    /\ announced <= edits + unread
    /\ deaths = 0 /\ poll.pc # "notify" => owed = 0

\* If every render returns, nothing a client or a failing page does, and no death of
\* the process, leaves an active watcher unclaimed for ever ("one bad watcher never
\* sinks the rest of the batch").  A render that never returns stops them all.
RendersReturn == []<>(poll.pc # "render")

\* delete_watcher leaves a tombstone; a row "a concurrent op already moved off
\* 'active' is left untouched" by the check that was under way.
TombstoneKept ==
    [][\A w \in Watchers :
         watcher[w].status = "deleted" => watcher'[w].status = "deleted"]_watchVars
=============================================================================
