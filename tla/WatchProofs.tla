----------------------------- MODULE WatchProofs -----------------------------
(***************************************************************************)
(* Machine-checked facts about Watch, for every number of watchers,        *)
(* requests, contents, edits and mishaps.                                  *)
(***************************************************************************)
EXTENDS Watch, TLAPS, FiniteSetTheorems, SequenceTheorems

-----------------------------------------------------------------------------
(* The inductive invariant *)

Claims == [w : Watchers, errors : Nat]
Polls == [pc : {"sleep", "render", "record", "fail", "commit_ok", "commit_bad", "notify"},
          batch : Seq(Claims), content : Contents \cup {NoContent}, changed : BOOLEAN,
          loaded : Row]

Reqs == [pc : {"idle", "insert", "count", "load", "write", "done"},
         w : Watchers \cup {NoWatcher},
         op : {"none", "create", "active", "paused", "delete"}, loaded : Row]

\* the types, and no check without a claim
Typed ==
    /\ WatchTypeOK /\ poll \in Polls
    /\ poll.pc = "sleep" <=> poll.batch = <<>>

\* an error count grows only with a check that went wrong
ErrorsBounded ==
    /\ \A w \in Watchers : watcher[w].errors <= MaxErrors + bads
    /\ \A i \in DOMAIN poll.batch : poll.batch[i].errors <= MaxErrors + bads
    /\ poll.pc \in {"fail", "commit_bad"} => Head(poll.batch).errors < MaxErrors + bads

\* a batch holds each watcher once, with the error count of its row until it is recorded
ClaimsStand ==
    /\ \A i, j \in DOMAIN poll.batch : poll.batch[i].w = poll.batch[j].w => i = j
    /\ \A i \in DOMAIN poll.batch :
          /\ watcher[poll.batch[i].w].status # "none"
          /\ i # 1 \/ poll.pc # "notify" => watcher[poll.batch[i].w].errors = poll.batch[i].errors

\* what a handler holds at each of its steps
HandlersStand ==
    \A r \in Requests :
        /\ req[r].pc = "insert" => req[r].op = "create"
        /\ req[r].pc \in {"count", "load"} => req[r].w \in Watchers /\ req[r].op = "active"
        /\ req[r].pc = "write" => /\ req[r].w \in Watchers /\ watcher[req[r].w].status # "none"
                                  /\ req[r].op \in {"active", "paused", "delete"}

\* requests between gate and commit; those that may still make a watcher active
Window == {r \in Requests : InWindow(req[r].pc)}
Inserting == {r \in Requests : req[r].pc = "insert"}
Resuming == {r \in Requests : req[r].pc \in {"load", "write"} /\ req[r].op = "active"}
Targets == {w \in Watchers : watcher[w].status # "none" /\ \E r \in Resuming : req[r].w = w}

\* whatever may become active is within the cap and the overshoot of the requests
QuotaStands ==
    /\ Cardinality(Window) <= peak
    /\ Cardinality(Active \cup Targets) + Cardinality(Inserting)
          <= MaxWatchers + Max({0, peak - 1})

\* the baseline once the check under way is recorded
Comparing == poll.pc \in {"record", "commit_ok"}
Expected(w) == IF Comparing /\ w = cur /\ poll.content # NoContent
               THEN poll.content ELSE baseline[w]
Stale == {w \in Watchers : Expected(w) \notin {NoContent, page[w]}}
Found == IF Comparing /\ poll.changed THEN 1 ELSE 0

\* every change announced, owed or found had its edit or its lost baseline, and every
\* page that differs from its baseline has one to spare
ChangesStand ==
    /\ announced + owed + Found + Cardinality(Stale) <= edits + unread
    /\ poll.pc = "render" => ~poll.changed
    /\ Comparing /\ poll.content # NoContent /\ ~poll.changed =>
          baseline[cur] \in {NoContent, poll.content}
    /\ poll.pc = "notify" => owed > 0
    /\ deaths = 0 => owed = IF poll.pc = "notify" THEN 1 ELSE 0

IInv == Typed /\ ErrorsBounded /\ ClaimsStand /\ HandlersStand /\ QuotaStands /\ ChangesStand

-----------------------------------------------------------------------------
(* Rows, records and batches *)

\* What an ORM commit writes is a row, and which of its columns it leaves alone.
LEMMA CommitRow ==
    ASSUME WatchAssumption, NEW live \in Row, NEW loaded \in Row, NEW new \in Row
    PROVE  /\ Committed(live, loaded, new) \in Row
           /\ Committed(live, loaded, new).status =
                 IF new.status = loaded.status THEN live.status ELSE new.status
           /\ Committed(live, loaded, new).errors =
                 IF new.errors = loaded.errors THEN live.errors ELSE new.errors
BY DEF Committed, Row

\* The rows a handler writes.
LEMMA HandlerRows ==
    ASSUME NEW row \in Row
    PROVE  /\ \A op \in {"active", "paused"} :
                 /\ Updated(row, op) \in Row /\ Updated(row, op).errors = row.errors
                 /\ Updated(row, op).status = op
           /\ LET gone == [row EXCEPT !.status = "deleted", !.next = "never"]
              IN  gone \in Row /\ gone.errors = row.errors /\ gone.status = "deleted"
<1>1. /\ Updated(row, "active") = [row EXCEPT !.status = "active", !.next = "due"]
      /\ Updated(row, "paused") = [row EXCEPT !.status = "paused", !.next = "never"]
  BY DEF Updated
<1> QED
  BY <1>1 DEF Row

\* The rows a claim, a good check, an interval and the initial state are made of.
LEMMA PlainRows ==
    /\ NoRow \in Row /\ [status |-> "active", next |-> "due", errors |-> 0] \in Row
    /\ \A row \in Row, n \in {"due", "later", "never"} :
          LET moved == [row EXCEPT !.next = n]
          IN  moved \in Row /\ moved.status = row.status /\ moved.errors = row.errors
    /\ \A row \in Row :
          LET passed == [row EXCEPT !.errors = 0, !.next = "later"]
          IN  passed \in Row /\ passed.status = row.status /\ passed.errors = 0
<1>1. 0 \in 0 .. MaxErrors + MaxMishaps
  BY WatchAssumption
<1> QED
  BY <1>1 DEF Row, NoRow

\* The claim being checked is the first of the batch.
LEMMA HeadClaim ==
    ASSUME Typed, poll.pc # "sleep"
    PROVE  /\ poll.batch \in Seq(Claims) /\ poll.batch # <<>>
           /\ 1 \in DOMAIN poll.batch /\ Head(poll.batch) = poll.batch[1]
           /\ Head(poll.batch) \in Claims /\ cur \in Watchers
           /\ Head(poll.batch).errors \in Nat /\ Head(poll.batch).w = cur
           /\ Tail(poll.batch) \in Seq(Claims)
           /\ \A i \in DOMAIN Tail(poll.batch) :
                 i + 1 \in DOMAIN poll.batch /\ i + 1 # 1 /\ Tail(poll.batch)[i] = poll.batch[i + 1]
<1>1. poll.batch \in Seq(Claims) /\ poll.batch # <<>>
  BY DEF Typed, Polls
<1>2. /\ Len(poll.batch) \in Nat \ {0} /\ DOMAIN poll.batch = 1..Len(poll.batch)
      /\ Head(poll.batch) = poll.batch[1]
  BY <1>1, EmptySeq, LenProperties
<1>3. /\ Tail(poll.batch) \in Seq(Claims) /\ Head(poll.batch) \in Claims
      /\ DOMAIN Tail(poll.batch) = 1..(Len(poll.batch) - 1)
      /\ \A i \in 1..(Len(poll.batch) - 1) : Tail(poll.batch)[i] = poll.batch[i + 1]
  BY <1>1, HeadTailProperties, LenProperties
<1>4. \A i \in 1..(Len(poll.batch) - 1) : i + 1 \in 1..Len(poll.batch) /\ i + 1 # 1
  BY <1>2
<1> QED
  BY <1>1, <1>2, <1>3, <1>4 DEF Claims, cur

\* After a check the poller has the rest of the batch.
LEMMA AfterCheck ==
    ASSUME Typed, poll.pc # "sleep", poll' = NextCheck
    PROVE  /\ poll' \in Polls /\ poll'.batch = Tail(poll.batch)
           /\ poll'.pc \in {"sleep", "render"} /\ (poll'.pc = "sleep" <=> poll'.batch = <<>>)
           /\ ~poll'.changed
<1>1. Tail(poll.batch) \in Seq(Claims)
  BY HeadClaim
<1> QED
  BY <1>1, PlainRows DEF NextCheck, Sleep, Resting, Polls

\* A batch is what was claimed, each watcher once, with the error count of its row.
LEMMA ClaimedBatch ==
    ASSUME Typed, NEW S \in SUBSET Watchers, S # {}, WatchAssumption,
           poll' = Sleep(SetToSeq({[w |-> w, errors |-> watcher[w].errors] : w \in S}))
    PROVE  /\ poll' \in Polls /\ poll'.pc = "render" /\ poll'.batch # <<>> /\ ~poll'.changed
           /\ \A i, j \in DOMAIN poll'.batch : poll'.batch[i].w = poll'.batch[j].w => i = j
           /\ \A i \in DOMAIN poll'.batch :
                 LET w == poll'.batch[i].w
                 IN  w \in S /\ poll'.batch[i].errors = watcher[w].errors
<1> DEFINE entry == [w \in S |-> [w |-> w, errors |-> watcher[w].errors]]
           E == {[w |-> w, errors |-> watcher[w].errors] : w \in S}
           q == SetToSeq(E)
<1>1. IsFiniteSet(S) /\ watcher \in [Watchers -> Row]
  BY FS_Subset, WatchAssumption DEF Typed, WatchTypeOK
<1>2. entry \in Surjection(S, E)
  BY DEF Surjection
<1>3. IsFiniteSet(E)
  BY <1>1, <1>2, FS_Surjection
<1>4. Cardinality(E) \in Nat /\ ExistsBijection(1..Cardinality(E), E)
  BY <1>3, FS_CardinalityType
<1>5. \E f \in [1..Cardinality(E) -> E] : IsInjective(f)
  BY <1>4 DEF ExistsBijection, Bijection, Injection, IsInjective
<1>6. q \in [1..Cardinality(E) -> E] /\ IsInjective(q)
  BY <1>5 DEF SetToSeq
<1>7. E # {} /\ Cardinality(E) # 0
  <2>1. PICK w \in S : TRUE
    OBVIOUS
  <2>2. [w |-> w, errors |-> watcher[w].errors] \in E
    OBVIOUS
  <2> QED
    BY <1>3, <2>2, FS_EmptySet
<1>8. E \subseteq Claims
  BY <1>1 DEF Claims, Row
<1>9. q \in Seq(Claims) /\ q # <<>> /\ DOMAIN q = 1..Cardinality(E)
  <2>1. q \in Seq(Claims) /\ Len(q) = Cardinality(E) /\ DOMAIN q = 1..Cardinality(E)
    <3> HIDE DEF E, q, entry
    <3>1. q \in [1..Cardinality(E) -> Claims]
      BY <1>6, <1>8
    <3> QED
      BY <1>4, <3>1
  <2> QED
    BY <1>7, <2>1, EmptySeq
<1>10. \A i \in DOMAIN q : \E w \in S : q[i] = [w |-> w, errors |-> watcher[w].errors]
  BY <1>6, <1>9
<1> HIDE DEF q, E, entry
<1>11. /\ poll'.batch = q /\ poll'.pc = "render" /\ ~poll'.changed /\ poll' \in Polls
  BY <1>9, PlainRows DEF Sleep, Resting, Polls, q, E
<1>12. \A i, j \in DOMAIN q : q[i].w = q[j].w => i = j
  BY <1>6, <1>10 DEF IsInjective
<1>13. ASSUME NEW i \in DOMAIN q
       PROVE  q[i].w \in S /\ q[i].errors = watcher[q[i].w].errors
  BY <1>10
<1> QED
  BY <1>9, <1>11, <1>12, <1>13

\* The larger of two numbers.
LEMMA MaxOfTwo ==
    ASSUME NEW a \in Int, NEW b \in Int
    PROVE  Max({a, b}) = IF a >= b THEN a ELSE b
<1>1. CASE a >= b
  <2>1. \E x \in {a, b} : \A y \in {a, b} : x >= y
    BY <1>1
  <2> QED
    BY <1>1, <2>1 DEF Max
<1>2. CASE ~(a >= b)
  <2>1. \E x \in {a, b} : \A y \in {a, b} : x >= y
    BY <1>2
  <2> QED
    BY <1>2, <2>1 DEF Max
<1> QED
  BY <1>1, <1>2

\* A request moves, and the history of the requests under way moves with it.
LEMMA GotoEffect ==
    ASSUME Typed, NEW r \in Requests, NEW next \in Reqs, Goto(r, next)
    PROVE  /\ req' \in [Requests -> Reqs] /\ req'[r] = next
           /\ \A x \in Requests : x # r => req'[x] = req[x]
           /\ IsFiniteSet(Window') /\ Cardinality(Window') \in Nat
           /\ peak' \in Nat /\ peak' >= peak /\ peak' >= Cardinality(Window')
<1>1. req \in [Requests -> Reqs] /\ peak \in Nat
  BY DEF Typed, WatchTypeOK, Reqs
<1>2. req' = [req EXCEPT ![r] = next]
  BY DEF Goto
<1>3. IsFiniteSet(Window') /\ Cardinality(Window') \in Nat
  <2>1. Window' \subseteq Requests
    BY DEF Window
  <2> QED
    BY <2>1, WatchAssumption, FS_Subset, FS_CardinalityType
<1>4. peak' = Max({peak, Cardinality(Window')})
  BY DEF Goto, Window
<1> QED
  BY <1>1, <1>2, <1>3, <1>4, MaxOfTwo

-----------------------------------------------------------------------------
(* What each step does *)

\* A request that is over, and the records a request goes through.
LEMMA RequestRecords ==
    /\ Idle \in Reqs /\ Finished \in Reqs /\ Finished.pc = "done" /\ Idle.pc = "idle"
    /\ LET gated == [Idle EXCEPT !.op = "create", !.pc = "insert"]
       IN  gated \in Reqs /\ gated.pc = "insert" /\ gated.op = "create"
    /\ \A w \in Watchers, p \in {"count", "load"} :
          LET resume == [Idle EXCEPT !.w = w, !.op = "active", !.pc = p]
          IN  resume \in Reqs /\ resume.pc = p /\ resume.op = "active" /\ resume.w = w
BY PlainRows DEF Idle, Finished, Reqs

\* A step of a request: it passes its gate, starts or loads a change, writes it, or ends.
HandlerMove(r) ==
    LET now == req[r]
        then == req'[r]
    IN  \/ then.pc = "done" /\ watcher' = watcher
        \/ then.pc = "insert" /\ then.op = "create" /\ QuotaOpen /\ watcher' = watcher
        \/ /\ now.pc = "insert" /\ then.pc = "done"
           /\ \E w \in Watchers :
                 /\ watcher[w].status = "none"
                 /\ watcher' = [watcher EXCEPT ![w] = [status |-> "active", next |-> "due",
                                                       errors |-> 0]]
        \/ /\ now.pc = "idle" /\ then.w \in Watchers /\ then.op = "active" /\ watcher' = watcher
           /\ \/ then.pc = "count"
              \/ then.pc = "load" /\ watcher[then.w].status \in {"none", "active"}
        \/ /\ now.pc = "count" /\ then.pc = "load" /\ QuotaOpen /\ watcher' = watcher
           /\ then.w = now.w /\ then.op = now.op
        \/ /\ then.pc = "write" /\ then.w \in Watchers /\ watcher' = watcher
           /\ watcher[then.w].status # "none" /\ then.op \in {"active", "paused", "delete"}
           /\ then.op = "active" => now.pc = "load" /\ now.op = "active" /\ now.w = then.w
        \/ /\ now.pc = "write" /\ then.pc = "done" /\ watcher' \in [Watchers -> Row]
           /\ \A w \in Watchers : w # now.w => watcher'[w] = watcher[w]
           /\ watcher'[now.w].errors = watcher[now.w].errors
           /\ watcher'[now.w].status # "none"
           /\ watcher'[now.w].status = "active" =>
                 watcher[now.w].status = "active" \/ now.op = "active"

\* Every step of a handler is such a move, of its own request and of nothing else.
LEMMA HandlerEffect ==
    ASSUME IInv, NEW r \in Requests, Handler(r)
    PROVE  /\ HandlerMove(r) /\ UNCHANGED <<baseline, page, poll, notices, faults>>
           /\ \E next \in Reqs : Goto(r, next)
<1>1. /\ Typed /\ HandlersStand /\ watcher \in [Watchers -> Row] /\ req \in [Requests -> Reqs]
      /\ req[r] \in Reqs /\ req[r].loaded \in Row
  BY DEF IInv, Typed, WatchTypeOK, Reqs
<1> DEFINE Moved == /\ HandlerMove(r) /\ UNCHANGED <<baseline, page, poll, notices, faults>>
                    /\ \E next \in Reqs : Goto(r, next)
<1>0. ASSUME NEW next \in Reqs, Goto(r, next) PROVE req'[r] = next
  BY <1>0, <1>1, GotoEffect
<1>2. CASE CreateGate(r)
  <2>1. CASE QuotaOpen
    <3> DEFINE next == [Idle EXCEPT !.op = "create", !.pc = "insert"]
    <3>1. next \in Reqs /\ next.pc = "insert" /\ next.op = "create"
      BY RequestRecords
    <3>2. Goto(r, next) /\ req'[r] = next
      BY <1>0, <1>2, <2>1, <3>1 DEF CreateGate
    <3> QED
      BY <1>2, <2>1, <3>1, <3>2 DEF CreateGate, HandlerMove, rowVars
  <2>2. CASE ~QuotaOpen
    <3>1. Finished \in Reqs /\ Goto(r, Finished) /\ req'[r] = Finished
      BY <1>0, <1>2, <2>2, RequestRecords DEF CreateGate
    <3> QED
      BY <1>2, <3>1, RequestRecords DEF CreateGate, HandlerMove, rowVars
  <2> QED
    BY <2>1, <2>2
<1>3. CASE CreateRefused(r)
  <2>1. Finished \in Reqs /\ Goto(r, Finished) /\ req'[r] = Finished
    BY <1>0, <1>3, RequestRecords DEF CreateRefused
  <2> QED
    BY <1>3, <2>1, RequestRecords DEF CreateRefused, HandlerMove, rowVars
<1>4. ASSUME NEW w \in Watchers, CreateInsert(r, w)
      PROVE  Moved
  <2>1. Finished \in Reqs /\ Goto(r, Finished) /\ req'[r] = Finished
    BY <1>0, <1>4, RequestRecords DEF CreateInsert
  <2> QED
    BY <1>4, <2>1, RequestRecords DEF CreateInsert, HandlerMove
<1>5. ASSUME NEW w \in Watchers, ResumeStart(r, w)
      PROVE  Moved
  <2>1. PICK p \in {"count", "load"} :
           /\ Goto(r, [Idle EXCEPT !.w = w, !.op = "active", !.pc = p])
           /\ p = "load" => watcher[w].status \in {"none", "active"}
    BY <1>5 DEF ResumeStart
  <2> DEFINE next == [Idle EXCEPT !.w = w, !.op = "active", !.pc = p]
  <2>2. next \in Reqs /\ next.pc = p /\ next.op = "active" /\ next.w = w
    BY RequestRecords
  <2>3. Goto(r, next) /\ req'[r] = next
    BY <1>0, <2>1, <2>2
  <2> QED
    BY <1>5, <2>1, <2>2, <2>3 DEF ResumeStart, HandlerMove, rowVars
<1>6. CASE ResumeGate(r)
  <2>1. CASE QuotaOpen
    <3> DEFINE next == [req[r] EXCEPT !.pc = "load"]
    <3>1. next \in Reqs /\ next.pc = "load" /\ next.op = req[r].op /\ next.w = req[r].w
      BY <1>1 DEF Reqs
    <3>2. Goto(r, next) /\ req'[r] = next
      BY <1>0, <1>6, <2>1, <3>1 DEF ResumeGate
    <3> QED
      BY <1>6, <2>1, <3>1, <3>2 DEF ResumeGate, HandlerMove, rowVars
  <2>2. CASE ~QuotaOpen
    <3>1. Finished \in Reqs /\ Goto(r, Finished) /\ req'[r] = Finished
      BY <1>0, <1>6, <2>2, RequestRecords DEF ResumeGate
    <3> QED
      BY <1>6, <3>1, RequestRecords DEF ResumeGate, HandlerMove, rowVars
  <2> QED
    BY <2>1, <2>2
<1>7. ASSUME NEW w \in Watchers, NEW op \in {"active", "paused", "delete"}, LoadRow(r, w, op)
      PROVE  Moved
  <2>1. CASE watcher[w].status \in {"none", "deleted"}
    <3>1. Finished \in Reqs /\ Goto(r, Finished) /\ req'[r] = Finished
      BY <1>0, <1>7, <2>1, RequestRecords DEF LoadRow
    <3> QED
      BY <1>7, <3>1, RequestRecords DEF LoadRow, HandlerMove, rowVars
  <2>2. CASE watcher[w].status \notin {"none", "deleted"}
    <3> DEFINE next == [pc |-> "write", w |-> w, op |-> op, loaded |-> watcher[w]]
    <3>1. next \in Reqs
      BY <1>1 DEF Reqs
    <3>2. Goto(r, next) /\ req'[r] = next
      BY <1>0, <1>7, <2>2, <3>1 DEF LoadRow
    <3>3. op = "active" => req[r].pc = "load" /\ req[r].w = w /\ req[r].op = "active"
      BY <1>1, <1>7 DEF LoadRow, HandlersStand
    <3> QED
      BY <1>7, <2>2, <3>1, <3>2, <3>3 DEF LoadRow, HandlerMove, rowVars
  <2> QED
    BY <2>1, <2>2
<1>8. ASSUME req[r].pc = "write",
             NEW new \in Row, new.errors = req[r].loaded.errors, new.status # "none",
             new.status = "active" => req[r].op = "active", Goto(r, Finished),
             watcher' = [watcher EXCEPT ![req[r].w] = Committed(@, req[r].loaded, new)],
             UNCHANGED <<baseline, page, poll, notices, faults>>
      PROVE  Moved
  <2>1. req[r].w \in Watchers /\ watcher[req[r].w] \in Row /\ watcher[req[r].w].status # "none"
    BY <1>1, <1>8 DEF HandlersStand
  <2>2. LET row == watcher'[req[r].w]
        IN  /\ row \in Row /\ row.errors = watcher[req[r].w].errors
            /\ row.status \in {watcher[req[r].w].status, new.status}
    BY <1>1, <1>8, <2>1, CommitRow, WatchAssumption
  <2>3. watcher' \in [Watchers -> Row] /\ \A w \in Watchers : w # req[r].w => watcher'[w] = watcher[w]
    BY <1>1, <1>8, <2>1, <2>2
  <2>4. Finished \in Reqs /\ req'[r].pc = "done"
    BY <1>0, <1>8, RequestRecords
  <2> QED
    BY <1>8, <2>1, <2>2, <2>3, <2>4 DEF HandlerMove
<1>9. CASE ApplyUpdates(r)
  <2> DEFINE new == Updated(req[r].loaded, req[r].op)
  <2>1. new \in Row /\ new.errors = req[r].loaded.errors /\ new.status = req[r].op
    BY <1>1, <1>9, HandlerRows DEF ApplyUpdates
  <2> QED
    BY <1>8, <1>9, <2>1 DEF ApplyUpdates
<1>10. CASE DeleteWrite(r)
  <2> DEFINE new == [req[r].loaded EXCEPT !.status = "deleted", !.next = "never"]
  <2>1. new \in Row /\ new.errors = req[r].loaded.errors /\ new.status = "deleted"
    BY <1>1, HandlerRows
  <2> QED
    BY <1>8, <1>10, <2>1 DEF DeleteWrite
<1> QED
  BY <1>2, <1>3, <1>4, <1>5, <1>6, <1>7, <1>9, <1>10 DEF Handler

\* A check under way: the claim it is for, and the row its store call has read.
LEMMA CheckFacts ==
    ASSUME IInv
    PROVE  /\ watcher \in [Watchers -> Row] /\ poll \in Polls
           /\ baseline \in [Watchers -> Contents \cup {NoContent}]
           /\ page \in [Watchers -> Contents] /\ poll.loaded \in Row
           /\ bads \in Nat /\ deaths \in Nat /\ bads <= MaxMishaps /\ deaths <= MaxMishaps
           /\ edits \in Nat /\ owed \in Nat /\ announced \in Nat /\ unread \in Nat /\ peak \in Nat
           /\ MaxErrors \in Nat /\ MaxMishaps \in Nat
BY WatchAssumption DEF IInv, Typed, WatchTypeOK, Polls

\* The row a failed check writes is a row: the count is within its bound.
LEMMA FailureRow ==
    ASSUME IInv, poll.pc = "commit_bad"
    PROVE  /\ NewErrors \in Nat /\ NewErrors <= MaxErrors + bads
           /\ [errors |-> NewErrors, status |-> IF Pauses THEN "paused" ELSE "active",
               next |-> IF Pauses THEN "never" ELSE "later"] \in Row
<1>1. Head(poll.batch).errors \in Nat /\ Head(poll.batch).errors < MaxErrors + bads
  BY HeadClaim DEF IInv, ErrorsBounded
<1> QED
  BY <1>1, CheckFacts DEF NewErrors, Row

\* What the poller does to the rows: a claim changes no count and no state, a check only
\* those of its watcher, and nothing becomes active.
LEMMA PollEffect ==
    ASSUME IInv, Claim \/ Check
    PROVE  /\ UNCHANGED <<page, req, peak, edits, deaths>>
           /\ watcher' \in [Watchers -> Row]
           /\ \A w \in Watchers :
                 /\ watcher'[w].status = "none" <=> watcher[w].status = "none"
                 /\ watcher'[w].status = "active" => watcher[w].status = "active"
                 /\ ~(poll.pc \in {"commit_ok", "commit_bad"} /\ w = cur) =>
                       watcher'[w].errors = watcher[w].errors
                 /\ watcher'[w].errors <= MaxErrors + bads
           /\ bads' \in {bads, bads + 1} /\ bads' <= MaxMishaps
<1>1. /\ watcher \in [Watchers -> Row] /\ poll \in Polls /\ poll.loaded \in Row
      /\ bads \in Nat /\ deaths \in Nat /\ MaxMishaps \in Nat /\ bads <= MaxMishaps
      /\ \A w \in Watchers : watcher[w].errors <= MaxErrors + bads
  BY CheckFacts DEF IInv, ErrorsBounded
<1>2. CASE Claim
  <2>1. PICK S \in SUBSET Watchers :
           watcher' = [w \in Watchers |->
                         IF w \in S THEN [watcher[w] EXCEPT !.next = "later"] ELSE watcher[w]]
    BY <1>2 DEF Claim, kSubset, Due, Active
  <2>2. \A w \in Watchers : /\ watcher'[w] \in Row /\ watcher'[w].status = watcher[w].status
                            /\ watcher'[w].errors = watcher[w].errors
    BY <1>1, <2>1, PlainRows
  <2>3. watcher' \in [Watchers -> Row]
    BY <2>1, <2>2
  <2> QED
    BY <1>1, <1>2, <2>2, <2>3 DEF Claim, faults
<1>3. CASE (\E unreadable \in BOOLEAN : RenderPage(unreadable)) \/ RenderBlocked \/ CheckRaises
           \/ SelectRow \/ RecordFails \/ NotifyChange
  <2>1. UNCHANGED <<page, req, peak, edits, deaths, watcher>>
    BY <1>3 DEF RenderPage, RenderBlocked, CheckRaises, SelectRow, RecordFails, NotifyChange,
                rowVars, notices, faults
  <2>2. \/ bads' = bads
        \/ bads' = bads + 1 /\ Mishap
    <3>1. ASSUME NEW unreadable \in BOOLEAN, RenderPage(unreadable)
          PROVE  bads' = bads \/ (bads' = bads + 1 /\ Mishap)
      BY <3>1 DEF RenderPage
    <3>2. CASE SelectRow \/ NotifyChange
      BY <3>2 DEF SelectRow, NotifyChange, faults
    <3>3. CASE RenderBlocked \/ CheckRaises \/ RecordFails
      BY <3>3 DEF RenderBlocked, CheckRaises, RecordFails
    <3> QED
      BY <1>3, <3>1, <3>2, <3>3
  <2>3. bads' \in {bads, bads + 1} /\ bads' <= MaxMishaps
    BY <1>1, <2>2 DEF Mishap
  <2> QED
    BY <1>1, <2>1, <2>3
<1>4. CASE RecordCheck
  <2> DEFINE new == [poll.loaded EXCEPT !.errors = 0, !.next = "later"]
  <2>1. /\ poll.pc = "commit_ok" /\ UNCHANGED <<page, req, peak, edits, bads, deaths>>
        /\ watcher' = IF poll.loaded.status # "active" THEN watcher
                      ELSE [watcher EXCEPT ![cur] = Committed(@, poll.loaded, new)]
    BY <1>4 DEF RecordCheck, faults
  <2>2. cur \in Watchers /\ new \in Row /\ new.errors = 0 /\ new.status = poll.loaded.status
    BY <1>1, <2>1, HeadClaim, PlainRows DEF IInv
  <2>3. LET row == Committed(watcher[cur], poll.loaded, new)
        IN  row \in Row /\ row.status = watcher[cur].status /\ row.errors \in {0, watcher[cur].errors}
    <3> HIDE DEF new
    <3>1. watcher[cur] \in Row
      BY <1>1, <2>2
    <3> QED
      BY <1>1, <2>2, <3>1, CommitRow, WatchAssumption
  <2>4. watcher' \in [Watchers -> Row] /\ \A w \in Watchers : w # cur => watcher'[w] = watcher[w]
    BY <1>1, <2>1, <2>2, <2>3
  <2>5. /\ watcher'[cur].status = watcher[cur].status
        /\ watcher'[cur].errors \in {0, watcher[cur].errors}
    BY <1>1, <2>1, <2>2, <2>3
  <2>6. \A w \in Watchers : watcher'[w].errors <= MaxErrors + bads
    BY <1>1, <2>2, <2>4, <2>5, WatchAssumption
  <2> QED
    BY <1>1, <2>1, <2>4, <2>5, <2>6
<1>5. CASE RecordFailure
  <2> DEFINE new == [errors |-> NewErrors, status |-> IF Pauses THEN "paused" ELSE "active",
                     next |-> IF Pauses THEN "never" ELSE "later"]
  <2>1. /\ poll.pc = "commit_bad" /\ UNCHANGED <<page, req, peak, edits, bads, deaths>>
        /\ watcher' = IF poll.loaded.status # "active" THEN watcher
                      ELSE [watcher EXCEPT ![cur] = Committed(@, poll.loaded, new)]
    BY <1>5 DEF RecordFailure, faults
  <2>2. cur \in Watchers /\ new \in Row /\ new.errors = NewErrors /\ NewErrors <= MaxErrors + bads
        /\ new.status \in {"active", "paused"}
    BY <1>1, <2>1, HeadClaim, FailureRow DEF IInv
  <2>3. LET row == Committed(watcher[cur], poll.loaded, new)
        IN  /\ row \in Row /\ row.errors \in {NewErrors, watcher[cur].errors}
            /\ poll.loaded.status = "active" => row.status \in {"paused", watcher[cur].status}
    BY <1>1, <2>2, CommitRow, WatchAssumption
  <2>4. watcher[cur].status # "none"
    BY <2>1, HeadClaim DEF IInv, ClaimsStand
  <2>5. watcher' \in [Watchers -> Row] /\ \A w \in Watchers : w # cur => watcher'[w] = watcher[w]
    BY <1>1, <2>1, <2>2, <2>3
  <2>6. /\ watcher'[cur].status \in {"paused", watcher[cur].status}
        /\ watcher'[cur].errors \in {NewErrors, watcher[cur].errors}
    BY <1>1, <2>1, <2>2, <2>3
  <2>7. \A w \in Watchers : watcher'[w].errors <= MaxErrors + bads
    BY <1>1, <2>2, <2>5, <2>6
  <2> QED
    BY <1>1, <2>1, <2>2, <2>4, <2>5, <2>6, <2>7
<1> QED
  BY <1>2, <1>3, <1>4, <1>5 DEF Check

\* Typed is kept.
LEMMA TypedStep ==
    ASSUME IInv, WatchNext PROVE Typed'
<1>0. Typed /\ WatchTypeOK
  BY DEF IInv, Typed
<1>1. ASSUME NEW r \in Requests, Handler(r) PROVE Typed'
  <2>1. /\ UNCHANGED <<baseline, page, poll, owed, announced, unread, edits, bads, deaths>>
        /\ req' \in [Requests -> Reqs] /\ peak' \in Nat
    BY <1>0, <1>1, HandlerEffect, GotoEffect DEF notices, faults
  <2>2. watcher' \in [Watchers -> Row]
    <3>1. \/ watcher' = watcher
          \/ watcher' \in [Watchers -> Row]
          \/ \E w \in Watchers : watcher' =
                [watcher EXCEPT ![w] = [status |-> "active", next |-> "due", errors |-> 0]]
      BY <1>1, HandlerEffect DEF HandlerMove
    <3>2. ASSUME NEW w \in Watchers, watcher' =
                [watcher EXCEPT ![w] = [status |-> "active", next |-> "due", errors |-> 0]]
          PROVE  watcher' \in [Watchers -> Row]
      BY <1>0, <3>2, PlainRows DEF WatchTypeOK
    <3> QED
      BY <1>0, <3>1, <3>2 DEF WatchTypeOK
  <2> QED
    BY <1>0, <2>1, <2>2 DEF Typed, WatchTypeOK, Reqs
<1>2. CASE Claim \/ Check
  <2>1. /\ UNCHANGED <<page, req, peak, edits, deaths>> /\ watcher' \in [Watchers -> Row]
        /\ bads' \in 0 .. MaxMishaps
    BY <1>2, PollEffect, CheckFacts
  <2>2. poll' \in Polls /\ (poll'.pc = "sleep" <=> poll'.batch = <<>>)
    <3>1. CASE Claim
      <4>1. PICK S \in SUBSET Watchers : S # {} /\ poll' =
               Sleep(SetToSeq({[w |-> w, errors |-> watcher[w].errors] : w \in S}))
        BY <3>1 DEF Claim, kSubset, Due, Active
      <4> QED
        BY <1>0, <4>1, ClaimedBatch, WatchAssumption
    <3>2. CASE (\E unreadable \in BOOLEAN : RenderPage(unreadable)) \/ RenderBlocked \/ CheckRaises
               \/ SelectRow
      <4>1. poll.pc # "sleep"
        BY <3>2 DEF RenderPage, RenderBlocked, CheckRaises, SelectRow
      <4>2. cur \in Watchers /\ poll.batch # <<>> /\ watcher[cur] \in Row /\ page[cur] \in Contents
        BY <1>0, <4>1, HeadClaim DEF WatchTypeOK
      <4>3. \E p \in {"record", "fail", "commit_ok", "commit_bad"}, x \in Contents \cup {NoContent},
               ch \in BOOLEAN, row \in Row :
               poll' = [poll EXCEPT !.pc = p, !.content = x, !.changed = ch, !.loaded = row]
        <5>0. /\ poll.content \in Contents \cup {NoContent} /\ poll.changed \in BOOLEAN
              /\ poll.loaded \in Row /\ poll \in Polls
          BY <1>0 DEF Typed, Polls
        <5>1. ASSUME NEW unreadable \in BOOLEAN, RenderPage(unreadable)
              PROVE  poll' = [poll EXCEPT !.pc = "record", !.content = page[cur],
                        !.changed = unreadable \/ baseline[cur] \notin {NoContent, page[cur]},
                        !.loaded = poll.loaded]
          BY <5>0, <5>1 DEF RenderPage, Polls
        <5>2. CASE RenderBlocked
          <6>1. poll' = [poll EXCEPT !.pc = "record", !.content = NoContent,
                           !.changed = poll.changed, !.loaded = poll.loaded]
            BY <5>0, <5>2 DEF RenderBlocked, Polls
          <6> QED
            BY <5>0, <6>1
        <5>3. CASE CheckRaises
          <6>1. poll' = [poll EXCEPT !.pc = "fail", !.content = poll.content,
                           !.changed = poll.changed, !.loaded = poll.loaded]
            BY <5>0, <5>3 DEF CheckRaises, Polls
          <6> QED
            BY <5>0, <6>1
        <5>4. CASE SelectRow
          <6>1. PICK p \in {"commit_ok", "commit_bad"} :
                   poll' = [poll EXCEPT !.loaded = watcher[cur], !.pc = p]
            BY <5>4 DEF SelectRow
          <6>2. poll' = [poll EXCEPT !.pc = p, !.content = poll.content,
                           !.changed = poll.changed, !.loaded = watcher[cur]]
            BY <5>0, <6>1 DEF Polls
          <6> QED
            BY <4>2, <5>0, <6>2
        <5> QED
          BY <3>2, <4>2, <5>0, <5>1, <5>2, <5>3, <5>4
      <4>4. poll' \in Polls /\ poll'.batch = poll.batch /\ poll'.pc # "sleep"
        BY <1>0, <4>3 DEF Typed, Polls
      <4> QED
        BY <4>2, <4>4
    <3>3. CASE RecordFails \/ NotifyChange \/ RecordFailure
      <4>1. poll.pc # "sleep" /\ poll' = NextCheck
        BY <3>3 DEF RecordFails, NotifyChange, RecordFailure
      <4> QED
        BY <1>0, <4>1, AfterCheck
    <3>4. CASE RecordCheck
      <4>1. poll.pc # "sleep" /\ poll' = IF poll.changed THEN [poll EXCEPT !.pc = "notify"] ELSE NextCheck
        BY <3>4 DEF RecordCheck
      <4>2. [poll EXCEPT !.pc = "notify"] \in Polls
        BY <1>0 DEF Typed, Polls
      <4>3. CASE poll.changed
        BY <1>0, <4>1, <4>2, <4>3 DEF Typed, Polls
      <4>4. CASE ~poll.changed
        BY <1>0, <4>1, <4>4, AfterCheck
      <4> QED
        BY <4>3, <4>4
    <3> QED
      BY <1>2, <3>1, <3>2, <3>3, <3>4 DEF Check
  <2>3. /\ owed' \in Nat /\ announced' \in Nat /\ unread' \in Nat
    <3>1. ASSUME NEW unreadable \in BOOLEAN, RenderPage(unreadable)
          PROVE  unread' \in {unread, unread + 1} /\ UNCHANGED <<owed, announced>>
      BY <3>1 DEF RenderPage
    <3>2. CASE RecordCheck
      BY <3>2, CheckFacts DEF RecordCheck
    <3>3. CASE NotifyChange
      BY <3>3, CheckFacts DEF NotifyChange, IInv, ChangesStand
    <3>4. CASE Claim \/ RenderBlocked \/ CheckRaises \/ SelectRow \/ RecordFails \/ RecordFailure
      BY <3>4, CheckFacts DEF Claim, RenderBlocked, CheckRaises, SelectRow, RecordFails,
                              RecordFailure, notices
    <3> QED
      BY <1>2, <3>1, <3>2, <3>3, <3>4, CheckFacts DEF Check
  <2>4. baseline' \in [Watchers -> Contents \cup {NoContent}]
    <3>1. CASE RecordCheck
      <4>1. /\ poll.content \in Contents \cup {NoContent}
            /\ baseline' = IF poll.content = NoContent THEN baseline
                           ELSE [baseline EXCEPT ![cur] = poll.content]
        BY <1>0, <3>1 DEF RecordCheck, Typed, Polls
      <4> QED
        BY <4>1, CheckFacts
    <3>2. CASE \/ \E unreadable \in BOOLEAN : RenderPage(unreadable)
               \/ Claim \/ RenderBlocked \/ CheckRaises \/ SelectRow \/ RecordFails
               \/ NotifyChange \/ RecordFailure
      BY <3>2, CheckFacts DEF Claim, RenderPage, RenderBlocked, CheckRaises, SelectRow, RecordFails,
                              NotifyChange, RecordFailure, rowVars
    <3> QED
      BY <1>2, <3>1, <3>2 DEF Check
  <2> QED
    BY <1>0, <2>1, <2>2, <2>3, <2>4 DEF Typed, WatchTypeOK, Polls, Claims
<1>3. ASSUME NEW w \in Watchers, IntervalPasses(w) PROVE Typed'
  <2>1. watcher' \in [Watchers -> Row]
    BY <1>0, <1>3, PlainRows DEF IntervalPasses, WatchTypeOK
  <2> QED
    BY <1>0, <1>3, <2>1 DEF IntervalPasses, Typed, WatchTypeOK, notices, faults
<1>4. ASSUME NEW w \in Watchers, NEW c \in Contents, PageChanges(w, c) PROVE Typed'
  BY <1>0, <1>4, WatchAssumption DEF PageChanges, Typed, WatchTypeOK, rowVars, notices
<1>5. CASE WatchCrash
  <2>1. poll' = Resting /\ Resting \in Polls /\ Resting.pc = "sleep" /\ Resting.batch = <<>>
    BY <1>5, PlainRows, EmptySeq DEF WatchCrash, Resting, Polls
  <2>2. req' \in [Requests -> Reqs]
    BY <1>0, <1>5, RequestRecords DEF WatchCrash, WatchTypeOK, Reqs
  <2>3. deaths' \in 0 .. MaxMishaps
    BY <1>5, CheckFacts DEF WatchCrash, Mishap
  <2> QED
    BY <1>0, <1>5, <2>1, <2>2, <2>3 DEF WatchCrash, Typed, WatchTypeOK, Reqs, rowVars, notices
<1> QED
  BY <1>1, <1>2, <1>3, <1>4, <1>5 DEF WatchNext, Environment

\* What a handler does to the rows: it counts no errors, and forgets no watcher.
LEMMA HandlerKeeps ==
    ASSUME IInv, NEW r \in Requests, Handler(r)
    PROVE  \A w \in Watchers :
              /\ watcher'[w].errors = watcher[w].errors \/ watcher[w].status = "none"
              /\ watcher'[w].errors \in {watcher[w].errors, 0}
              /\ watcher'[w].status = "none" => watcher[w].status = "none"
<1>1. watcher \in [Watchers -> Row] /\ HandlerMove(r)
  BY HandlerEffect DEF IInv, Typed, WatchTypeOK
<1>2. ASSUME NEW w \in Watchers, watcher[w].status = "none", watcher' =
                [watcher EXCEPT ![w] = [status |-> "active", next |-> "due", errors |-> 0]]
      PROVE  \A x \in Watchers :
                /\ watcher'[x].errors = watcher[x].errors \/ watcher[x].status = "none"
                /\ watcher'[x].errors \in {watcher[x].errors, 0}
                /\ watcher'[x].status = "none" => watcher[x].status = "none"
  BY <1>1, <1>2
<1>3. ASSUME \A w \in Watchers : w # req[r].w => watcher'[w] = watcher[w],
             watcher'[req[r].w].errors = watcher[req[r].w].errors,
             watcher'[req[r].w].status # "none"
      PROVE  \A x \in Watchers :
                /\ watcher'[x].errors = watcher[x].errors
                /\ watcher'[x].status = "none" => watcher[x].status = "none"
  BY <1>3
<1> QED
  BY <1>1, <1>2, <1>3 DEF HandlerMove

\* What the poller does to its batch: it claims one, works on its first claim, or drops it.
LEMMA BatchEffect ==
    ASSUME IInv, Claim \/ Check
    PROVE  \/ /\ Claim /\ poll.pc = "sleep" /\ poll'.pc = "render"
              /\ \A i, j \in DOMAIN poll'.batch : poll'.batch[i].w = poll'.batch[j].w => i = j
              /\ \A i \in DOMAIN poll'.batch :
                    LET w == poll'.batch[i].w
                    IN  /\ w \in Watchers /\ watcher[w].status # "none"
                        /\ poll'.batch[i].errors = watcher[w].errors
           \/ /\ poll.pc \notin {"sleep", "notify"} /\ poll'.pc # "sleep"
              /\ poll'.batch = poll.batch
              /\ poll'.pc \in {"fail", "commit_bad"} => bads' = bads + 1 \/ poll.pc = "fail"
              /\ poll'.pc # "notify" => watcher' = watcher
           \/ poll.pc # "sleep" /\ poll' = NextCheck
<1>1. Typed /\ poll \in Polls
  BY DEF IInv, Typed
<1>2. CASE Claim
  <2>1. PICK S \in SUBSET Watchers :
           /\ S # {} /\ \A w \in S : watcher[w].status = "active"
           /\ poll' = Sleep(SetToSeq({[w |-> w, errors |-> watcher[w].errors] : w \in S}))
    BY <1>2 DEF Claim, kSubset, Due, Active
  <2>2. /\ poll'.pc = "render"
        /\ \A i, j \in DOMAIN poll'.batch : poll'.batch[i].w = poll'.batch[j].w => i = j
        /\ \A i \in DOMAIN poll'.batch :
              LET w == poll'.batch[i].w
              IN  w \in S /\ poll'.batch[i].errors = watcher[w].errors
    BY <1>1, <2>1, ClaimedBatch, WatchAssumption
  <2>3. poll.pc = "sleep"
    BY <1>2 DEF Claim
  <2> QED
    BY <1>2, <2>1, <2>2, <2>3
<1>3. ASSUME NEW unreadable \in BOOLEAN, RenderPage(unreadable)
      PROVE  /\ poll.pc = "render" /\ poll'.pc = "record" /\ poll'.batch = poll.batch
             /\ watcher' = watcher
  BY <1>1, <1>3 DEF RenderPage, rowVars, Polls
<1>4. CASE RenderBlocked \/ CheckRaises \/ SelectRow
  BY <1>1, <1>4 DEF RenderBlocked, CheckRaises, SelectRow, rowVars, Polls
<1>5. CASE RecordFails \/ NotifyChange \/ RecordFailure
  BY <1>5 DEF RecordFails, NotifyChange, RecordFailure
<1>6. CASE RecordCheck
  BY <1>1, <1>6 DEF RecordCheck, Polls
<1> QED
  BY <1>2, <1>3, <1>4, <1>5, <1>6 DEF Check

\* What remains of the batch is as it was, one place further.
LEMMA RestOfBatch ==
    ASSUME Typed, poll.pc # "sleep", poll' = NextCheck
    PROVE  /\ poll'.pc \in {"sleep", "render"}
           /\ \A i \in DOMAIN poll'.batch :
                 i + 1 \in DOMAIN poll.batch /\ i + 1 # 1 /\ poll'.batch[i] = poll.batch[i + 1]
           /\ \A i \in DOMAIN poll'.batch : i \in Nat
           /\ poll.batch[1].w = cur /\ 1 \in DOMAIN poll.batch
<1>1. poll'.batch = Tail(poll.batch) /\ poll'.batch \in Seq(Claims)
  BY AfterCheck, HeadClaim
<1>2. \A i \in DOMAIN poll'.batch : i \in Nat
  BY <1>1, LenProperties
<1> QED
  BY <1>1, <1>2, AfterCheck, HeadClaim

\* Every place of a batch holds a claim.
LEMMA BatchClaims ==
    ASSUME NEW q \in Seq(Claims)
    PROVE  \A i \in DOMAIN q : q[i] \in Claims /\ q[i].w \in Watchers /\ q[i].errors \in Nat
<1>1. DOMAIN q = 1..Len(q)
  BY LenProperties
<1>2. \A i \in DOMAIN q : q[i] \in Claims
  BY <1>1, ElementOfSeq
<1> QED
  BY <1>2 DEF Claims

\* An interval that passes changes no count and no state.
LEMMA IntervalKeeps ==
    ASSUME watcher \in [Watchers -> Row], NEW w \in Watchers, IntervalPasses(w)
    PROVE  \A x \in Watchers : /\ watcher'[x].errors = watcher[x].errors
                                /\ watcher'[x].status = watcher[x].status
<1>1. watcher' = [watcher EXCEPT ![w] = [watcher[w] EXCEPT !.next = "due"]]
  BY DEF IntervalPasses
<1>2. LET row == [watcher[w] EXCEPT !.next = "due"]
      IN  row.errors = watcher[w].errors /\ row.status = watcher[w].status
  BY PlainRows
<1> QED
  BY <1>1, <1>2

\* ErrorsBounded is kept.
LEMMA ErrorsStep ==
    ASSUME IInv, WatchNext PROVE ErrorsBounded'
<1>0. /\ Typed /\ ErrorsBounded /\ watcher \in [Watchers -> Row] /\ bads \in Nat /\ MaxErrors \in Nat
      /\ poll.batch \in Seq(Claims)
  BY CheckFacts DEF IInv, Polls
<1>1. ASSUME NEW r \in Requests, Handler(r) PROVE ErrorsBounded'
  <2>1. /\ UNCHANGED <<poll, bads>> /\ \A w \in Watchers : watcher'[w].errors \in {watcher[w].errors, 0}
    BY <1>1, HandlerEffect, HandlerKeeps DEF faults
  <2> QED
    BY <1>0, <2>1 DEF ErrorsBounded
<1>2. CASE Claim \/ Check
  <2>1. /\ bads' \in {bads, bads + 1}
        /\ \A w \in Watchers : watcher[w].errors \in Nat /\ watcher'[w].errors <= MaxErrors + bads
    BY <1>0, <1>2, PollEffect DEF Row
  <2>2. \A w \in Watchers : watcher'[w].errors <= MaxErrors + bads'
    BY <1>0, <1>2, <2>1, PollEffect DEF Row
  <2>3. CASE poll.pc = "sleep"
    <3>1. /\ poll'.pc = "render"
          /\ \A i \in DOMAIN poll'.batch :
                /\ poll'.batch[i].w \in Watchers
                /\ poll'.batch[i].errors = watcher[poll'.batch[i].w].errors
      BY <1>2, <2>3, BatchEffect
    <3>2. \A i \in DOMAIN poll'.batch : poll'.batch[i].errors <= MaxErrors + bads'
      BY <1>0, <2>1, <3>1 DEF ErrorsBounded
    <3> QED
      BY <2>2, <3>1, <3>2 DEF ErrorsBounded
  <2>4. CASE poll.pc # "sleep" /\ poll' = NextCheck
    <3>1. /\ poll'.pc \in {"sleep", "render"}
          /\ \A i \in DOMAIN poll'.batch :
                /\ i + 1 \in DOMAIN poll.batch /\ poll.batch[i + 1] \in Claims
                /\ poll'.batch[i] = poll.batch[i + 1]
      BY <1>0, <2>4, RestOfBatch, ElementOfSeq
    <3>2. \A i \in DOMAIN poll'.batch : poll'.batch[i].errors <= MaxErrors + bads'
      BY <1>0, <2>1, <3>1 DEF ErrorsBounded, Claims
    <3> QED
      BY <2>2, <3>1, <3>2 DEF ErrorsBounded
  <2>5. CASE /\ poll.pc # "sleep" /\ poll'.batch = poll.batch
             /\ poll'.pc \in {"fail", "commit_bad"} => bads' = bads + 1 \/ poll.pc = "fail"
    <3>1. \A i \in DOMAIN poll.batch : poll.batch[i].errors \in Nat
      BY <1>0, BatchClaims
    <3>2. \A i \in DOMAIN poll.batch : poll.batch[i].errors <= MaxErrors + bads'
      BY <1>0, <2>1, <3>1 DEF ErrorsBounded
    <3>3. /\ 1 \in DOMAIN poll.batch /\ Head(poll.batch) = poll.batch[1]
          /\ Head(poll.batch).errors <= MaxErrors + bads /\ Head(poll.batch).errors \in Nat
      BY <1>0, <2>5, HeadClaim DEF ErrorsBounded
    <3>4. poll'.pc \in {"fail", "commit_bad"} => Head(poll.batch).errors < MaxErrors + bads'
      BY <1>0, <2>1, <2>5, <3>3 DEF ErrorsBounded
    <3> QED
      BY <2>2, <2>5, <3>2, <3>4 DEF ErrorsBounded
  <2> QED
    BY <1>2, <2>3, <2>4, <2>5, BatchEffect
<1>3. CASE Environment
  <2>1. ASSUME NEW w \in Watchers, IntervalPasses(w) PROVE ErrorsBounded'
    <3>1. \A x \in Watchers : watcher'[x].errors = watcher[x].errors
      BY <1>0, <2>1, IntervalKeeps
    <3> QED
      BY <1>0, <2>1, <3>1 DEF IntervalPasses, ErrorsBounded, faults
  <2>2. ASSUME NEW w \in Watchers, NEW c \in Contents, PageChanges(w, c) PROVE ErrorsBounded'
    BY <1>0, <2>2 DEF PageChanges, ErrorsBounded, rowVars
  <2>3. CASE WatchCrash
    <3>1. poll'.batch = <<>> /\ poll'.pc = "sleep" /\ UNCHANGED <<watcher, bads>>
      BY <2>3 DEF WatchCrash, Resting, rowVars
    <3> QED
      BY <1>0, <3>1, EmptySeq DEF ErrorsBounded
  <2> QED
    BY <1>3, <2>1, <2>2, <2>3 DEF Environment
<1> QED
  BY <1>1, <1>2, <1>3 DEF WatchNext

\* ClaimsStand is kept.
LEMMA ClaimsStep ==
    ASSUME IInv, WatchNext PROVE ClaimsStand'
<1>0. Typed /\ ClaimsStand /\ watcher \in [Watchers -> Row] /\ poll.batch \in Seq(Claims)
  BY CheckFacts DEF IInv, Polls
<1>1. \A i \in DOMAIN poll.batch : poll.batch[i] \in Claims /\ poll.batch[i].w \in Watchers
  BY <1>0, BatchClaims
<1>2. ASSUME NEW r \in Requests, Handler(r) PROVE ClaimsStand'
  BY <1>0, <1>1, <1>2, HandlerEffect, HandlerKeeps DEF ClaimsStand
<1>3. CASE Claim \/ Check
  <2>1. \A w \in Watchers :
           /\ watcher'[w].status = "none" <=> watcher[w].status = "none"
           /\ ~(poll.pc # "sleep" /\ w = cur) => watcher'[w].errors = watcher[w].errors
    BY <1>3, PollEffect
  <2>2. CASE poll.pc = "sleep"
    BY <1>3, <2>1, <2>2, BatchEffect DEF ClaimsStand
  <2>3. CASE poll.pc # "sleep" /\ poll' = NextCheck
    <3>1. /\ poll'.pc \in {"sleep", "render"} /\ 1 \in DOMAIN poll.batch /\ poll.batch[1].w = cur
          /\ \A i \in DOMAIN poll'.batch :
                /\ i \in Nat /\ i + 1 \in DOMAIN poll.batch /\ i + 1 # 1
                /\ poll'.batch[i] = poll.batch[i + 1]
      BY <1>0, <2>3, RestOfBatch
    <3>2. \A i, j \in DOMAIN poll'.batch : poll'.batch[i].w = poll'.batch[j].w => i = j
      BY <1>0, <3>1 DEF ClaimsStand
    <3>3. ASSUME NEW i \in DOMAIN poll'.batch
          PROVE  /\ watcher'[poll'.batch[i].w].status # "none"
                 /\ watcher'[poll'.batch[i].w].errors = poll'.batch[i].errors
      <4>1. poll.batch[i + 1].w # cur
        BY <1>0, <3>1 DEF ClaimsStand
      <4> QED
        BY <1>0, <1>1, <2>1, <3>1, <4>1 DEF ClaimsStand
    <3> QED
      BY <3>2, <3>3 DEF ClaimsStand
  <2>4. CASE /\ poll.pc \notin {"sleep", "notify"} /\ poll'.batch = poll.batch
             /\ poll'.pc # "notify" => watcher' = watcher
    <3>1. CASE watcher' = watcher
      BY <1>0, <2>4, <3>1 DEF ClaimsStand
    <3>2. CASE poll'.pc = "notify"
      <4>1. 1 \in DOMAIN poll.batch /\ poll.batch[1].w = cur
        BY <1>0, <2>4, HeadClaim
      <4>2. ASSUME NEW i \in DOMAIN poll.batch, i # 1
            PROVE  watcher'[poll.batch[i].w].errors = poll.batch[i].errors
        BY <1>0, <1>1, <2>1, <2>4, <4>1, <4>2 DEF ClaimsStand
      <4> QED
        BY <1>0, <1>1, <2>1, <2>4, <3>2, <4>2 DEF ClaimsStand
    <3> QED
      BY <2>4, <3>1, <3>2
  <2> QED
    BY <1>3, <2>2, <2>3, <2>4, BatchEffect
<1>4. CASE Environment
  <2>1. ASSUME NEW w \in Watchers, IntervalPasses(w) PROVE ClaimsStand'
    <3>1. \A x \in Watchers : /\ watcher'[x].errors = watcher[x].errors
                              /\ watcher'[x].status = watcher[x].status
      BY <1>0, <2>1, IntervalKeeps
    <3> QED
      BY <1>0, <1>1, <2>1, <3>1 DEF IntervalPasses, ClaimsStand
  <2>2. ASSUME NEW w \in Watchers, NEW c \in Contents, PageChanges(w, c) PROVE ClaimsStand'
    BY <1>0, <2>2 DEF PageChanges, ClaimsStand, rowVars
  <2>3. CASE WatchCrash
    <3>1. poll'.batch = <<>>
      BY <2>3 DEF WatchCrash, Resting
    <3> QED
      BY <3>1, EmptySeq DEF ClaimsStand
  <2> QED
    BY <1>4, <2>1, <2>2, <2>3 DEF Environment
<1> QED
  BY <1>2, <1>3, <1>4 DEF WatchNext

\* HandlersStand is kept.
LEMMA HandlersStep ==
    ASSUME IInv, WatchNext PROVE HandlersStand'
<1>0. Typed /\ HandlersStand /\ watcher \in [Watchers -> Row] /\ req \in [Requests -> Reqs]
  BY CheckFacts DEF IInv, Typed, WatchTypeOK, Reqs
<1>1. ASSUME \A w \in Watchers : watcher'[w].status = "none" => watcher[w].status = "none",
             \A q \in Requests : req'[q] = req[q] \/ req'[q].pc \in {"idle", "done"}
      PROVE  HandlersStand'
  BY <1>0, <1>1 DEF HandlersStand
<1>2. ASSUME NEW r \in Requests, Handler(r) PROVE HandlersStand'
  <2>1. /\ HandlerMove(r) /\ \A q \in Requests : q # r => req'[q] = req[q]
        /\ \A w \in Watchers : watcher'[w].status = "none" => watcher[w].status = "none"
    BY <1>0, <1>2, HandlerEffect, HandlerKeeps, GotoEffect
  <2>2. CASE req'[r].pc \in {"done"}
    <3>1. \A q \in Requests : req'[q] = req[q] \/ req'[q].pc \in {"idle", "done"}
      BY <2>1, <2>2
    <3> QED
      BY <1>1, <2>1, <3>1
  <2>3. CASE req'[r].pc # "done"
    <3>1. /\ req'[r].pc = "insert" => req'[r].op = "create"
          /\ req'[r].pc \in {"count", "load"} => req'[r].w \in Watchers /\ req'[r].op = "active"
          /\ req'[r].pc = "write" => /\ req'[r].w \in Watchers
                                     /\ watcher'[req'[r].w].status # "none"
                                     /\ req'[r].op \in {"active", "paused", "delete"}
      BY <1>0, <2>1, <2>3 DEF HandlerMove, HandlersStand
    <3> QED
      BY <1>0, <2>1, <3>1 DEF HandlersStand
  <2> QED
    BY <2>2, <2>3
<1>3. CASE Claim \/ Check
  BY <1>1, <1>3, PollEffect
<1>4. CASE Environment
  <2>1. ASSUME NEW w \in Watchers, IntervalPasses(w)
        PROVE  req' = req /\ \A x \in Watchers : watcher'[x].status = watcher[x].status
    BY <1>0, <2>1, IntervalKeeps DEF IntervalPasses
  <2>2. ASSUME NEW w \in Watchers, NEW c \in Contents, PageChanges(w, c)
        PROVE  UNCHANGED <<watcher, req>>
    BY <2>2 DEF PageChanges, rowVars
  <2>3. CASE WatchCrash
    BY <1>1, <2>3, RequestRecords DEF WatchCrash, rowVars
  <2> QED
    BY <1>1, <1>4, <2>1, <2>2, <2>3 DEF Environment
<1> QED
  BY <1>2, <1>3, <1>4 DEF WatchNext

\* The sets the cap is about are finite, before and after a step.
LEMMA QuotaSets ==
    /\ IsFiniteSet(Active) /\ IsFiniteSet(Targets) /\ IsFiniteSet(Active \cup Targets)
    /\ IsFiniteSet(Inserting) /\ IsFiniteSet(Resuming) /\ IsFiniteSet(Window)
    /\ IsFiniteSet(Active') /\ IsFiniteSet(Targets') /\ IsFiniteSet((Active \cup Targets)')
    /\ IsFiniteSet(Inserting') /\ IsFiniteSet(Resuming') /\ IsFiniteSet(Window')
<1>1. /\ Active \subseteq Watchers /\ Targets \subseteq Watchers
      /\ Active' \subseteq Watchers /\ Targets' \subseteq Watchers
  BY DEF Active, Targets
<1>2. /\ Inserting \subseteq Requests /\ Resuming \subseteq Requests /\ Window \subseteq Requests
      /\ Inserting' \subseteq Requests /\ Resuming' \subseteq Requests /\ Window' \subseteq Requests
  BY DEF Inserting, Resuming, Window
<1>3. IsFiniteSet(Watchers) /\ IsFiniteSet(Requests)
  BY WatchAssumption
<1>4. /\ Active \cup Targets \subseteq Watchers /\ (Active \cup Targets)' \subseteq Watchers
  BY <1>1
<1> QED
  BY <1>1, <1>2, <1>3, <1>4, FS_Subset

\* As many values as there are elements they come from, at most.
LEMMA ValuesBounded ==
    ASSUME NEW S, IsFiniteSet(S), NEW T, NEW f, \A t \in T : \E s \in S : f[s] = t
    PROVE  IsFiniteSet(T) /\ Cardinality(T) <= Cardinality(S)
<1> DEFINE g == [s \in S |-> f[s]]
           V == {f[s] : s \in S}
<1>1. g \in Surjection(S, V)
  BY DEF Surjection
<1>2. IsFiniteSet(V) /\ Cardinality(V) <= Cardinality(S)
  BY <1>1, FS_Surjection
<1>3. T \subseteq V
  OBVIOUS
<1>4. IsFiniteSet(T) /\ Cardinality(T) <= Cardinality(V)
  BY <1>2, <1>3, FS_Subset
<1>5. Cardinality(T) \in Nat /\ Cardinality(V) \in Nat /\ Cardinality(S) \in Nat
  BY <1>2, <1>4, FS_CardinalityType
<1> QED
  BY <1>2, <1>4, <1>5

\* A set with at most one more element is at most one larger.
LEMMA OneMore ==
    ASSUME NEW S, IsFiniteSet(S), NEW T, NEW x, T \subseteq S \cup {x}
    PROVE  /\ Cardinality(T) <= Cardinality(S) + 1
           /\ T \subseteq S => Cardinality(T) <= Cardinality(S)
           /\ x \in S /\ T \subseteq S \ {x} => Cardinality(T) <= Cardinality(S) - 1
           /\ Cardinality(S) \in Nat /\ Cardinality(T) \in Nat
<1>1. /\ IsFiniteSet(S \cup {x}) /\ Cardinality(S) \in Nat
      /\ Cardinality(S \cup {x}) \in {Cardinality(S), Cardinality(S) + 1}
  BY FS_AddElement, FS_CardinalityType
<1>2. IsFiniteSet(T) /\ Cardinality(T) <= Cardinality(S \cup {x}) /\ Cardinality(T) \in Nat
  BY <1>1, FS_Subset, FS_CardinalityType
<1>3. T \subseteq S => Cardinality(T) <= Cardinality(S)
  BY FS_Subset
<1>4. ASSUME x \in S, T \subseteq S \ {x} PROVE Cardinality(T) <= Cardinality(S) - 1
  <2>1. IsFiniteSet(S \ {x}) /\ Cardinality(S \ {x}) = Cardinality(S) - 1
    BY <1>4, FS_RemoveElement
  <2> QED
    BY <1>4, <2>1, FS_Subset
<1> QED
  BY <1>1, <1>2, <1>3, <1>4

\* A step that makes nothing more active keeps the cap.
LEMMA QuotaKept ==
    ASSUME IInv, (Active \cup Targets)' \subseteq Active \cup Targets, Inserting' \subseteq Inserting,
           peak' \in Nat, peak' >= peak, Cardinality(Window') <= peak'
    PROVE  QuotaStands'
<1> DEFINE A == Active \cup Targets
<1>1. /\ Cardinality(A') <= Cardinality(A) /\ Cardinality(Inserting') <= Cardinality(Inserting)
      /\ Cardinality(A) \in Nat /\ Cardinality(A') \in Nat
      /\ Cardinality(Inserting) \in Nat /\ Cardinality(Inserting') \in Nat
  <2>1. /\ IsFiniteSet(A) /\ IsFiniteSet(A') /\ IsFiniteSet(Inserting) /\ IsFiniteSet(Inserting')
        /\ A' \subseteq A
    BY QuotaSets
  <2> HIDE DEF A
  <2> QED
    BY <2>1, FS_Subset, FS_CardinalityType
<1>2. peak \in Nat /\ MaxWatchers \in Nat
  BY CheckFacts, WatchAssumption
<1>3. Max({0, peak - 1}) <= Max({0, peak' - 1}) /\ Max({0, peak - 1}) \in Int /\ Max({0, peak' - 1}) \in Int
  BY <1>2, MaxOfTwo
<1>4. Cardinality(A) + Cardinality(Inserting) <= MaxWatchers + Max({0, peak - 1})
  BY DEF IInv, QuotaStands
<1>5. Cardinality(A') + Cardinality(Inserting') <= MaxWatchers + Max({0, peak' - 1})
  <2> HIDE DEF A
  <2> QED
    BY <1>1, <1>2, <1>3, <1>4
<1> QED
  BY <1>5 DEF QuotaStands

\* A request that has passed the gate is one of those that may overshoot.
LEMMA GateOpen ==
    ASSUME IInv, NEW r \in Requests, NEW next \in Reqs, Goto(r, next), QuotaOpen,
           watcher' = watcher, next.pc \in {"insert", "load"}
    PROVE  QuotaStands'
<1>1. /\ req' \in [Requests -> Reqs] /\ req'[r] = next /\ peak' \in Nat
      /\ peak' >= Cardinality(Window')
  BY GotoEffect DEF IInv
<1>2. /\ Cardinality(Active') \in Nat /\ Cardinality(Active') < MaxWatchers
  BY QuotaSets, FS_CardinalityType DEF QuotaOpen, Active
<1>3. /\ IsFiniteSet(Targets') /\ Cardinality(Targets') <= Cardinality(Resuming')
  <2> DEFINE f == [q \in Requests |-> req'[q].w]
  <2>1. \A t \in Targets' : \E s \in Resuming' : f[s] = t
    BY DEF Targets, Resuming
  <2> HIDE DEF f
  <2> QED
    BY <2>1, QuotaSets, ValuesBounded
<1>4. Cardinality(Resuming') + Cardinality(Inserting') <= Cardinality(Window')
  <2>1. Resuming' \cup Inserting' \subseteq Window' /\ Resuming' \cap Inserting' = {}
    BY DEF Resuming, Inserting, Window, InWindow
  <2>2. /\ IsFiniteSet(Resuming' \cup Inserting')
        /\ Cardinality(Resuming' \cup Inserting') =
              Cardinality(Resuming') + Cardinality(Inserting') - Cardinality(Resuming' \cap Inserting')
    BY QuotaSets, FS_Union
  <2>3. Cardinality(Resuming' \cap Inserting') = 0
    BY <2>1, FS_EmptySet
  <2>4. Cardinality(Resuming' \cup Inserting') <= Cardinality(Window')
    BY <2>1, QuotaSets, FS_Subset
  <2>5. Cardinality(Resuming') \in Nat /\ Cardinality(Inserting') \in Nat
    BY QuotaSets, FS_CardinalityType
  <2> QED
    BY <2>2, <2>3, <2>4, <2>5
<1>5. Cardinality(Window') \in Nat /\ Cardinality(Window') # 0
  <2>1. r \in Window'
    BY <1>1 DEF Window, InWindow
  <2> QED
    BY <2>1, QuotaSets, FS_CardinalityType, FS_EmptySet
<1>6. Cardinality((Active \cup Targets)') <= Cardinality(Active') + Cardinality(Targets')
  <2>1. Cardinality(Active' \cup Targets') =
           Cardinality(Active') + Cardinality(Targets') - Cardinality(Active' \cap Targets')
    BY QuotaSets, FS_Union
  <2>2. Cardinality(Active' \cap Targets') \in Nat /\ Cardinality(Targets') \in Nat
    BY QuotaSets, FS_Intersection, FS_CardinalityType
  <2> QED
    BY <1>2, <2>1, <2>2
<1>7. /\ Cardinality((Active \cup Targets)') \in Nat /\ Cardinality(Targets') \in Nat
      /\ Cardinality(Resuming') \in Nat /\ Cardinality(Inserting') \in Nat
  BY QuotaSets, FS_CardinalityType
<1>8. Max({0, peak' - 1}) = peak' - 1
  BY <1>1, <1>5, MaxOfTwo
<1>9. Cardinality((Active \cup Targets)') + Cardinality(Inserting')
         <= MaxWatchers + Max({0, peak' - 1})
  BY <1>1, <1>2, <1>3, <1>4, <1>5, <1>6, <1>7, <1>8, WatchAssumption
<1> QED
  BY <1>1, <1>9 DEF QuotaStands

\* QuotaStands is kept.
LEMMA QuotaStep ==
    ASSUME IInv, WatchNext PROVE QuotaStands'
<1>0. /\ Typed /\ HandlersStand /\ watcher \in [Watchers -> Row] /\ req \in [Requests -> Reqs]
      /\ peak \in Nat
  BY CheckFacts DEF IInv, Typed, WatchTypeOK, Reqs
<1>1. Cardinality(Window) <= peak
  BY DEF IInv, QuotaStands
<1>2. ASSUME NEW r \in Requests, Handler(r) PROVE QuotaStands'
  <2>1. PICK next \in Reqs : Goto(r, next)
    BY <1>2, HandlerEffect
  <2>2. /\ HandlerMove(r) /\ req'[r] = next /\ req' \in [Requests -> Reqs]
        /\ \A q \in Requests : q # r => req'[q] = req[q]
        /\ peak' \in Nat /\ peak' >= peak /\ Cardinality(Window') <= peak'
    BY <1>0, <1>2, <2>1, HandlerEffect, GotoEffect
  <2>3. ASSUME watcher' = watcher, next.pc # "insert",
               r \in Resuming' => \/ r \in Resuming /\ req[r].w = next.w
                                  \/ watcher[next.w].status \in {"none", "active"}
        PROVE  QuotaStands'
    <3>1. (Active \cup Targets)' \subseteq Active \cup Targets
      BY <2>2, <2>3 DEF Active, Targets, Resuming
    <3>2. Inserting' \subseteq Inserting
      BY <2>2, <2>3 DEF Inserting
    <3> QED
      BY <2>2, <3>1, <3>2, QuotaKept
  <2>4. CASE next.pc = "done" /\ watcher' = watcher
    BY <2>2, <2>3, <2>4 DEF Resuming
  <2>5. CASE QuotaOpen /\ watcher' = watcher /\ next.pc \in {"insert", "load"}
    BY <2>1, <2>5, GateOpen
  <2>6. ASSUME req[r].pc = "insert", next.pc = "done",
               NEW w \in Watchers, watcher[w].status = "none", watcher' =
                  [watcher EXCEPT ![w] = [status |-> "active", next |-> "due", errors |-> 0]]
        PROVE  QuotaStands'
    <3> DEFINE A == Active \cup Targets
    <3>1. /\ A' \subseteq A \cup {w} /\ Inserting' = Inserting \ {r} /\ r \in Inserting
      BY <1>0, <2>2, <2>6 DEF Active, Targets, Resuming, Inserting
    <3>2. /\ Cardinality(Inserting') = Cardinality(Inserting) - 1 /\ Cardinality(Inserting) \in Nat
      BY <3>1, QuotaSets, FS_RemoveElement, FS_CardinalityType
    <3>3. /\ Cardinality(A') <= Cardinality(A) + 1 /\ Cardinality(A) \in Nat /\ Cardinality(A') \in Nat
      <4>1. IsFiniteSet(A)
        BY QuotaSets
      <4> HIDE DEF A
      <4> QED
        BY <3>1, <4>1, OneMore
    <3>4. Cardinality(A) + Cardinality(Inserting) <= MaxWatchers + Max({0, peak - 1})
      BY DEF IInv, QuotaStands
    <3>5. /\ Max({0, peak - 1}) <= Max({0, peak' - 1}) /\ Max({0, peak - 1}) \in Int
          /\ Max({0, peak' - 1}) \in Int
      BY <1>0, <2>2, MaxOfTwo
    <3>6. Cardinality(A') + Cardinality(Inserting') <= MaxWatchers + Max({0, peak' - 1})
      <4> HIDE DEF A
      <4> QED
        BY <3>2, <3>3, <3>4, <3>5, WatchAssumption
    <3> QED
      BY <2>2, <3>6 DEF QuotaStands
  <2>7. CASE /\ req[r].pc = "idle" /\ watcher' = watcher
             /\ \/ next.pc = "count"
                \/ next.pc = "load" /\ watcher[next.w].status \in {"none", "active"}
    BY <2>2, <2>3, <2>7 DEF Resuming
  <2>8. CASE /\ next.pc = "write" /\ watcher' = watcher
             /\ next.op = "active" => req[r].pc = "load" /\ req[r].op = "active" /\ req[r].w = next.w
    BY <2>2, <2>3, <2>8 DEF Resuming
  <2>9. CASE /\ req[r].pc = "write" /\ next.pc = "done"
             /\ \A w \in Watchers : w # req[r].w => watcher'[w] = watcher[w]
             /\ watcher'[req[r].w].status = "active" =>
                   watcher[req[r].w].status = "active" \/ req[r].op = "active"
    <3>1. req[r].w \in Watchers /\ watcher[req[r].w].status # "none"
      BY <1>0, <2>9 DEF HandlersStand
    <3>2. Resuming' \subseteq Resuming /\ Inserting' \subseteq Inserting
      BY <2>2, <2>9 DEF Resuming, Inserting
    <3>3. Active' \subseteq Active \cup Targets
      BY <2>9, <3>1 DEF Active, Targets, Resuming
    <3>4. Targets' \subseteq Targets
      <4> SUFFICES ASSUME NEW x \in Targets' PROVE x \in Targets
        OBVIOUS
      <4>1. PICK q \in Resuming' : req'[q].w = x
        BY DEF Targets
      <4>2. q # r /\ q \in Resuming /\ req[q].w = x /\ x \in Watchers /\ watcher'[x].status # "none"
        BY <2>2, <2>9, <3>2, <4>1 DEF Resuming, Targets
      <4>3. watcher[x].status # "none"
        BY <2>9, <3>1, <4>2
      <4> QED
        BY <4>2, <4>3 DEF Targets
    <3>5. (Active \cup Targets)' \subseteq Active \cup Targets
      BY <3>3, <3>4
    <3> QED
      BY <2>2, <3>2, <3>5, QuotaKept
  <2> QED
    BY <2>2, <2>4, <2>5, <2>6, <2>7, <2>8, <2>9 DEF HandlerMove
<1>3. ASSUME req' = req, peak' = peak,
             \A w \in Watchers : /\ watcher'[w].status = "none" <=> watcher[w].status = "none"
                                 /\ watcher'[w].status = "active" => watcher[w].status = "active"
      PROVE  QuotaStands'
  <2>1. /\ (Active \cup Targets)' \subseteq Active \cup Targets
        /\ Inserting' = Inserting /\ Window' = Window
    BY <1>3 DEF Active, Targets, Resuming, Inserting, Window
  <2> QED
    BY <1>0, <1>1, <1>3, <2>1, QuotaKept
<1>4. CASE Claim \/ Check
  BY <1>3, <1>4, PollEffect
<1>5. ASSUME NEW w \in Watchers, IntervalPasses(w) PROVE QuotaStands'
  BY <1>0, <1>3, <1>5, IntervalKeeps DEF IntervalPasses
<1>6. ASSUME NEW w \in Watchers, NEW c \in Contents, PageChanges(w, c) PROVE QuotaStands'
  BY <1>3, <1>6 DEF PageChanges, rowVars
<1>7. CASE WatchCrash
  <2>1. UNCHANGED <<watcher, peak>> /\ \A q \in Requests : req'[q].pc \in {"idle", "done"}
    BY <1>7, RequestRecords DEF WatchCrash, rowVars
  <2>2. /\ (Active \cup Targets)' \subseteq Active \cup Targets /\ Inserting' = {} /\ Window' = {}
    BY <2>1 DEF Active, Targets, Resuming, Inserting, Window, InWindow
  <2>3. Cardinality(Window') = 0
    BY <2>2, FS_EmptySet
  <2> QED
    BY <1>0, <2>1, <2>2, <2>3, QuotaKept
<1> QED
  BY <1>2, <1>4, <1>5, <1>6, <1>7 DEF WatchNext, Environment

\* The pages whose baseline is out of date are finitely many.
LEMMA StaleFinite ==
    IsFiniteSet(Stale) /\ Cardinality(Stale) \in Nat
<1>1. Stale \subseteq Watchers
  BY DEF Stale
<1> QED
  BY <1>1, WatchAssumption, FS_Subset, FS_CardinalityType

\* A check that ends unrecorded gives its finding back: its page may be stale again.
LEMMA CheckDropped ==
    ASSUME IInv, UNCHANGED <<baseline, page>>, ~Comparing'
    PROVE  /\ Found' = 0 /\ Cardinality(Stale') \in Nat
           /\ Cardinality(Stale') <= Cardinality(Stale) + Found
<1>1. \A w \in Watchers : Expected(w)' = baseline[w]
  BY DEF Expected
<1>2. Stale' = {w \in Watchers : baseline[w] \notin {NoContent, page[w]}}
  BY <1>1 DEF Stale
<1>3. ASSUME ~(Comparing /\ poll.changed) PROVE Stale' \subseteq Stale
  <2> SUFFICES ASSUME NEW w \in Stale' PROVE w \in Stale
    OBVIOUS
  <2>1. w \in Watchers /\ baseline[w] \notin {NoContent, page[w]}
    BY <1>2
  <2>2. CASE Comparing /\ w = cur /\ poll.content # NoContent
    <3>1. baseline[w] = poll.content
      BY <1>3, <2>1, <2>2 DEF IInv, ChangesStand
    <3> QED
      BY <2>1, <2>2, <3>1 DEF Stale, Expected
  <2>3. CASE ~(Comparing /\ w = cur /\ poll.content # NoContent)
    BY <2>1, <2>3 DEF Stale, Expected
  <2> QED
    BY <2>2, <2>3
<1>4. Stale' \subseteq Stale \cup {cur}
  BY <1>2 DEF Stale, Expected
<1>5. Found' = 0
  BY DEF Found
<1>6. Found = IF Comparing /\ poll.changed THEN 1 ELSE 0
  BY DEF Found
<1>7. /\ Cardinality(Stale') <= Cardinality(Stale) + 1
      /\ Stale' \subseteq Stale => Cardinality(Stale') <= Cardinality(Stale)
      /\ Cardinality(Stale) \in Nat /\ Cardinality(Stale') \in Nat
  BY <1>4, StaleFinite, OneMore
<1> QED
  BY <1>3, <1>5, <1>6, <1>7

\* ChangesStand is kept.
LEMMA ChangesStep ==
    ASSUME IInv, WatchNext PROVE ChangesStand'
<1> DEFINE spent == announced + owed + Found + Cardinality(Stale)
<1>0. /\ Typed /\ ChangesStand /\ poll \in Polls
      /\ Cardinality(Stale) \in Nat /\ Found \in {0, 1} /\ spent <= edits + unread
      /\ owed \in Nat /\ announced \in Nat /\ edits \in Nat /\ unread \in Nat /\ deaths \in Nat
  BY CheckFacts, StaleFinite DEF IInv, Found, ChangesStand
<1>1. ASSUME UNCHANGED <<baseline, page, poll, owed, announced, unread, edits, deaths>>
      PROVE  ChangesStand'
  BY <1>0, <1>1 DEF ChangesStand, Found, Stale, Expected, Comparing, cur
<1>2. ASSUME NEW r \in Requests, Handler(r) PROVE ChangesStand'
  BY <1>1, <1>2, HandlerEffect DEF notices, faults
<1>3. CASE Claim
  <2>1. UNCHANGED <<baseline, page, owed, announced, unread, edits, deaths>> /\ poll.pc = "sleep"
    BY <1>3 DEF Claim, notices, faults
  <2>2. poll'.pc = "render" /\ ~poll'.changed
    <3>1. PICK S \in SUBSET Watchers : S # {} /\ poll' =
             Sleep(SetToSeq({[w |-> w, errors |-> watcher[w].errors] : w \in S}))
      BY <1>3 DEF Claim, kSubset, Due, Active
    <3> QED
      BY <1>0, <3>1, ClaimedBatch, WatchAssumption
  <2>3. Found' = 0 /\ Cardinality(Stale') \in Nat /\ Cardinality(Stale') <= Cardinality(Stale) + Found
    BY <2>1, <2>2, CheckDropped DEF Comparing
  <2> QED
    BY <1>0, <2>1, <2>2, <2>3 DEF ChangesStand, Comparing
<1>4. ASSUME NEW unreadable \in BOOLEAN, RenderPage(unreadable) PROVE ChangesStand'
  <2> DEFINE moved == baseline[cur] \notin {NoContent, page[cur]}
  <2>1. /\ poll.pc = "render" /\ UNCHANGED <<baseline, page, owed, announced, edits, deaths>>
        /\ unread' = IF unreadable THEN unread + 1 ELSE unread
        /\ poll'.pc = "record" /\ poll'.content = page[cur] /\ poll'.batch = poll.batch
        /\ poll'.changed = (unreadable \/ moved)
    BY <1>0, <1>4 DEF RenderPage, rowVars, Polls
  <2>2. cur' = cur /\ cur \in Watchers /\ page[cur] # NoContent
    BY <1>0, <2>1, HeadClaim, CheckFacts, WatchAssumption DEF cur
  <2>3. \A w \in Watchers : Expected(w)' = IF w = cur THEN page[cur] ELSE baseline[w]
    BY <2>1, <2>2 DEF Expected, Comparing
  <2>4. Stale = {w \in Watchers : baseline[w] \notin {NoContent, page[w]}}
    BY <2>1 DEF Stale, Expected, Comparing
  <2>5. Stale' = {w \in Watchers : w # cur /\ baseline[w] \notin {NoContent, page[w]}}
    BY <2>1, <2>2, <2>3 DEF Stale
  <2>6. Stale' \subseteq Stale \ {cur} /\ (moved => cur \in Stale)
    BY <2>2, <2>4, <2>5
  <2>7. /\ Cardinality(Stale') <= Cardinality(Stale) /\ Cardinality(Stale') \in Nat
        /\ moved => Cardinality(Stale') <= Cardinality(Stale) - 1
    BY <2>6, StaleFinite, OneMore
  <2>8. Found = 0 /\ Found' = IF unreadable \/ moved THEN 1 ELSE 0
    BY <2>1 DEF Found, Comparing
  <2>9. spent' <= edits' + unread'
    <3> HIDE DEF moved
    <3>1. CASE moved
      BY <1>0, <2>1, <2>7, <2>8, <3>1
    <3>2. CASE ~moved
      BY <1>0, <2>1, <2>7, <2>8, <3>2
    <3> QED
      BY <3>1, <3>2
  <2> QED
    BY <1>0, <2>1, <2>2, <2>9 DEF ChangesStand, Comparing
<1>5. CASE RenderBlocked \/ CheckRaises
  <2>1. /\ poll.pc = "render" /\ UNCHANGED <<baseline, page, owed, announced, unread, edits, deaths>>
        /\ poll'.pc \in {"record", "fail"} /\ (poll'.pc = "record" => poll'.content = NoContent)
        /\ poll'.changed = poll.changed
    BY <1>0, <1>5 DEF RenderBlocked, CheckRaises, rowVars, notices, Polls
  <2>2. ~poll.changed
    BY <1>0, <2>1 DEF ChangesStand
  <2>3. Found' = 0 /\ Found = 0 /\ Stale' = Stale
    BY <2>1, <2>2 DEF Found, Stale, Expected, Comparing
  <2> QED
    BY <1>0, <2>1, <2>2, <2>3 DEF ChangesStand, Comparing
<1>6. CASE SelectRow
  <2>1. /\ UNCHANGED <<baseline, page, owed, announced, unread, edits, deaths>>
        /\ poll'.content = poll.content /\ poll'.changed = poll.changed /\ poll'.batch = poll.batch
        /\ \/ poll.pc = "record" /\ poll'.pc = "commit_ok"
           \/ poll.pc = "fail" /\ poll'.pc = "commit_bad"
    BY <1>0, <1>6 DEF SelectRow, rowVars, notices, faults, Polls
  <2>2. Found' = Found /\ Stale' = Stale /\ cur' = cur /\ Comparing' = Comparing
    BY <2>1 DEF Found, Stale, Expected, Comparing, cur
  <2> QED
    BY <1>0, <2>1, <2>2 DEF ChangesStand
<1>7. ASSUME poll.pc # "sleep", poll' = NextCheck, UNCHANGED <<baseline, page, unread, edits, deaths>>,
             \/ owed' = owed /\ announced' = announced
             \/ owed' = owed - 1 /\ announced' = announced + 1,
             deaths = 0 => owed' = 0
      PROVE  ChangesStand'
  <2>1. poll'.pc \in {"sleep", "render"} /\ ~poll'.changed
    BY <1>0, <1>7, AfterCheck
  <2>2. Found' = 0 /\ Cardinality(Stale') \in Nat /\ Cardinality(Stale') <= Cardinality(Stale) + Found
    BY <1>7, <2>1, CheckDropped DEF Comparing
  <2>3. spent' <= edits' + unread'
    <3>1. /\ edits' = edits /\ unread' = unread
          /\ \/ owed' = owed /\ announced' = announced
             \/ owed' = owed - 1 /\ announced' = announced + 1
      BY <1>7
    <3> QED
      BY <1>0, <2>2, <3>1
  <2>4. ~Comparing' /\ poll'.pc # "notify" /\ (deaths' = 0 => owed' = 0)
    BY <1>7, <2>1 DEF Comparing
  <2> QED
    BY <2>1, <2>3, <2>4 DEF ChangesStand
<1>8. CASE RecordFails
  BY <1>0, <1>7, <1>8 DEF RecordFails, rowVars, notices, ChangesStand
<1>9. CASE RecordFailure
  BY <1>0, <1>7, <1>9 DEF RecordFailure, notices, faults, ChangesStand
<1>10. CASE NotifyChange
  BY <1>0, <1>7, <1>10 DEF NotifyChange, rowVars, faults, ChangesStand
<1>11. CASE RecordCheck
  <2>1. /\ poll.pc = "commit_ok" /\ UNCHANGED <<page, announced, unread, edits, deaths>>
        /\ baseline' = IF poll.content = NoContent THEN baseline
                       ELSE [baseline EXCEPT ![cur] = poll.content]
        /\ owed' = IF poll.changed THEN owed + 1 ELSE owed
        /\ poll' = IF poll.changed THEN [poll EXCEPT !.pc = "notify"] ELSE NextCheck
    BY <1>11 DEF RecordCheck, faults
  <2>2. /\ ~Comparing' /\ (poll.changed <=> poll'.pc = "notify")
        /\ poll'.pc \in {"sleep", "render", "notify"} /\ (poll'.pc = "render" => ~poll'.changed)
    <3>1. CASE poll.changed
      BY <1>0, <2>1, <3>1 DEF Comparing, Polls
    <3>2. CASE ~poll.changed
      BY <1>0, <2>1, <3>2, AfterCheck DEF Comparing
    <3> QED
      BY <3>1, <3>2
  <2>3. \A w \in Watchers : Expected(w)' = Expected(w)
    <3>1. \A w \in Watchers : Expected(w)' = baseline'[w]
      BY <2>2 DEF Expected
    <3>2. \A w \in Watchers : baseline'[w] = Expected(w)
      BY <2>1, CheckFacts DEF Expected, Comparing
    <3> QED
      BY <3>1, <3>2
  <2>4. Stale' = Stale
    BY <2>1, <2>3 DEF Stale
  <2>5. Found' = 0 /\ Found = IF poll.changed THEN 1 ELSE 0
    BY <2>1, <2>2 DEF Found, Comparing
  <2>6. spent' <= edits' + unread'
    BY <1>0, <2>1, <2>4, <2>5
  <2>7. /\ poll'.pc = "notify" => owed' > 0
        /\ deaths' = 0 => owed' = IF poll'.pc = "notify" THEN 1 ELSE 0
    BY <1>0, <2>1, <2>2 DEF ChangesStand
  <2> QED
    BY <2>2, <2>6, <2>7 DEF ChangesStand
<1>12. ASSUME NEW w \in Watchers, IntervalPasses(w) PROVE ChangesStand'
  BY <1>1, <1>12 DEF IntervalPasses, notices, faults
<1>13. ASSUME NEW w \in Watchers, NEW c \in Contents, PageChanges(w, c) PROVE ChangesStand'
  <2>1. /\ UNCHANGED <<baseline, poll, owed, announced, unread, deaths>> /\ edits' = edits + 1
        /\ \A x \in Watchers : x # w => page'[x] = page[x]
    BY <1>13, CheckFacts DEF PageChanges, rowVars, notices
  <2>2. Stale' \subseteq Stale \cup {w}
    BY <2>1 DEF Stale, Expected, Comparing, cur
  <2>3. Cardinality(Stale') <= Cardinality(Stale) + 1 /\ Cardinality(Stale') \in Nat
    BY <2>2, StaleFinite, OneMore
  <2>4. Found' = Found /\ cur' = cur /\ Comparing' = Comparing
    BY <2>1 DEF Found, Comparing, cur
  <2>5. spent' <= edits' + unread'
    BY <1>0, <2>1, <2>3, <2>4
  <2> QED
    BY <1>0, <2>1, <2>4, <2>5 DEF ChangesStand
<1>14. CASE WatchCrash
  <2>1. /\ UNCHANGED <<baseline, page, owed, announced, unread, edits>> /\ deaths' = deaths + 1
        /\ poll'.pc = "sleep"
    BY <1>14 DEF WatchCrash, Resting, rowVars, notices
  <2>2. Found' = 0 /\ Cardinality(Stale') \in Nat /\ Cardinality(Stale') <= Cardinality(Stale) + Found
    BY <2>1, CheckDropped DEF Comparing
  <2> QED
    BY <1>0, <2>1, <2>2 DEF ChangesStand, Comparing
<1> QED
  BY <1>2, <1>3, <1>4, <1>5, <1>6, <1>8, <1>9, <1>10, <1>11, <1>12, <1>13, <1>14
     DEF WatchNext, Check, Environment

-----------------------------------------------------------------------------
(* The theorems *)

\* The first states satisfy the invariant.
LEMMA InitInv ==
    ASSUME WatchInit PROVE IInv
<1>1. /\ watcher \in [Watchers -> Row] /\ req = [r \in Requests |-> Idle]
      /\ poll = Resting /\ peak = 0 /\ bads = 0 /\ deaths = 0 /\ edits = 0
      /\ owed = 0 /\ announced = 0 /\ unread = 0
      /\ \A w \in Watchers : watcher[w].errors <= MaxErrors
  <2>1. /\ NoRow \in Row /\ NoRow.errors = 0
        /\ [status |-> "active", next |-> "later", errors |-> MaxErrors - 1] \in Row
        /\ [status |-> "paused", next |-> "never", errors |-> MaxErrors] \in Row
    <3>1. {0, MaxErrors - 1, MaxErrors} \subseteq 0 .. MaxErrors + MaxMishaps
      BY WatchAssumption
    <3> QED
      BY <3>1, PlainRows DEF Row, NoRow
  <2>2. \A w \in Watchers : watcher[w] \in
           {NoRow, [status |-> "active", next |-> "later", errors |-> MaxErrors - 1],
            [status |-> "paused", next |-> "never", errors |-> MaxErrors]}
    BY DEF WatchInit
  <2>3. watcher \in [Watchers -> Row]
    BY <2>1, <2>2 DEF WatchInit
  <2>4. \A w \in Watchers : watcher[w].errors <= MaxErrors
    BY <2>1, <2>2, WatchAssumption
  <2> QED
    BY <2>3, <2>4 DEF WatchInit
<1>2. /\ Resting \in Polls /\ Resting.pc = "sleep" /\ Resting.batch = <<>>
      /\ DOMAIN Resting.batch = {} /\ ~Resting.changed
  <2>1. <<>> \in Seq(Claims) /\ DOMAIN <<>> = {}
    BY EmptySeq, LenProperties
  <2>2. NoRow \in Row
    BY PlainRows
  <2> QED
    BY <2>1, <2>2 DEF Resting, Polls
<1>3. Typed
  <2>1. (CHOOSE c \in Contents : TRUE) \in Contents
    BY WatchAssumption
  <2>2. baseline \in [Watchers -> Contents \cup {NoContent}] /\ page \in [Watchers -> Contents]
    BY <2>1 DEF WatchInit
  <2>3. req \in [Requests -> Reqs]
    BY <1>1, RequestRecords
  <2>4. 0 \in 0 .. MaxEdits /\ 0 \in 0 .. MaxMishaps
    BY WatchAssumption
  <2> QED
    BY <1>1, <1>2, <2>2, <2>3, <2>4 DEF Typed, WatchTypeOK, Reqs, Polls, Claims
<1>4. ErrorsBounded
  BY <1>1, <1>2, WatchAssumption DEF ErrorsBounded
<1>5. ClaimsStand
  BY <1>1, <1>2 DEF ClaimsStand
<1>6. \A r \in Requests : req[r].pc = "idle"
  BY <1>1, RequestRecords
<1>7. HandlersStand
  BY <1>6 DEF HandlersStand
<1>8. QuotaStands
  <2>1. Window = {} /\ Inserting = {} /\ Active \cup Targets \subseteq Active
    BY <1>6 DEF Window, InWindow, Inserting, Targets, Resuming
  <2>2. Cardinality(Window) = 0 /\ Cardinality(Inserting) = 0
    BY <2>1, FS_EmptySet
  <2>3. Max({0, peak - 1}) = 0
    BY <1>1, MaxOfTwo
  <2>4. Cardinality(Active) \in Nat /\ Cardinality(Active) <= MaxWatchers
    BY QuotaSets, FS_CardinalityType DEF WatchInit
  <2>5. Cardinality(Window) <= peak
    BY <1>1, <2>2
  <2>6. Cardinality(Active \cup Targets) + Cardinality(Inserting) <= MaxWatchers + Max({0, peak - 1})
    <3>1. /\ Cardinality(Active \cup Targets) <= Cardinality(Active)
          /\ Cardinality(Active \cup Targets) \in Nat
      BY <2>1, QuotaSets, FS_Subset, FS_CardinalityType
    <3> QED
      BY <2>2, <2>3, <2>4, <3>1, WatchAssumption
  <2> QED
    BY <2>5, <2>6 DEF QuotaStands
<1>9. ChangesStand
  <2>1. Stale = {} /\ Found = 0 /\ ~Comparing
    BY <1>1, <1>2 DEF Stale, Expected, Found, Comparing, WatchInit
  <2>2. Cardinality(Stale) = 0
    BY <2>1, FS_EmptySet
  <2> QED
    BY <1>1, <1>2, <2>1, <2>2 DEF ChangesStand
<1> QED
  BY <1>3, <1>4, <1>5, <1>7, <1>8, <1>9 DEF IInv

\* Every step keeps the invariant.
LEMMA StepInv ==
    ASSUME IInv, [WatchNext]_watchVars PROVE IInv'
<1>1. CASE WatchNext
  BY <1>1, TypedStep, ErrorsStep, ClaimsStep, HandlersStep, QuotaStep, ChangesStep DEF IInv
<1>2. CASE UNCHANGED watchVars
  BY <1>2 DEF watchVars, IInv, Typed, WatchTypeOK, ErrorsBounded, ClaimsStand, HandlersStand,
     QuotaStands, ChangesStand, Window, Inserting, Resuming, Targets, Active, Stale, Found,
     Expected, Comparing, cur
<1> QED
  BY <1>1, <1>2

\* The invariant holds in every reachable state.
THEOREM Inductive == WatchSpec => []IInv
BY InitInv, StepInv, PTL DEF WatchSpec

\* Every variable has its type, in every reachable state.
THEOREM TypeCorrect == WatchSpec => []WatchTypeOK
<1>1. IInv => WatchTypeOK
  BY DEF IInv, Typed
<1> QED
  BY <1>1, Inductive, PTL

\* _handle_failure may trust the count it claimed: while the row is still active when the
\* failure is committed, it is the row's own, however many requests and deaths there were.
THEOREM ClaimedCountHolds == WatchSpec => []ClaimedCountExact
<1>1. ASSUME IInv PROVE ClaimedCountExact
  <2>1. SUFFICES ASSUME poll.pc = "commit_bad"
                 PROVE  Head(poll.batch).errors = watcher[cur].errors
    BY DEF ClaimedCountExact
  <2>2. 1 \in DOMAIN poll.batch /\ Head(poll.batch) = poll.batch[1] /\ Head(poll.batch).w = cur
    BY <1>1, <2>1, HeadClaim DEF IInv
  <2> QED
    BY <1>1, <2>1, <2>2 DEF IInv, ClaimsStand
<1> QED
  BY <1>1, Inductive, PTL

\* The tolerance check_watcher_quota states is exact: N requests between the count and their
\* commit exceed the plan's cap by N - 1 watchers at most, for every N and every cap.
THEOREM OvershootHolds == WatchSpec => []OvershootBounded
<1>1. ASSUME IInv PROVE OvershootBounded
  <2>1. /\ Cardinality(Active \cup Targets) + Cardinality(Inserting)
              <= MaxWatchers + Max({0, peak - 1})
        /\ peak \in Nat /\ MaxWatchers \in Nat
    BY <1>1, CheckFacts, WatchAssumption DEF IInv, QuotaStands
  <2>2. Cardinality(Active) <= Cardinality(Active \cup Targets)
    BY QuotaSets, FS_Subset
  <2>3. /\ Cardinality(Active) \in Nat /\ Cardinality(Inserting) \in Nat
        /\ Cardinality(Active \cup Targets) \in Nat /\ Max({0, peak - 1}) \in Int
    BY <2>1, QuotaSets, FS_CardinalityType, MaxOfTwo
  <2> QED
    BY <2>1, <2>2, <2>3 DEF OvershootBounded
<1> QED
  BY <1>1, Inductive, PTL

\* A change is announced once for each time the page changed under its baseline or the
\* baseline was lost, at most, and none recorded is forgotten unless the process dies.
THEOREM ChangesHold == WatchSpec => []ChangesAnnouncedOnce
<1>1. ASSUME IInv PROVE ChangesAnnouncedOnce
  <2>1. /\ owed \in Nat /\ Found \in Nat /\ Cardinality(Stale) \in Nat /\ announced \in Nat
        /\ edits \in Nat /\ unread \in Nat
    BY <1>1, CheckFacts, StaleFinite DEF Found
  <2> QED
    BY <1>1, <2>1 DEF IInv, ChangesStand, ChangesAnnouncedOnce
<1> QED
  BY <1>1, Inductive, PTL

=============================================================================
