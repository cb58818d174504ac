------------------------------ MODULE Pipelines ------------------------------
(***************************************************************************)
(* The synchronous v2 requests that bill per result: /v2/lookup,           *)
(* /v2/discover and /v2/distill, on the period's ops they share.  Each is  *)
(* a run of the event loop between two awaits; the timeout middleware      *)
(* cancels a request at an await, a thread it started finishes all the     *)
(* same.  The plan has every flag; ops beyond the grant are refused.       *)
(***************************************************************************)
EXTENDS Common, Sequences, FiniteSets

CONSTANTS
    Requests,
    Pages,              \* what distill is asked about
    OpsCap,             \* the period's ops
    MaxEscalations,     \* _MAX_LLM_ESCALATIONS
    MaxPipeFaults       \* bound on database faults and timeouts

ASSUME PipeAssumption ==
    /\ IsFiniteSet(Requests) /\ Requests # {} /\ IsFiniteSet(Pages)
    /\ "op" \notin Pages
    /\ OpsCap \in Nat

VARIABLES
    ask,        \* each request
    opsUsed,    \* ops_used of the period
    paid,       \* per request, the keys billed: a page, or "op"
    auditRows,  \* ch_distill_operations: <<request, page, status>>
    onThread,   \* writes a cancelled request left on a thread: <<request, what>>
    pipeFaults

pipeVars == <<ask, opsUsed, paid, auditRows, onThread, pipeFaults>>

Kinds == {"lookup", "discover", "urls", "crawl"}    \* distill: urls given, or discovered
Distill == {"urls", "crawl"}

\* reply: the HTTP status; row: the ch_activity row; item: status of the page in hand
NewAsk == [kind |-> None, at |-> "idle", todo |-> <<>>, item |-> None, llm |-> FALSE,
           calls |-> 0, done |-> {}, failed |-> {}, reply |-> 0, row |-> None]

Affords(units) == opsUsed + units <= OpsCap
Page(r) == Head(ask[r].todo)
GoTo(r, at) == ask' = [ask EXCEPT ![r].at = at]
Reply(r, code, row) == ask' = [ask EXCEPT ![r].at = "replied", ![r].reply = code, ![r].row = row]
\* record_op_usage, keyed: a replay of a key adds nothing
Pay(r, key) == /\ paid' = [paid EXCEPT ![r] = @ \cup {key}]
               /\ opsUsed' = opsUsed + IF key \in paid[r] THEN 0 ELSE 1
Fault == pipeFaults < MaxPipeFaults /\ pipeFaults' = pipeFaults + 1
Unpaid == UNCHANGED <<opsUsed, paid>>

-----------------------------------------------------------------------------
(* Handlers: the gates, then the row *)

\* de-duplicated lists of pages
Orders == {urls \in UNION {[1..n -> Pages] : n \in 0..Cardinality(Pages)} :
              \A i, j \in DOMAIN urls : urls[i] = urls[j] => i = j}

ArrivePipe(r) ==
    /\ ask[r].at = "idle"
    /\ \E kind \in Kinds, llm \in BOOLEAN, urls \in Orders :
          /\ kind = "urls" <=> urls # <<>>
          /\ llm => kind \in Distill
          /\ LET units == IF kind = "urls" THEN Len(urls) ELSE 1
                 new == [NewAsk EXCEPT !.kind = kind, !.llm = llm, !.todo = urls]
             IN  ask' = [ask EXCEPT ![r] =
                    IF ~Affords(units) THEN [new EXCEPT !.at = "replied", !.reply = 402]
                    ELSE IF kind = "urls" THEN [new EXCEPT !.at = "screen"]
                    ELSE [new EXCEPT !.at = "work", !.row = "In Progress"]]
    /\ Unpaid /\ UNCHANGED <<auditRows, onThread, pipeFaults>>

\* assert_public_http_url on each url, before there is a row
Screen(r, public) ==
    /\ ask[r].at = "screen"
    /\ IF public THEN ask' = [ask EXCEPT ![r].at = "loop", ![r].row = "In Progress"]
       ELSE Reply(r, 400, None)
    /\ Unpaid /\ UNCHANGED <<auditRows, onThread, pipeFaults>>

\* the search, or the discovery, fails
WorkFails(r) ==
    /\ ask[r].at = "work"
    /\ \E code \in IF ask[r].kind = "lookup" THEN {500, 502, 503} ELSE {400, 500} :
          Reply(r, code, "Failed")
    /\ Unpaid /\ UNCHANGED <<auditRows, onThread, pipeFaults>>

\* lookup_flow.run: billed and audited before the event loop is given back
LookupFound(r) ==
    /\ ask[r].at = "work" /\ ask[r].kind = "lookup"
    /\ \/ Pay(r, "op") /\ Reply(r, 200, "Success") /\ UNCHANGED pipeFaults
       \/ Fault /\ Reply(r, 500, "Failed") /\ Unpaid
    /\ UNCHANGED <<auditRows, onThread>>

\* discover bills on a thread; distill's own discovery is not billed
Discovered(r) ==
    /\ ask[r].at = "work" /\ ask[r].kind # "lookup"
    /\ \E urls \in Orders :
          IF ask[r].kind = "discover" THEN GoTo(r, "bill") /\ urls = <<>>
          ELSE ask' = [ask EXCEPT ![r].todo = urls, ![r].at = "loop"]
    /\ Unpaid /\ UNCHANGED <<auditRows, onThread, pipeFaults>>

BillDiscover(r) ==
    /\ ask[r].at = "bill"
    /\ \/ Pay(r, "op") /\ Reply(r, 200, "Success") /\ UNCHANGED pipeFaults
       \/ Fault /\ Reply(r, 500, "Failed") /\ Unpaid
    /\ UNCHANGED <<auditRows, onThread>>

-----------------------------------------------------------------------------
(* distill_flow.run: page by page *)

\* no page left, or the grant used up: what there is, is the answer
EndDistill(r) ==
    /\ ask[r].at = "loop" /\ (ask[r].todo = <<>> \/ ~Affords(1))
    /\ Reply(r, 200, "Success")
    /\ Unpaid /\ UNCHANGED <<auditRows, onThread, pipeFaults>>

NextPage(r) ==
    /\ ask[r].at = "loop" /\ ask[r].todo # <<>> /\ Affords(1)
    /\ GoTo(r, "render")
    /\ Unpaid /\ UNCHANGED <<auditRows, onThread, pipeFaults>>

\* a render that is refused or fails is a failed item, never a failed request
Render(r, ok) ==
    /\ ask[r].at = "render"
    /\ ask' = [ask EXCEPT ![r].at = IF ok THEN "css" ELSE "row",
                          ![r].item = IF ok THEN @ ELSE "failed"]
    /\ Unpaid /\ UNCHANGED <<auditRows, onThread, pipeFaults>>

\* _llm_skip_reason: fields are missing, and nothing forbids to ask the model
Escalates(r, missing, poor) ==
    missing /\ ask[r].llm /\ ~poor /\ ask[r].calls < MaxEscalations

\* the CSS pass ends or times out.  This build has no model, and the rendered page not the
\* field the call passes on: an escalated page is a failed item, its call counted
CssPass(r) ==
    /\ ask[r].at = "css"
    /\ \E missing \in BOOLEAN, poor \in BOOLEAN :
          LET escalated == Escalates(r, missing, poor)
          IN  ask' = [ask EXCEPT ![r].at = "row",
                         ![r].calls = IF escalated THEN @ + 1 ELSE @,
                         ![r].item = IF escalated THEN "failed" ELSE "completed"]
    /\ Unpaid /\ UNCHANGED <<auditRows, onThread, pipeFaults>>

\* _persist_distill_operation on a thread, best effort
PersistItem(r) ==
    /\ ask[r].at = "row"
    /\ \/ /\ auditRows' = auditRows \cup {<<r, Page(r), ask[r].item>>}
          /\ UNCHANGED pipeFaults
       \/ Fault /\ UNCHANGED auditRows
    /\ GoTo(r, "rowed")
    /\ Unpaid /\ UNCHANGED onThread

\* back on the loop: a completed item is billed under operation and page
Settled(r) ==
    [ask EXCEPT ![r].at = "loop", ![r].todo = Tail(@), ![r].item = None,
                ![r].done = IF ask[r].item = "completed" THEN @ \cup {Page(r)} ELSE @,
                ![r].failed = IF ask[r].item = "failed" THEN @ \cup {Page(r)} ELSE @]
MutBillItem(r) ==       \* every item is billed
    /\ ask[r].at = "rowed"
    /\ Pay(r, Page(r)) /\ ask' = Settled(r)
    /\ UNCHANGED <<auditRows, onThread, pipeFaults>>
BillItem(r) ==
    /\ ask[r].at = "rowed"
    /\ \/ ask[r].item = "failed" /\ ask' = Settled(r) /\ Unpaid /\ UNCHANGED pipeFaults
       \/ ask[r].item = "completed" /\ Pay(r, Page(r)) /\ ask' = Settled(r)
          /\ UNCHANGED pipeFaults
       \/ ask[r].item = "completed" /\ Fault /\ Reply(r, 500, "Failed") /\ Unpaid
    /\ UNCHANGED <<auditRows, onThread>>

-----------------------------------------------------------------------------
(* The timeout cancels at an await; the row of a v2 request is not known to it *)

Awaiting == {"screen", "work", "bill", "render", "css", "row", "rowed"}

CancelPipe(r) ==
    /\ ask[r].at \in Awaiting /\ Fault
    /\ onThread' = onThread \cup
          CASE ask[r].at = "bill" -> {<<r, "op">>}
            [] ask[r].at = "row"  -> {<<r, Page(r)>>}
            [] OTHER -> {}
    /\ Reply(r, 504, ask[r].row)
    /\ Unpaid /\ UNCHANGED auditRows

ThreadEnds(r) ==
    /\ \E write \in onThread :
          /\ write[1] = r
          /\ onThread' = onThread \ {write}
          /\ IF write[2] = "op" THEN Pay(r, "op") /\ UNCHANGED auditRows
             ELSE Unpaid /\ auditRows' = auditRows \cup {<<r, write[2], ask[r].item>>}
    /\ UNCHANGED <<ask, pipeFaults>>

-----------------------------------------------------------------------------
PipeInit ==
    /\ ask = [r \in Requests |-> NewAsk]
    /\ opsUsed = 0 /\ pipeFaults = 0
    /\ paid = [r \in Requests |-> {}]
    /\ auditRows = {} /\ onThread = {}

PipeStep(r) ==
    \/ ArrivePipe(r) \/ (\E public \in BOOLEAN : Screen(r, public)) \/ WorkFails(r)
    \/ LookupFound(r) \/ Discovered(r) \/ BillDiscover(r) \/ EndDistill(r) \/ NextPage(r)
    \/ (\E ok \in BOOLEAN : Render(r, ok)) \/ CssPass(r) \/ PersistItem(r) \/ BillItem(r)
    \/ CancelPipe(r) \/ ThreadEnds(r)
PipeNext == \E r \in Requests : PipeStep(r)

-----------------------------------------------------------------------------
(* Properties *)

CompletedRows(r) == {p \in Pages : <<r, p, "completed">> \in auditRows}

\* What is billed is what was delivered: a success bills its one op, or one per completed
\* page and none for a failed one; a refusal or an error of lookup and discover bills
\* nothing; a distill that breaks off leaves at most the page in hand completed and unbilled.
\* The gate and the bill are awaits apart, so requests may overrun the grant together, but
\* each by the one unit it had in hand (check_ops_quota per page in distill_flow.run).
ChargedAsAnswered ==
    /\ opsUsed <= OpsCap + Cardinality(Requests) - 1
    /\ \A r \in Requests :
           /\ ask[r].kind \in {"lookup", "discover"} =>
                 /\ ask[r].reply = 200 => paid[r] = {"op"}
                 /\ ask[r].reply \notin {200, 504} => paid[r] = {}
           /\ ask[r].kind \in Distill =>
                 /\ paid[r] = ask[r].done
                 /\ Cardinality(CompletedRows(r) \ paid[r]) <= 1
                 /\ ask[r].reply = 200 => CompletedRows(r) \subseteq paid[r]
=============================================================================
