------------------------ MODULE PerceiveBatchProofs ------------------------
(***************************************************************************)
(* Machine-checked facts about PerceiveBatch, for every value of its       *)
(* constants.                                                              *)
(***************************************************************************)
EXTENDS PerceiveBatch, TLAPS, FiniteSetTheorems, SequenceTheorems

-----------------------------------------------------------------------------
(* The inductive invariant *)

Finalised == Terminal \ {"canceled"}
Open == Active \cup {"canceled"}
RunSteps == {"screen", "render", "upload", "bill", "register", "returned", "raised"}

BatchRow == [status : {"absent"} \cup Active \cup Terminal, completed : Nat, failed : Nat,
             zip : BOOLEAN, redacted : BOOLEAN]
OpRow == [status : {"absent"} \cup Active \cup Settled, created : Nat, content : Nat,
          print : BOOLEAN, hit : BOOLEAN, zip : BOOLEAN]

\* every variable has its type
TypeOK ==
    /\ batch \in [Batches -> BatchRow] /\ op \in [Ops -> OpRow]
    /\ billed \subseteq Ops /\ expiring \subseteq Ops
    /\ queue \in Seq(Batches) /\ live \subseteq Batches
    /\ cur \in Batches \cup {None}
    /\ pc \in {"idle", "load", "claim", "next", "run", "zip", "finish"}
    /\ todo \in Seq(Ops) /\ tally \in [completed : Nat, failed : Nat] /\ zipped \in BOOLEAN
    /\ flow \in [Ops -> RunSteps \cup {"idle", "gone"}]
    /\ request \in [Batches -> {"idle", "accepted", "enveloped", "created", "waiting", "answered"}]
    /\ done \subseteq Batches
    /\ now \in Nat /\ up \in BOOLEAN /\ crashes \in Nat /\ faults \in Nat

\* one flow of an operation is under way: its own request's, or the worker's
FlowsOwned ==
    /\ \A o \in Ops : flow[o] \in RunSteps =>
          up /\ (o \in Singles \/ (pc = "run" /\ todo # <<>> /\ Head(todo) = o))
    /\ pc = "run" => todo # <<>> /\ flow[Head(todo)] \in RunSteps

\* what the row and the ledger are at each await of a flow
FlowsStand ==
    \A o \in Ops :
        /\ flow[o] = "screen" => op[o].status \in {"absent"} \cup Active
        /\ flow[o] \in {"render", "upload"} => op[o].status = "processing"
        /\ flow[o] = "bill" => op[o].status = "completed" /\ o \notin billed
        /\ flow[o] = "register" => ~op[o].hit
        /\ flow[o] \in {"register", "returned"} => op[o].status = "completed" /\ o \in billed
        /\ flow[o] = "raised" => op[o].status # "completed"
        /\ o \in billed => op[o].status = "completed"
        /\ o \in Singles /\ flow[o] \in {"idle", "screen"} => op[o].status = "absent"
        /\ o \in Singles /\ flow[o] \in {"raised", "returned"} /\ faults = 0 =>
              op[o].status \notin Active

\* what is billed and registered while nothing went wrong
Charged ==
    crashes = 0 /\ faults = 0 =>
        \A o \in Ops : op[o].status = "completed" /\ flow[o] \notin {"bill", "register"} =>
                           o \in billed /\ (~op[o].hit => o \in expiring)

\* how far a request has brought its batch
RequestsStand ==
    \A b \in Batches :
        /\ request[b] \in {"idle", "accepted"} => batch[b].status = "absent"
        /\ batch[b].status = "absent" => RowsIn(b, Active \cup Settled) = {}
        /\ request[b] = "enveloped" => RowsIn(b, Active \cup Settled) = {}
        /\ request[b] \in {"enveloped", "created"} => batch[b].status \in Open
        /\ request[b] = "created" \/ b \in live => RowsIn(b, {"queued"}) = OpsOf(b)
        /\ ~up => request[b] \in {"idle", "answered"}

\* a batch is in the queue once, or with the worker, or neither
QueueStands ==
    /\ IsInjective(queue) /\ cur \notin ToSet(queue) /\ live \subseteq ToSet(queue)
    /\ \A b \in Batches : b \in ToSet(queue) \/ b = cur =>
          batch[b].status \in Open /\ request[b] \in {"waiting", "answered"}
    /\ ~up => queue = <<>> /\ pc = "idle"

\* what the worker still has to do
WorkerStands ==
    /\ pc = "idle" <=> cur = None
    /\ pc \in {"idle", "load", "zip", "finish"} => todo = <<>>
    /\ IsInjective(todo) /\ (cur # None => ToSet(todo) \subseteq OpsOf(cur))
    /\ \A o \in ToSet(todo) : ~(pc = "run" /\ o = Head(todo)) => op[o].status \in Active

\* the counts and the archive in hand are those of the rows
TallyStands ==
    /\ pc \in {"zip", "finish"} =>
          /\ tally.completed = Cardinality(RowsIn(cur, {"completed"}))
          /\ tally.failed = Cardinality(RowsIn(cur, {"failed"}))
    /\ zipped => pc = "finish" /\ \A o \in RowsIn(cur, {"completed"}) : op[o].zip

\* a finalised batch and its rows
FinalStands ==
    \A b \in Batches : batch[b].status \in Finalised =>
        /\ batch[b].completed = Cardinality(RowsIn(b, {"completed"}))
        /\ batch[b].failed = Cardinality(RowsIn(b, {"failed"}))
        /\ batch[b].zip => \A o \in RowsIn(b, {"completed"}) : op[o].zip
        /\ batch[b].status = Verdict([completed |-> batch[b].completed,
                                      failed |-> batch[b].failed])
        /\ faults = 0 => RowsIn(b, Active) = {}

\* who has the pending rows, and who will wake the waiting request
NothingLost ==
    faults = 0 =>
        /\ pc \in {"claim", "next", "run", "zip", "finish"} =>
              RowsIn(cur, Active) \subseteq ToSet(todo)
        /\ \A b \in Batches :
              /\ up /\ RowsIn(b, Active) # {} =>
                    \/ b \in ToSet(queue) \/ b = cur \/ request[b] \in {"enveloped", "created"}
                    \/ batch[b].status = "canceled"
              /\ request[b] = "waiting" => b \in live \/ b = cur \/ b \in done
        /\ up => \A o \in Singles : op[o].status \in Active =>
                                   flow[o] \in {"render", "upload", "bill", "gone"}

IInv == /\ TypeOK /\ FlowsOwned /\ FlowsStand /\ Charged /\ RequestsStand /\ QueueStands
        /\ WorkerStands /\ TallyStands /\ FinalStands /\ NothingLost

-----------------------------------------------------------------------------
(* Sequences without repetition, and the operations of a batch *)

\* The empty sequence has no element and repeats none.
LEMMA EmptySequence == ToSet(<<>>) = {} /\ IsInjective(<<>>)
BY DEF ToSet, IsInjective

\* Taking the head of a sequence without repetition removes it from the rest.
LEMMA TailSet ==
    ASSUME NEW S, NEW s \in Seq(S), s # <<>>, IsInjective(s)
    PROVE  /\ Head(s) \in S /\ Head(s) \in ToSet(s) /\ Tail(s) \in Seq(S)
           /\ ToSet(Tail(s)) = ToSet(s) \ {Head(s)}
           /\ IsInjective(Tail(s))
<1>1. /\ Len(s) \in Nat \ {0} /\ DOMAIN s = 1..Len(s) /\ Head(s) = s[1]
  BY EmptySeq, LenProperties
<1>2. /\ Tail(s) \in Seq(S) /\ Head(s) \in S /\ DOMAIN Tail(s) = 1..(Len(s) - 1)
      /\ \A i \in 1..(Len(s) - 1) : Tail(s)[i] = s[i + 1]
  BY <1>1, HeadTailProperties, LenProperties
<1>3. \A i \in 1..Len(s) : i # 1 => i - 1 \in 1..(Len(s) - 1) /\ Tail(s)[i - 1] = s[i]
  BY <1>1, <1>2
<1>4. ToSet(Tail(s)) \subseteq ToSet(s) \ {Head(s)}
  BY <1>1, <1>2 DEF ToSet, IsInjective
<1>5. ASSUME NEW x \in ToSet(s), x # Head(s) PROVE x \in ToSet(Tail(s))
  <2>1. PICK i \in 1..Len(s) : s[i] = x
    BY <1>1 DEF ToSet
  <2>2. i - 1 \in 1..(Len(s) - 1) /\ Tail(s)[i - 1] = x
    BY <1>1, <1>3, <1>5, <2>1
  <2> QED
    BY <1>2, <2>2 DEF ToSet
<1>6. IsInjective(Tail(s))
  BY <1>1, <1>2 DEF IsInjective
<1>7. Head(s) \in ToSet(s)
  BY <1>1 DEF ToSet
<1> QED
  BY <1>2, <1>4, <1>5, <1>6, <1>7

\* Appending adds one element.
LEMMA AppendSet ==
    ASSUME NEW S, NEW s \in Seq(S), NEW x \in S
    PROVE  /\ Append(s, x) \in Seq(S)
           /\ ToSet(Append(s, x)) = ToSet(s) \cup {x}
           /\ IsInjective(s) /\ x \notin ToSet(s) => IsInjective(Append(s, x))
<1>1. Len(s) \in Nat /\ DOMAIN s = 1..Len(s)
  BY LenProperties
<1>2. /\ Append(s, x) \in Seq(S) /\ DOMAIN Append(s, x) = 1..(Len(s) + 1)
      /\ \A i \in 1..(Len(s) + 1) : Append(s, x)[i] = IF i = Len(s) + 1 THEN x ELSE s[i]
  BY <1>1
<1> QED
  BY <1>1, <1>2 DEF ToSet, IsInjective

\* A sequence of all elements of a finite set has them all, once each.
LEMMA SetSequence ==
    ASSUME NEW S, IsFiniteSet(S), NEW q \in SetToSeqs(S)
    PROVE  q \in Seq(S) /\ ToSet(q) = S /\ IsInjective(q)
<1> DEFINE D == 1..Cardinality(S)
<1>1. Cardinality(S) \in Nat
  BY FS_CardinalityType
<1>2. q \in [D -> S] /\ IsInjective(q)
  BY DEF SetToSeqs, IsInjective
<1>3. q \in Injection(D, S)
  BY <1>2 DEF Injection
<1>4. Cardinality(D) = Cardinality(S)
  BY <1>1, FS_Interval
<1>5. q \in Surjection(D, S)
  BY <1>3, <1>4, FS_Injection
<1> QED
  BY <1>1, <1>2, <1>5 DEF ToSet, Surjection

\* An operation belongs to one batch, or to none and is a request of its own.
LEMMA OwnOps ==
    /\ \A b \in Batches : OpsOf(b) \subseteq Ops /\ OpsOf(b) \cap Singles = {}
    /\ \A b, d \in Batches, o \in Ops : o \in OpsOf(b) /\ o \in OpsOf(d) => b = d
    /\ \A o \in Ops : o \in Singles \/ \E b \in Batches : o \in OpsOf(b)
BY BatchAssumption DEF Ops

\* The rows of a batch can be counted.
LEMMA RowsFinite ==
    ASSUME NEW b \in Batches, NEW S
    PROVE  /\ IsFiniteSet(OpsOf(b)) /\ IsFiniteSet(RowsIn(b, S))
           /\ Cardinality(RowsIn(b, S)) \in Nat
<1>1. BatchOps[b] \in Seq(OpsOf(b)) /\ OpsOf(b) = ToSet(BatchOps[b])
  BY BatchAssumption DEF OpsOf
<1>2. DOMAIN BatchOps[b] = 1..Len(BatchOps[b]) /\ Len(BatchOps[b]) \in Nat
  BY <1>1, LenProperties
<1>3. BatchOps[b] \in Surjection(1..Len(BatchOps[b]), OpsOf(b))
  BY <1>1, <1>2, LenProperties DEF ToSet, Surjection
<1>4. IsFiniteSet(OpsOf(b))
  BY <1>2, <1>3, FS_Interval, FS_Surjection
<1>5. RowsIn(b, S) \subseteq OpsOf(b)
  BY DEF RowsIn
<1> QED
  BY <1>4, <1>5, FS_Subset, FS_CardinalityType

-----------------------------------------------------------------------------
(* Types *)

\* The operations on rows keep their types.
LEMMA RowEdits ==
    /\ NoOp \in OpRow /\ NoBatch \in BatchRow
    /\ \A r \in OpRow :
          /\ \A s \in Active \cup Settled : [r EXCEPT !.status = s] \in OpRow
          /\ \A n \in Nat : [r EXCEPT !.content = n] \in OpRow
          /\ \A n \in Nat : [NoOp EXCEPT !.status = "queued", !.created = n] \in OpRow
          /\ \A n \in Nat : [NoOp EXCEPT !.status = "processing", !.created = n] \in OpRow
          /\ \A n \in Nat, h \in BOOLEAN : CompletedRow(r, h, n) \in OpRow
          /\ [r EXCEPT !.status = "failed", !.content = 0] \in OpRow
          /\ [r EXCEPT !.zip = TRUE] \in OpRow
          /\ now \in Nat => Claimed(r) \in OpRow
          /\ r.content \in Nat /\ r.created \in Nat /\ r.hit \in BOOLEAN /\ r.zip \in BOOLEAN
    /\ \A r \in BatchRow :
          /\ \A s \in Active \cup Terminal : [r EXCEPT !.status = s] \in BatchRow
          /\ \A x \in BOOLEAN : [r EXCEPT !.status = "queued", !.redacted = x] \in BatchRow
          /\ \A s \in Terminal, c \in Nat, f \in Nat, z \in BOOLEAN :
                [r EXCEPT !.status = s, !.completed = c, !.failed = f, !.zip = z] \in BatchRow
<1>1. NoOp \in OpRow /\ NoBatch \in BatchRow
  BY DEF NoOp, NoBatch, OpRow, BatchRow
<1>2. ASSUME NEW n \in Nat
      PROVE  /\ [NoOp EXCEPT !.status = "queued", !.created = n] \in OpRow
             /\ [NoOp EXCEPT !.status = "processing", !.created = n] \in OpRow
  BY DEF NoOp, OpRow, Active
<1>3. ASSUME NEW r \in OpRow
      PROVE  /\ \A s \in Active \cup Settled : [r EXCEPT !.status = s] \in OpRow
             /\ \A n \in Nat : [r EXCEPT !.content = n] \in OpRow
             /\ \A n \in Nat, h \in BOOLEAN : CompletedRow(r, h, n) \in OpRow
             /\ [r EXCEPT !.status = "failed", !.content = 0] \in OpRow
             /\ [r EXCEPT !.zip = TRUE] \in OpRow
             /\ now \in Nat => Claimed(r) \in OpRow
             /\ r.content \in Nat /\ r.created \in Nat /\ r.hit \in BOOLEAN /\ r.zip \in BOOLEAN
  <2>1. \A s \in Active \cup Settled : [r EXCEPT !.status = s] \in OpRow
    BY <1>3 DEF OpRow
  <2>2. \A n \in Nat : [r EXCEPT !.content = n] \in OpRow
    BY <1>3 DEF OpRow
  <2>3. \A n \in Nat, h \in BOOLEAN : CompletedRow(r, h, n) \in OpRow
    BY <1>3 DEF OpRow, CompletedRow, Settled
  <2>4. [r EXCEPT !.status = "failed", !.content = 0] \in OpRow
    BY <1>3 DEF OpRow, Settled
  <2>5. [r EXCEPT !.zip = TRUE] \in OpRow
    BY <1>3 DEF OpRow
  <2>6. ASSUME now \in Nat PROVE Claimed(r) \in OpRow
    <3>1. CASE r.status = "absent"
      <4>1. Claimed(r) = [NoOp EXCEPT !.status = "processing", !.created = now]
        BY <3>1 DEF Claimed, Active
      <4> QED
        BY <1>2, <2>6, <4>1
    <3>2. CASE r.status \in Active
      BY <2>1, <3>2 DEF Claimed, Active
    <3>3. CASE r.status \notin {"absent"} \cup Active
      BY <3>3, <1>3 DEF Claimed
    <3> QED
      BY <3>1, <3>2, <3>3
  <2>7. r.content \in Nat /\ r.created \in Nat /\ r.hit \in BOOLEAN /\ r.zip \in BOOLEAN
    BY <1>3 DEF OpRow
  <2> QED
    BY <2>1, <2>2, <2>3, <2>4, <2>5, <2>6, <2>7
<1>4. ASSUME NEW r \in BatchRow
      PROVE  /\ \A s \in Active \cup Terminal : [r EXCEPT !.status = s] \in BatchRow
             /\ \A x \in BOOLEAN : [r EXCEPT !.status = "queued", !.redacted = x] \in BatchRow
             /\ \A s \in Terminal, c \in Nat, f \in Nat, z \in BOOLEAN :
                [r EXCEPT !.status = s, !.completed = c, !.failed = f, !.zip = z] \in BatchRow
  BY <1>4 DEF BatchRow, Active
<1> QED
  BY <1>1, <1>2, <1>3, <1>4

\* A failed row is a row, and a failed store call is counted.
LEMMA FailTypes ==
    ASSUME TypeOK, NEW o \in Ops, FailOperation(o)
    PROVE  op' \in [Ops -> OpRow] /\ faults' \in Nat
<1>1. op \in [Ops -> OpRow] /\ faults \in Nat
  BY DEF TypeOK
<1>2. CASE op' = op /\ Fault
  BY <1>1, <1>2 DEF Fault
<1>3. CASE /\ op' = [op EXCEPT ![o] = IF @.status = "absent" THEN @
                                      ELSE [@ EXCEPT !.status = "failed", !.content = 0]]
           /\ NoFault
  <2>1. [op[o] EXCEPT !.status = "failed", !.content = 0] \in OpRow
    BY <1>1, RowEdits
  <2> QED
    BY <1>1, <1>3, <2>1 DEF NoFault
<1> QED
  BY <1>2, <1>3 DEF FailOperation

\* The initial state has the types.
LEMMA TypeInit == Init => TypeOK
<1> SUFFICES ASSUME Init PROVE TypeOK
  OBVIOUS
<1>1. batch \in [Batches -> BatchRow] /\ op \in [Ops -> OpRow]
  BY RowEdits DEF Init
<1>2. <<>> \in Seq(Batches) /\ <<>> \in Seq(Ops)
  BY EmptySeq
<1> QED
  BY <1>1, <1>2 DEF Init, TypeOK, NoTally

\* A request or a cancel keeps the types.
LEMMA TypeRequests ==
    ASSUME TypeOK, NEW b \in Batches,
           \/ AcceptBatch(b) \/ CreateBatch(b) \/ CreateQueuedOperations(b)
           \/ Submit(b) \/ InlineReturns(b) \/ CancelBatch(b)
    PROVE  TypeOK'
<1> USE DEF TypeOK
<1>1. CASE AcceptBatch(b) \/ InlineReturns(b)
  BY <1>1 DEF AcceptBatch, InlineReturns, rowVars, workVars, envVars
<1>2. CASE CreateBatch(b)
  <2>1. PICK secrets \in BOOLEAN :
          batch' = [batch EXCEPT ![b] = [@ EXCEPT !.status = "queued", !.redacted = secrets]]
    BY <1>2 DEF CreateBatch
  <2>2. [batch[b] EXCEPT !.status = "queued", !.redacted = secrets] \in BatchRow
    BY RowEdits
  <2>3. batch' \in [Batches -> BatchRow]
    BY <2>1, <2>2
  <2> QED
    BY <1>2, <2>3 DEF CreateBatch, workVars, envVars
<1>3. CASE CreateQueuedOperations(b)
  <2>1. op' \in [Ops -> OpRow]
    BY <1>3, RowEdits DEF CreateQueuedOperations
  <2> QED
    BY <1>3, <2>1 DEF CreateQueuedOperations, workVars, Fault, NoFault
<1>4. CASE Submit(b)
  <2>1. queue' \in Seq(Batches)
    BY <1>4, AppendSet DEF Submit
  <2> QED
    BY <1>4, <2>1 DEF Submit, rowVars, envVars
<1>5. CASE CancelBatch(b)
  <2>1. [batch[b] EXCEPT !.status = "canceled"] \in BatchRow
    BY RowEdits DEF Terminal
  <2>2. batch' \in [Batches -> BatchRow]
    BY <1>5, <2>1 DEF CancelBatch
  <2> QED
    BY <1>5, <2>2 DEF CancelBatch, workVars, envVars
<1> QED
  BY <1>1, <1>2, <1>3, <1>4, <1>5

\* A step of a flow keeps the types.
LEMMA TypeFlows ==
    ASSUME TypeOK, NEW o \in Ops,
           FlowStep(o) \/ BillFails(o) \/ AcceptSingle(o) \/ TimeOut(o) \/ AnswerSingle(o)
    PROVE  TypeOK'
<1> USE DEF TypeOK
<1>1. CASE AcceptSingle(o) \/ TimeOut(o) \/ AnswerSingle(o) \/ Refused(o)
  BY <1>1 DEF AcceptSingle, TimeOut, AnswerSingle, Refused, RunSteps, rowVars, workVars, envVars
<1>2. CASE ServeFromCache(o)
  <2>1. PICK c \in Ops : op' = [op EXCEPT ![o] = CompletedRow(Claimed(@), TRUE, op[c].content)]
    BY <1>2 DEF ServeFromCache, Newest, Candidates
  <2>2. CompletedRow(Claimed(op[o]), TRUE, op[c].content) \in OpRow
    BY RowEdits
  <2>3. op' \in [Ops -> OpRow]
    BY <2>1, <2>2
  <2> QED
    BY <1>2, <2>3 DEF ServeFromCache, RunSteps, workVars, envVars
<1>3. CASE CreateOperation(o)
  <2>1. op' \in [Ops -> OpRow]
    BY <1>3, RowEdits DEF CreateOperation
  <2> QED
    BY <1>3, <2>1 DEF CreateOperation, RunSteps, workVars, envVars
<1>4. CASE CompleteOperation(o)
  <2>1. op' \in [Ops -> OpRow]
    BY <1>4, RowEdits DEF CompleteOperation
  <2> QED
    BY <1>4, <2>1 DEF CompleteOperation, RunSteps, workVars, envVars
<1>5. CASE Render(o)
  <2>1. [op[o] EXCEPT !.content = now] \in OpRow
    BY RowEdits
  <2>2. op' \in [Ops -> OpRow]
    BY <1>5, <2>1 DEF Render
  <2> QED
    BY <1>5, <2>2 DEF Render, RunSteps, workVars, envVars
<1>6. CASE BillOperation(o) \/ RegisterArtifacts(o)
  <2>1. flow' \in [Ops -> RunSteps \cup {"idle", "gone"}]
    BY <1>6 DEF BillOperation, RegisterArtifacts, RunSteps
  <2>2. billed' \subseteq Ops /\ expiring' \subseteq Ops /\ faults' \in Nat
    BY <1>6 DEF BillOperation, RegisterArtifacts, envVars, Fault, NoFault
  <2> QED
    BY <1>6, <2>1, <2>2 DEF BillOperation, RegisterArtifacts, workVars, envVars
<1>7. CASE RenderFails(o)
  <2>1. op' \in [Ops -> OpRow] /\ faults' \in Nat
    BY <1>7, FailTypes DEF RenderFails
  <2>2. flow' \in [Ops -> RunSteps \cup {"idle", "gone"}]
    BY <1>7 DEF RenderFails, RunSteps
  <2> QED
    BY <1>7, <2>1, <2>2 DEF RenderFails, workVars
<1>8. CASE BillFails(o)
  <2>1. [op[o] EXCEPT !.status = "failed"] \in OpRow
    BY RowEdits DEF Settled
  <2>2. op' \in [Ops -> OpRow]
    BY <1>8, <2>1 DEF BillFails
  <2> QED
    BY <1>8, <2>2 DEF BillFails, RunSteps, workVars, Fault
<1> QED
  BY <1>1, <1>2, <1>3, <1>4, <1>5, <1>6, <1>7, <1>8 DEF FlowStep

\* A step of the worker keeps the types.
LEMMA TypeWorker ==
    ASSUME TypeOK, WorkerStep \/ ZipFails \/ BatchFaults, pc # "idle" => cur \in Batches,
           pc = "run" => todo # <<>>, IsInjective(todo)
    PROVE  TypeOK'
<1> USE DEF TypeOK
<1>1. CASE TakeBatch
  <2>1. Head(queue) \in Batches /\ Tail(queue) \in Seq(Batches)
    BY <1>1, HeadTailProperties DEF TakeBatch
  <2>2. BatchOps[Head(queue)] \in Seq(Ops) /\ <<>> \in Seq(Ops)
    BY <2>1, OwnOps, BatchAssumption, EmptySeq
  <2> QED
    BY <1>1, <2>1, <2>2 DEF TakeBatch, rowVars, envVars
<1>2. CASE LoadJob
  <2>1. cur \in Batches
    BY <1>2 DEF LoadJob
  <2>0. RowsIn(cur, Active) \subseteq Ops /\ IsFiniteSet(RowsIn(cur, Active))
    BY <2>1, OwnOps, RowsFinite DEF RowsIn
  <2>2. todo' \in Seq(Ops)
    <3>1. \A s \in SetToSeqs(RowsIn(cur, Active)) : s \in Seq(RowsIn(cur, Active))
      BY <2>0, SetSequence
    <3>2. <<>> \in Seq(Ops)
      BY EmptySeq
    <3>3. CASE batch[cur].redacted
      BY <1>2, <3>2, <3>3 DEF LoadJob
    <3>4. CASE ~batch[cur].redacted
      <4>1. todo' \in SetToSeqs(RowsIn(cur, Active))
        BY <1>2, <3>4 DEF LoadJob, Resumable, InOrder
      <4>2. \A s \in Seq(RowsIn(cur, Active)) : s \in Seq(Ops)
        BY <2>0
      <4> QED
        BY <3>1, <4>1, <4>2
    <3> QED
      BY <3>3, <3>4
  <2>3. op' \in [Ops -> OpRow]
    <3>1. \A o \in Ops : [op[o] EXCEPT !.status = "failed"] \in OpRow
      BY RowEdits DEF Settled
    <3>2. CASE batch[cur].redacted
      BY <1>2, <3>1, <3>2 DEF LoadJob
    <3>3. CASE ~batch[cur].redacted
      BY <1>2, <3>3 DEF LoadJob
    <3> QED
      BY <3>2, <3>3
  <2> QED
    BY <1>2, <2>2, <2>3 DEF LoadJob, envVars
<1>3. CASE ClaimBatch
  <2>1. cur \in Batches /\ [batch[cur] EXCEPT !.status = "processing"] \in BatchRow
    BY <1>3, RowEdits DEF ClaimBatch, Active
  <2>2. batch' \in [Batches -> BatchRow]
    <3>1. CASE batch[cur].status \in Active
      <4>1. batch' = [batch EXCEPT ![cur] = [@ EXCEPT !.status = "processing"]]
        BY <1>3, <3>1 DEF ClaimBatch
      <4> QED
        BY <2>1, <4>1
    <3>2. CASE batch[cur].status \notin Active
      <4>1. batch' = [batch EXCEPT ![cur] = [@ EXCEPT !.status = batch[cur].status]]
        BY <1>3, <3>2 DEF ClaimBatch
      <4>2. [batch[cur] EXCEPT !.status = batch[cur].status] = batch[cur]
        BY <2>1 DEF BatchRow
      <4> QED
        BY <2>1, <4>1, <4>2
    <3> QED
      BY <3>1, <3>2
  <2> QED
    BY <1>3, <2>2 DEF ClaimBatch, envVars
<1>4. CASE NextOperation
  BY <1>4 DEF NextOperation, rowVars, envVars, RunSteps
<1>5. CASE StopForCancel
  <2>1. cur \in Batches /\ <<>> \in Seq(Ops)
    BY <1>5, EmptySeq DEF StopForCancel
  <2> QED
    BY <1>5, <2>1 DEF StopForCancel, rowVars, envVars
<1>6. CASE OperationReturned \/ OperationRaised
  <2>1. Head(todo) \in Ops /\ todo' \in Seq(Ops)
    <3>1. todo \in Seq(Ops) /\ todo # <<>> /\ todo' = Tail(todo)
      BY <1>6 DEF OperationReturned, OperationRaised
    <3> QED
      BY <3>1, TailSet
  <2>2. op' \in [Ops -> OpRow] /\ faults' \in Nat
    BY <1>6, <2>1, FailTypes DEF OperationReturned, OperationRaised, rowVars, envVars
  <2> QED
    BY <1>6, <2>1, <2>2 DEF OperationReturned, OperationRaised, rowVars, envVars
<1>7. CASE CountRows
  <2>1. tally' \in [completed : Nat, failed : Nat]
    BY <1>7, RowsFinite DEF CountRows
  <2> QED
    BY <1>7, <2>1 DEF CountRows, rowVars, envVars
<1>8. CASE AttachBatchZip
  <2>1. op' \in [Ops -> OpRow]
    BY <1>8, RowEdits DEF AttachBatchZip
  <2> QED
    BY <1>8, <2>1 DEF AttachBatchZip, envVars
<1>9. CASE Finalize
  <2>1. cur \in Batches /\ tally.completed \in Nat /\ tally.failed \in Nat
    BY <1>9 DEF Finalize
  <2>2. Verdict(tally) \in Terminal
    BY DEF Verdict, Terminal
  <2>3. batch' \in [Batches -> BatchRow]
    BY <1>9, <2>1, <2>2, RowEdits DEF Finalize
  <2> QED
    BY <1>9, <2>1, <2>3 DEF Finalize, NoTally, envVars
<1>10. CASE ZipFails
  BY <1>10 DEF ZipFails, Fault, rowVars
<1>11. CASE BatchFaults
  <2>1. cur \in Batches /\ <<>> \in Seq(Ops)
    BY <1>11, EmptySeq DEF BatchFaults
  <2>2. /\ done' \subseteq Batches /\ faults' \in Nat /\ tally' \in [completed : Nat, failed : Nat]
        /\ cur' \in Batches \cup {None}
    BY <1>11, <2>1 DEF BatchFaults, Fault, NoTally
  <2> QED
    BY <1>11, <2>1, <2>2 DEF BatchFaults, rowVars
<1> QED
  BY <1>1, <1>2, <1>3, <1>4, <1>5, <1>6, <1>7, <1>8, <1>9, <1>10, <1>11 DEF WorkerStep

\* Time, a crash and a restart keep the types.
LEMMA TypeProcess ==
    ASSUME TypeOK, Tick \/ Crash \/ Restart
    PROVE  TypeOK'
<1> USE DEF TypeOK
<1>1. CASE Tick
  BY <1>1 DEF Tick, rowVars, workVars
<1>2. CASE Crash
  <2>1. <<>> \in Seq(Ops) /\ <<>> \in Seq(Batches)
    BY EmptySeq
  <2>2. /\ flow' \in [Ops -> RunSteps \cup {"idle", "gone"}]
        /\ request' \in [Batches -> {"idle", "accepted", "enveloped", "created", "waiting",
                                     "answered"}]
    BY <1>2 DEF Crash
  <2>3. tally' \in [completed : Nat, failed : Nat]
    BY <1>2 DEF Crash, NoTally
  <2>4. /\ UNCHANGED <<batch, op, billed, expiring, now, faults>>
        /\ queue' = <<>> /\ live' = {} /\ cur' = None /\ pc' = "idle" /\ todo' = <<>>
        /\ zipped' = FALSE /\ done' = {} /\ up' = FALSE /\ crashes' = crashes + 1
    BY <1>2 DEF Crash, rowVars
  <2>5. /\ queue' \in Seq(Batches) /\ todo' \in Seq(Ops) /\ crashes' \in Nat
        /\ live' \subseteq Batches /\ done' \subseteq Batches
    BY <2>1, <2>4
  <2>6. /\ batch' \in [Batches -> BatchRow] /\ op' \in [Ops -> OpRow]
        /\ billed' \subseteq Ops /\ expiring' \subseteq Ops /\ now' \in Nat /\ faults' \in Nat
    BY <2>4
  <2> QED
    BY <2>2, <2>3, <2>4, <2>5, <2>6
<1>3. CASE Restart
  <2>1. op' \in [Ops -> OpRow]
    BY <1>3, RowEdits DEF Restart, Settled
  <2>2. IsFiniteSet({b \in Batches : batch[b].status \in Active})
    BY BatchAssumption, FS_Subset
  <2>3. queue' \in Seq(Batches)
    BY <1>3, <2>2, SetSequence DEF Restart
  <2> QED
    BY <1>3, <2>1, <2>3 DEF Restart
<1> QED
  BY <1>1, <1>2, <1>3

\* The type invariant is kept by every step.
LEMMA TypeStep ==
    ASSUME IInv, [Next]_vars
    PROVE  TypeOK'
<1>1. /\ TypeOK
      /\ pc # "idle" => cur \in Batches
      /\ pc = "run" => todo # <<>>
      /\ IsInjective(todo)
  BY DEF IInv, TypeOK, FlowsOwned, WorkerStands
<1>2. ASSUME NEW b \in Batches,
             \/ AcceptBatch(b) \/ CreateBatch(b) \/ CreateQueuedOperations(b)
             \/ Submit(b) \/ InlineReturns(b) \/ CancelBatch(b)
      PROVE  TypeOK'
  BY <1>1, <1>2, TypeRequests
<1>3. ASSUME NEW o \in Ops,
             FlowStep(o) \/ BillFails(o) \/ AcceptSingle(o) \/ TimeOut(o) \/ AnswerSingle(o)
      PROVE  TypeOK'
  BY <1>1, <1>3, TypeFlows
<1>4. CASE WorkerStep \/ ZipFails \/ BatchFaults
  BY <1>1, <1>4, TypeWorker
<1>5. CASE Tick \/ Crash \/ Restart
  BY <1>1, <1>5, TypeProcess
<1>6. CASE UNCHANGED vars
  <2> USE DEF TypeOK
  <2>1. TypeOK
    BY <1>1
  <2> QED
    BY <1>6, <2>1 DEF vars, rowVars, workVars, envVars
<1>7. \A o \in Singles : o \in Ops
  BY DEF Ops
<1> QED
  BY <1>2, <1>3, <1>4, <1>5, <1>6, <1>7 DEF Next

-----------------------------------------------------------------------------
(* Whose operation, and what a step of a flow leaves alone *)

\* The operation the worker is at belongs to its batch.
LEMMA HeadOwned ==
    ASSUME IInv, todo # <<>>
    PROVE  /\ cur \in Batches /\ Head(todo) \in Ops /\ Head(todo) \in OpsOf(cur)
           /\ Head(todo) \notin Singles /\ Head(todo) \in ToSet(todo)
           /\ Tail(todo) \in Seq(Ops) /\ IsInjective(Tail(todo))
           /\ ToSet(Tail(todo)) = ToSet(todo) \ {Head(todo)}
           /\ pc \in {"claim", "next", "run"}
<1>1. todo \in Seq(Ops) /\ IsInjective(todo) /\ cur \in Batches \cup {None}
  BY DEF IInv, TypeOK, WorkerStands
<1>2. pc \in {"claim", "next", "run"} /\ cur # None
  BY DEF IInv, TypeOK, WorkerStands
<1>3. /\ Head(todo) \in Ops /\ Head(todo) \in ToSet(todo)
      /\ Tail(todo) \in Seq(Ops) /\ IsInjective(Tail(todo))
      /\ ToSet(Tail(todo)) = ToSet(todo) \ {Head(todo)}
  BY <1>1, TailSet
<1>4. ToSet(todo) \subseteq OpsOf(cur)
  BY <1>2 DEF IInv, WorkerStands
<1> QED
  BY <1>1, <1>2, <1>3, <1>4, OwnOps

\* A flow of an operation of a batch is the one the worker waits for.
LEMMA FlowOwner ==
    ASSUME IInv, NEW o \in Ops, flow[o] \in RunSteps
    PROVE  /\ up
           /\ o \in Singles \/ (pc = "run" /\ todo # <<>> /\ o = Head(todo) /\ o \in OpsOf(cur))
           /\ \A b \in Batches : o \in OpsOf(b) =>
                 b = cur /\ pc = "run" /\ todo # <<>> /\ o = Head(todo)
<1>1. up /\ (o \in Singles \/ (pc = "run" /\ todo # <<>> /\ o = Head(todo)))
  BY DEF IInv, FlowsOwned
<1> QED
  BY <1>1, HeadOwned, OwnOps

\* A step of a flow moves that flow and touches its own row and charges only.
LEMMA FlowEffect ==
    ASSUME IInv, NEW o \in Ops, FlowStep(o) \/ BillFails(o)
    PROVE  /\ UNCHANGED <<batch, queue, live, cur, pc, todo, tally, zipped, request, done,
                          now, up, crashes>>
           /\ flow[o] \in RunSteps /\ flow'[o] \in RunSteps
           /\ \A x \in Ops : x # o => flow'[x] = flow[x] /\ op'[x] = op[x]
           /\ billed' \in {billed, billed \cup {o}} /\ expiring' \in {expiring, expiring \cup {o}}
           /\ faults' \in {faults, faults + 1}
<1>1. flow \in [Ops -> RunSteps \cup {"idle", "gone"}] /\ op \in [Ops -> OpRow]
  BY DEF IInv, TypeOK
<1> USE DEF RunSteps, rowVars, workVars, envVars, NoFault, Fault
<1>2. CASE Refused(o) \/ CreateOperation(o) \/ Render(o) \/ CompleteOperation(o)
  BY <1>1, <1>2 DEF Refused, CreateOperation, Render, CompleteOperation
<1>3. CASE ServeFromCache(o)
  BY <1>1, <1>3 DEF ServeFromCache
<1>4. CASE BillOperation(o) \/ RegisterArtifacts(o)
  BY <1>1, <1>4 DEF BillOperation, RegisterArtifacts
<1>5. CASE RenderFails(o) \/ BillFails(o)
  BY <1>1, <1>5 DEF RenderFails, BillFails, FailOperation
<1> QED
  BY <1>2, <1>3, <1>4, <1>5 DEF FlowStep

\* The rows of the other batches stay.
LEMMA FlowRows ==
    ASSUME IInv, NEW o \in Ops, FlowStep(o) \/ BillFails(o)
    PROVE  /\ \A b \in Batches : b # cur \/ pc # "run" => \A x \in OpsOf(b) : op'[x] = op[x]
           /\ \A b \in Batches : b # cur \/ pc # "run" => \A S : RowsIn(b, S)' = RowsIn(b, S)
           /\ faults' = 0 => faults = 0
<1>1. \A b \in Batches : b # cur \/ pc # "run" => o \notin OpsOf(b)
  BY FlowEffect, FlowOwner
<1>2. ASSUME NEW b \in Batches, b # cur \/ pc # "run", NEW x \in OpsOf(b)
      PROVE  op'[x] = op[x]
  BY <1>1, <1>2, FlowEffect, OwnOps
<1>3. ASSUME NEW b \in Batches, b # cur \/ pc # "run", NEW S
      PROVE  RowsIn(b, S)' = RowsIn(b, S)
  BY <1>2, <1>3 DEF RowsIn
<1>4. faults' = 0 => faults = 0
  BY FlowEffect DEF IInv, TypeOK
<1> QED
  BY <1>2, <1>3, <1>4

\* What a step of a flow does to its own row, its charge and its retention entry.
FlowMove(o) ==
    LET Moves(from, to, status) == flow[o] = from /\ flow'[o] = to /\ op'[o].status = status
        Kept == op'[o].status = op[o].status /\ op'[o].hit = op[o].hit
        Uncharged == UNCHANGED <<billed, expiring>>
    IN  \/ Moves("screen", "raised", op[o].status) /\ Kept /\ Uncharged /\ NoFault
        \/ Moves("screen", "bill", "completed") /\ op'[o].hit /\ Uncharged /\ NoFault
        \/ Moves("screen", "render", "processing") /\ Uncharged /\ NoFault
        \/ Moves("render", "upload", "processing") /\ Uncharged /\ NoFault
        \/ Moves("upload", "bill", "completed") /\ ~op'[o].hit /\ Uncharged /\ NoFault
        \/ /\ flow[o] = "bill" /\ flow'[o] = IF op[o].hit THEN "returned" ELSE "register"
           /\ Kept /\ billed' = billed \cup {o} /\ expiring' = expiring /\ NoFault
        \/ /\ flow[o] = "register" /\ flow'[o] = "returned" /\ Kept /\ billed' = billed
           /\ \/ expiring' = expiring \cup {o} /\ NoFault
              \/ expiring' = expiring /\ faults' = faults + 1
        \/ /\ flow[o] \in {"render", "upload"} /\ flow'[o] = "raised" /\ Uncharged
           /\ \/ op'[o].status = "failed" /\ NoFault
              \/ Kept /\ faults' = faults + 1
        \/ Moves("bill", "raised", "failed") /\ Uncharged /\ faults' = faults + 1

\* Every step of a flow is one of these moves.
LEMMA FlowRow ==
    ASSUME IInv, NEW o \in Ops, FlowStep(o) \/ BillFails(o)
    PROVE  FlowMove(o)
<1>1. flow \in [Ops -> RunSteps \cup {"idle", "gone"}] /\ op \in [Ops -> OpRow] /\ now \in Nat
  BY DEF IInv, TypeOK
<1>2. /\ flow[o] = "screen" => op[o].status \in {"absent"} \cup Active
      /\ flow[o] \in {"render", "upload"} => op[o].status = "processing"
  BY DEF IInv, FlowsStand
<1>3. op[o] \in OpRow
  BY <1>1
<1> USE DEF FlowMove, NoFault, Fault
<1>4. CASE Refused(o)
  BY <1>1, <1>4 DEF Refused, rowVars, envVars
<1>5. CASE ServeFromCache(o)
  <2>1. PICK c \in Ops : op' = [op EXCEPT ![o] = CompletedRow(Claimed(@), TRUE, op[c].content)]
    BY <1>5 DEF ServeFromCache, Newest, Candidates
  <2>2. Claimed(op[o]) \in OpRow
    BY <1>1, <1>3, RowEdits
  <2>3. op'[o].status = "completed" /\ op'[o].hit
    BY <1>1, <2>1, <2>2 DEF CompletedRow, OpRow
  <2> QED
    BY <1>1, <1>5, <2>3 DEF ServeFromCache, envVars
<1>6. CASE CreateOperation(o)
  <2>1. op'[o] = Claimed(op[o]) /\ flow[o] = "screen"
    BY <1>1, <1>6 DEF CreateOperation
  <2>2. op'[o].status = "processing"
    <3>1. CASE op[o].status = "absent"
      <4>1. Claimed(op[o]) = [NoOp EXCEPT !.status = "processing", !.created = now]
        BY <3>1 DEF Claimed, Active
      <4> QED
        BY <2>1, <4>1 DEF NoOp
    <3>2. CASE op[o].status \in Active
      <4>1. Claimed(op[o]) = [op[o] EXCEPT !.status = "processing"]
        BY <3>2 DEF Claimed, Active
      <4> QED
        BY <2>1, <4>1, <1>3 DEF OpRow
    <3> QED
      BY <1>2, <2>1, <3>1, <3>2
  <2> QED
    BY <1>1, <1>6, <2>2 DEF CreateOperation, envVars
<1>7. CASE Render(o)
  <2>1. op'[o] = [op[o] EXCEPT !.content = now]
    BY <1>1, <1>7 DEF Render
  <2>2. op'[o].status = op[o].status
    BY <2>1, <1>3 DEF OpRow
  <2> QED
    BY <1>1, <1>2, <1>7, <2>2 DEF Render, envVars
<1>8. CASE CompleteOperation(o)
  <2>1. op'[o] = CompletedRow(op[o], FALSE, op[o].content)
    BY <1>1, <1>8 DEF CompleteOperation
  <2>2. op'[o].status = "completed" /\ ~op'[o].hit
    BY <2>1, <1>3 DEF OpRow, CompletedRow
  <2> QED
    BY <1>1, <1>8, <2>2 DEF CompleteOperation, envVars
<1>9. CASE BillOperation(o)
  BY <1>1, <1>9 DEF BillOperation, envVars
<1>10. CASE RegisterArtifacts(o)
  BY <1>1, <1>10 DEF RegisterArtifacts
<1>11. CASE RenderFails(o)
  <2>1. \/ op'[o] = [op[o] EXCEPT !.status = "failed", !.content = 0] /\ NoFault
        \/ op' = op /\ faults' = faults + 1
    BY <1>1, <1>2, <1>11 DEF RenderFails, FailOperation
  <2>2. \/ op'[o].status = "failed" /\ NoFault
        \/ op'[o] = op[o] /\ faults' = faults + 1
    BY <2>1, <1>3 DEF OpRow
  <2> QED
    BY <1>1, <1>11, <2>2 DEF RenderFails
<1>12. CASE BillFails(o)
  <2>1. op'[o] = [op[o] EXCEPT !.status = "failed"]
    BY <1>1, <1>12 DEF BillFails
  <2>2. op'[o].status = "failed"
    BY <2>1, <1>3 DEF OpRow
  <2> QED
    BY <1>1, <1>12, <2>2 DEF BillFails
<1> QED
  BY <1>4, <1>5, <1>6, <1>7, <1>8, <1>9, <1>10, <1>11, <1>12 DEF FlowStep

\* fail_operation fails a row that is there, or nothing changes and a fault is counted.
LEMMA FailEffect ==
    ASSUME TypeOK, NEW o \in Ops, FailOperation(o)
    PROVE  /\ \A x \in Ops : x # o => op'[x] = op[x]
           /\ \/ /\ faults' = faults
                 /\ op'[o].status = IF op[o].status = "absent" THEN "absent" ELSE "failed"
              \/ op' = op /\ faults' = faults + 1
<1>1. op \in [Ops -> OpRow] /\ op[o] \in OpRow
  BY DEF TypeOK
<1>2. CASE op' = op /\ Fault
  BY <1>2 DEF Fault
<1>3. CASE /\ op' = [op EXCEPT ![o] = IF @.status = "absent" THEN @
                                      ELSE [@ EXCEPT !.status = "failed", !.content = 0]]
           /\ NoFault
  <2>1. op'[o] = IF op[o].status = "absent" THEN op[o]
                 ELSE [op[o] EXCEPT !.status = "failed", !.content = 0]
    BY <1>1, <1>3
  <2>2. op'[o].status = IF op[o].status = "absent" THEN "absent" ELSE "failed"
    BY <1>1, <2>1 DEF OpRow
  <2> QED
    BY <1>1, <1>3, <2>2 DEF NoFault
<1> QED
  BY <1>2, <1>3 DEF FailOperation

\* Rows are created for a batch no one has yet.
LEMMA QueuedEffect ==
    ASSUME IInv, NEW b \in Batches, CreateQueuedOperations(b)
    PROVE  /\ UNCHANGED <<batch, billed, expiring, queue, live, cur, pc, todo, tally, zipped,
                          flow, done, now, up, crashes>>
           /\ up /\ b # cur /\ b \notin ToSet(queue) /\ b \notin live
           /\ request[b] = "enveloped" /\ batch[b].status \in Open
           /\ \A o \in OpsOf(b) : /\ flow[o] \notin RunSteps /\ op[o].status = "absent"
                                  /\ o \notin Singles /\ o \in Ops
           /\ \A o \in Ops : o \notin OpsOf(b) => op'[o] = op[o]
           /\ \/ /\ \A o \in OpsOf(b) : op'[o].status = "queued"
                 /\ request' = [request EXCEPT ![b] = "created"] /\ faults' = faults
              \/ op' = op /\ request' = [request EXCEPT ![b] = "answered"] /\ faults' = faults + 1
<1>1. op \in [Ops -> OpRow] /\ request[b] = "enveloped" /\ up
  BY DEF IInv, TypeOK, CreateQueuedOperations
<1>2. b # cur /\ b \notin ToSet(queue) /\ b \notin live /\ batch[b].status \in Open
  BY <1>1 DEF IInv, QueueStands, RequestsStand
<1>3. \A o \in OpsOf(b) : /\ flow[o] \notin RunSteps /\ op[o].status = "absent"
                          /\ o \notin Singles /\ o \in Ops
  BY <1>1, <1>2, FlowOwner, OwnOps DEF IInv, RequestsStand, RowsIn, OpRow
<1>4. \A o \in Ops : o \notin OpsOf(b) => op'[o] = op[o]
  BY <1>1 DEF CreateQueuedOperations
<1>5. \/ /\ \A o \in OpsOf(b) : op'[o].status = "queued"
         /\ request' = [request EXCEPT ![b] = "created"] /\ faults' = faults
      \/ op' = op /\ request' = [request EXCEPT ![b] = "answered"] /\ faults' = faults + 1
  <2>1. [NoOp EXCEPT !.status = "queued", !.created = now].status = "queued"
    BY DEF NoOp
  <2> QED
    BY <1>3, <2>1 DEF CreateQueuedOperations, NoFault, Fault
<1> QED
  BY <1>1, <1>2, <1>3, <1>4, <1>5 DEF CreateQueuedOperations, workVars

\* What a resumed batch has to do: its pending rows, or nothing after they were failed.
LEMMA LoadEffect ==
    ASSUME IInv, LoadJob
    PROVE  /\ UNCHANGED <<batch, billed, expiring, queue, live, cur, tally, zipped, flow,
                          request, done, now, up, crashes, faults>>
           /\ pc = "load" /\ pc' = "claim" /\ cur \in Batches
           /\ \A o \in Ops : o \notin OpsOf(cur) \/ op[o].status \notin Active => op'[o] = op[o]
           /\ \A o \in OpsOf(cur) : flow[o] \notin RunSteps /\ o \notin Singles /\ o \in Ops
           /\ \/ /\ todo' = <<>>
                 /\ \A o \in OpsOf(cur) : op[o].status \in Active => op'[o].status = "failed"
              \/ op' = op /\ IsInjective(todo') /\ ToSet(todo') = RowsIn(cur, Active)
<1>1. op \in [Ops -> OpRow] /\ cur \in Batches /\ pc = "load" /\ pc' = "claim"
  BY DEF IInv, TypeOK, LoadJob, WorkerStands
<1>2. \A o \in OpsOf(cur) : flow[o] \notin RunSteps /\ o \notin Singles /\ o \in Ops
  BY <1>1, FlowOwner, OwnOps
<1>3. CASE batch[cur].redacted
  <2>1. \A o \in Ops : op'[o] = IF o \in RowsIn(cur, Active)
                                THEN [op[o] EXCEPT !.status = "failed"] ELSE op[o]
    BY <1>3 DEF LoadJob
  <2>2. \A r \in OpRow : [r EXCEPT !.status = "failed"].status = "failed"
    BY DEF OpRow
  <2>3. \A o \in OpsOf(cur) : op[o].status \in Active => op'[o].status = "failed"
    BY <1>1, <1>2, <2>1, <2>2 DEF RowsIn
  <2>4. \A o \in Ops : o \notin OpsOf(cur) \/ op[o].status \notin Active => op'[o] = op[o]
    BY <2>1 DEF RowsIn
  <2> QED
    BY <1>1, <1>2, <1>3, <2>3, <2>4 DEF LoadJob, envVars
<1>4. CASE ~batch[cur].redacted
  <2>1. todo' \in SetToSeqs(RowsIn(cur, Active)) /\ op' = op
    BY <1>4 DEF LoadJob, Resumable, InOrder
  <2>2. IsInjective(todo') /\ ToSet(todo') = RowsIn(cur, Active)
    BY <1>1, <2>1, RowsFinite, SetSequence
  <2> QED
    BY <1>1, <1>2, <2>1, <2>2 DEF LoadJob, envVars
<1> QED
  BY <1>3, <1>4

\* The archive changes neither the state of a row nor what a hit is.
LEMMA ZipEffect ==
    ASSUME IInv, AttachBatchZip
    PROVE  /\ UNCHANGED <<batch, billed, expiring, queue, live, cur, todo, tally, flow,
                          request, done, now, up, crashes, faults>>
           /\ pc = "zip" /\ pc' = "finish" /\ zipped' /\ cur \in Batches
           /\ \A o \in Ops : op'[o].status = op[o].status /\ op'[o].hit = op[o].hit
           /\ \A o \in RowsIn(cur, {"completed"}) : op'[o].zip
           /\ \A o \in Ops : o \notin OpsOf(cur) => op'[o] = op[o]
<1>1. op \in [Ops -> OpRow] /\ cur \in Batches
  BY DEF IInv, TypeOK, AttachBatchZip, WorkerStands
<1>2. \A r \in OpRow : LET z == [r EXCEPT !.zip = TRUE]
                       IN  z.status = r.status /\ z.hit = r.hit /\ z.zip
  BY DEF OpRow
<1>3. \A o \in Ops : op'[o] = IF o \in RowsIn(cur, {"completed"})
                              THEN [op[o] EXCEPT !.zip = TRUE] ELSE op[o]
  BY DEF AttachBatchZip
<1>4. RowsIn(cur, {"completed"}) \subseteq Ops /\ RowsIn(cur, {"completed"}) \subseteq OpsOf(cur)
  BY <1>1, OwnOps DEF RowsIn
<1> QED
  BY <1>1, <1>2, <1>3, <1>4 DEF AttachBatchZip, envVars

\* A restart fails the single operations that were under way and queues what is active.
LEMMA RestartEffect ==
    ASSUME IInv, Restart
    PROVE  /\ UNCHANGED <<batch, billed, expiring, live, cur, pc, todo, tally, zipped, flow,
                          request, done, now, crashes, faults>>
           /\ ~up /\ up' /\ pc = "idle" /\ cur = None /\ todo = <<>> /\ live = {}
           /\ \A o \in Ops : flow[o] \notin RunSteps
           /\ \A o \in Ops : o \notin Singles \/ op[o].status \notin Active => op'[o] = op[o]
           /\ \A o \in Singles : op[o].status \in Active => op'[o].status = "failed"
           /\ ToSet(queue') = {b \in Batches : batch[b].status \in Active}
           /\ IsInjective(queue')
<1>1. op \in [Ops -> OpRow] /\ ~up
  BY DEF IInv, TypeOK, Restart
<1>2. pc = "idle" /\ cur = None /\ todo = <<>> /\ live = {}
  BY <1>1, EmptySequence DEF IInv, QueueStands, WorkerStands
<1>3. \A o \in Ops : flow[o] \notin RunSteps
  BY <1>1 DEF IInv, FlowsOwned
<1>4. \A r \in OpRow : [r EXCEPT !.status = "failed"].status = "failed"
  BY DEF OpRow
<1>5. \A o \in Ops : op'[o] = IF o \in Singles /\ op[o].status \in Active
                              THEN [op[o] EXCEPT !.status = "failed"] ELSE op[o]
  BY DEF Restart
<1>6. \A o \in Singles : o \in Ops
  BY DEF Ops
<1>7. IsFiniteSet({b \in Batches : batch[b].status \in Active})
  BY BatchAssumption, FS_Subset
<1>8. /\ ToSet(queue') = {b \in Batches : batch[b].status \in Active}
      /\ IsInjective(queue')
  BY <1>7, SetSequence DEF Restart
<1> QED
  BY <1>1, <1>2, <1>3, <1>4, <1>5, <1>6, <1>8 DEF Restart

\* The rows of a batch in some states, when no row of it changes state.
LEMMA RowsKept ==
    ASSUME NEW b \in Batches, \A o \in OpsOf(b) : op'[o].status = op[o].status
    PROVE  \A S : RowsIn(b, S)' = RowsIn(b, S)
BY DEF RowsIn

\* A step of the worker touches its batch and the rows of it only, and takes its next
\* batch from the front of the queue.
LEMMA WorkerEffect ==
    ASSUME IInv, WorkerStep \/ ZipFails \/ BatchFaults
    PROVE  /\ up /\ UNCHANGED <<request, now, up, crashes>>
           /\ faults' = 0 => faults = 0
           /\ \A b \in Batches : b # cur =>
                 /\ batch'[b] = batch[b] /\ \A o \in OpsOf(b) : op'[o] = op[o]
                 /\ \A S : RowsIn(b, S)' = RowsIn(b, S)
           /\ \A o \in Singles : op'[o] = op[o] /\ flow'[o] = flow[o]
           /\ cur \in Batches => batch'[cur].status \in Terminal \cup Active
<1>1. /\ batch \in [Batches -> BatchRow] /\ op \in [Ops -> OpRow] /\ faults \in Nat
      /\ flow \in [Ops -> RunSteps \cup {"idle", "gone"}] /\ None \notin Batches
  BY BatchAssumption DEF IInv, TypeOK
<1>2. cur \in Batches => batch[cur].status \in Open
  BY DEF IInv, QueueStands
<1>3. SUFFICES /\ up /\ UNCHANGED <<request, now, up, crashes>>
               /\ faults' = 0 => faults = 0
               /\ \A b \in Batches : b # cur => batch'[b] = batch[b]
               /\ \A o \in Ops : (cur \in Batches => o \notin OpsOf(cur)) =>
                     op'[o] = op[o] /\ flow'[o] = flow[o]
               /\ cur \in Batches => batch'[cur].status \in Terminal \cup Active
  <2>1. ASSUME NEW b \in Batches, b # cur PROVE \A o \in OpsOf(b) : op'[o] = op[o]
    BY <1>3, <2>1, OwnOps
  <2>2. ASSUME NEW b \in Batches, b # cur PROVE \A S : RowsIn(b, S)' = RowsIn(b, S)
    BY <2>1, <2>2, RowsKept
  <2>3. \A o \in Singles : op'[o] = op[o] /\ flow'[o] = flow[o]
    BY <1>3, OwnOps DEF Ops
  <2> QED
    BY <1>3, <2>1, <2>2, <2>3
<1> USE DEF Loop, rowVars, envVars, Fault, NoFault
<1>4. CASE TakeBatch \/ StopForCancel \/ CountRows \/ ZipFails \/ BatchFaults
  BY <1>1, <1>2, <1>4 DEF TakeBatch, StopForCancel, CountRows, ZipFails, BatchFaults, Open, Terminal
<1>5. CASE LoadJob
  BY <1>1, <1>2, <1>5, LoadEffect DEF Open, Terminal, LoadJob
<1>6. CASE ClaimBatch
  BY <1>1, <1>2, <1>6 DEF ClaimBatch, BatchRow, Open, Active, Terminal
<1>7. CASE NextOperation \/ OperationReturned
  BY <1>1, <1>2, <1>7, HeadOwned DEF NextOperation, OperationReturned, Open, Terminal, IInv, FlowsOwned
<1>8. CASE OperationRaised
  <2>1. /\ Head(todo) \in Ops /\ Head(todo) \in OpsOf(cur) /\ cur \in Batches
        /\ FailOperation(Head(todo)) /\ TypeOK
    BY <1>8, HeadOwned DEF OperationRaised, IInv, FlowsOwned
  <2>2. /\ \A x \in Ops : x # Head(todo) => op'[x] = op[x]
        /\ faults' = 0 => faults = 0
    BY <1>1, <2>1, FailEffect
  <2>3. \A x \in Ops : x # Head(todo) => flow'[x] = flow[x]
    BY <1>1, <1>8 DEF OperationRaised
  <2>4. UNCHANGED <<batch, request, now, up, crashes>> /\ up
    BY <1>8 DEF OperationRaised
  <2>5. cur \in Batches => batch'[cur].status \in Terminal \cup Active
    BY <1>2, <2>4 DEF Open, Terminal
  <2> QED
    BY <2>1, <2>2, <2>3, <2>4, <2>5
<1>9. CASE AttachBatchZip
  BY <1>1, <1>2, <1>9, ZipEffect DEF Open, Terminal, AttachBatchZip
<1>10. CASE Finalize
  <2>1. cur \in Batches
    BY <1>10 DEF Finalize, IInv, TypeOK, WorkerStands
  <2>2. \A r \in BatchRow :
          [r EXCEPT !.status = Verdict(tally), !.completed = tally.completed,
                    !.failed = tally.failed, !.zip = zipped].status = Verdict(tally)
    BY DEF BatchRow
  <2>3. batch'[cur].status \in Terminal \cup Active
    BY <1>1, <1>2, <1>10, <2>1, <2>2 DEF Finalize, Open, Terminal, Verdict
  <2> QED
    BY <1>1, <1>10, <2>3 DEF Finalize
<1> QED
  BY <1>4, <1>5, <1>6, <1>7, <1>8, <1>9, <1>10 DEF WorkerStep

\* A request of its own leaves the batches and their rows alone.
LEMMA SingleEffect ==
    ASSUME IInv, NEW o \in Singles, AcceptSingle(o) \/ TimeOut(o) \/ AnswerSingle(o)
    PROVE  /\ UNCHANGED <<rowVars, workVars, request, done, envVars>> /\ o \in Ops
           /\ \A x \in Ops : x # o => flow'[x] = flow[x]
           /\ \/ flow'[o] = "gone"
              \/ flow'[o] = "screen" /\ op[o].status = "absent" /\ flow[o] = "idle"
BY DEF AcceptSingle, TimeOut, AnswerSingle, IInv, TypeOK, Ops

-----------------------------------------------------------------------------
(* Every conjunct is kept by every step *)

\* FlowsOwned is kept.
LEMMA FlowsOwnedStep ==
    ASSUME IInv, Next PROVE FlowsOwned'
<1>0. TypeOK /\ FlowsOwned /\ WorkerStands /\ QueueStands
  BY DEF IInv
<1> USE DEF FlowsOwned
<1>1. ASSUME NEW b \in Batches,
             \/ AcceptBatch(b) \/ CreateBatch(b) \/ CreateQueuedOperations(b)
             \/ Submit(b) \/ InlineReturns(b) \/ CancelBatch(b)
      PROVE  FlowsOwned'
  <2>1. UNCHANGED <<flow, up, pc, todo>>
    BY <1>1 DEF AcceptBatch, CreateBatch, CreateQueuedOperations, Submit, InlineReturns,
                CancelBatch, workVars, envVars
  <2> QED
    BY <1>0, <2>1
<1>2. ASSUME NEW o \in Singles, AcceptSingle(o) \/ TimeOut(o) \/ AnswerSingle(o)
      PROVE  FlowsOwned'
  <2>1. /\ UNCHANGED <<up, pc, todo>> /\ up
        /\ \A x \in Ops : x # o => flow'[x] = flow[x]
    BY <1>2, <1>0 DEF AcceptSingle, TimeOut, AnswerSingle, workVars, envVars, Loop, TypeOK
  <2> QED
    BY <1>0, <2>1, HeadOwned
<1>3. ASSUME NEW o \in Ops, FlowStep(o) \/ BillFails(o)
      PROVE  FlowsOwned'
  BY <1>0, <1>3, FlowEffect, HeadOwned
<1>4. CASE TakeBatch \/ LoadJob \/ ClaimBatch \/ StopForCancel \/ CountRows \/ AttachBatchZip
           \/ Finalize \/ ZipFails \/ BatchFaults
  <2>1. pc # "run" /\ pc' # "run" /\ UNCHANGED <<flow, up>>
    BY <1>4, <1>0 DEF TakeBatch, LoadJob, ClaimBatch, StopForCancel, CountRows, AttachBatchZip,
           Finalize, ZipFails, BatchFaults, envVars, TypeOK
  <2> QED
    BY <1>0, <2>1
<1>5. CASE NextOperation
  <2>1. /\ todo # <<>> /\ Head(todo) \in Ops /\ up' /\ pc' = "run" /\ todo' = todo
        /\ pc = "next" /\ up
        /\ flow' = [flow EXCEPT ![Head(todo)] = "screen"]
    BY <1>5, HeadOwned DEF NextOperation, Loop, envVars
  <2> QED
    BY <1>0, <2>1 DEF RunSteps, TypeOK
<1>6. CASE OperationReturned \/ OperationRaised
  <2>1. /\ pc = "run" /\ pc' = "next" /\ up' = up
        /\ flow' = [flow EXCEPT ![Head(todo)] = "gone"]
    BY <1>6 DEF OperationReturned, OperationRaised, envVars
  <2> QED
    BY <1>0, <2>1 DEF RunSteps, TypeOK
<1>7. CASE Tick
  BY <1>0, <1>7 DEF Tick, workVars
<1>8. CASE Crash
  <2>1. \A o \in Ops : flow'[o] \in {"idle", "gone"}
    BY <1>8 DEF Crash
  <2>2. pc' = "idle"
    BY <1>8 DEF Crash
  <2> QED
    BY <2>1, <2>2 DEF RunSteps
<1>9. CASE Restart
  BY <1>0, <1>9 DEF Restart
<1> QED
  BY <1>1, <1>2, <1>3, <1>4, <1>5, <1>6, <1>7, <1>8, <1>9 DEF Next, WorkerStep

\* FlowsStand is kept.
LEMMA FlowsStandStep ==
    ASSUME IInv, Next PROVE FlowsStand'
<1>0. TypeOK /\ FlowsStand
  BY DEF IInv
<1> USE DEF FlowsStand
<1>1. ASSUME NEW b \in Batches,
             AcceptBatch(b) \/ CreateBatch(b) \/ Submit(b) \/ InlineReturns(b) \/ CancelBatch(b)
      PROVE  FlowsStand'
  <2>1. UNCHANGED <<flow, op, billed, faults>>
    BY <1>1 DEF AcceptBatch, CreateBatch, Submit, InlineReturns, CancelBatch, rowVars, envVars
  <2> QED
    BY <1>0, <2>1
<1>2. ASSUME NEW b \in Batches, CreateQueuedOperations(b)
      PROVE  FlowsStand'
  <2>1. /\ UNCHANGED <<flow, billed>> /\ (faults' = 0 => faults = 0)
        /\ \A o \in Ops : \/ op'[o] = op[o]
                          \/ /\ flow[o] \notin RunSteps /\ op[o].status = "absent"
                             /\ op'[o].status = "queued" /\ o \notin Singles
    BY <1>0, <1>2, QueuedEffect DEF TypeOK
  <2> QED
    BY <1>0, <2>1 DEF RunSteps
<1>3. ASSUME NEW o \in Singles, AcceptSingle(o) \/ TimeOut(o) \/ AnswerSingle(o)
      PROVE  FlowsStand'
  <2>1. /\ UNCHANGED <<op, billed, faults>> /\ o \in Ops
        /\ \A x \in Ops : x # o => flow'[x] = flow[x]
        /\ flow'[o] = "gone" \/ (flow'[o] = "screen" /\ op[o].status = "absent" /\ flow[o] = "idle")
    BY <1>3, <1>0 DEF AcceptSingle, TimeOut, AnswerSingle, rowVars, envVars, TypeOK, Ops
  <2> QED
    BY <1>0, <2>1
<1>4. ASSUME NEW o \in Ops, FlowStep(o) \/ BillFails(o)
      PROVE  FlowsStand'
  <2>1. /\ \A x \in Ops : x # o => /\ flow'[x] = flow[x] /\ op'[x] = op[x]
                                   /\ (x \in billed' <=> x \in billed)
        /\ faults' = 0 => faults = 0
        /\ FlowMove(o) /\ faults \in Nat
    BY <1>4, FlowEffect, FlowRow, FlowRows DEF IInv, TypeOK
  <2>2. ASSUME NEW x \in Ops, x # o PROVE FlowsStand!(x)'
    BY <1>0, <2>1, <2>2
  <2>3. FlowsStand!(o)'
    BY <1>0, <2>1 DEF FlowMove, NoFault, Active
  <2> QED
    BY <2>2, <2>3
<1>5. CASE TakeBatch \/ ClaimBatch \/ StopForCancel \/ CountRows \/ Finalize \/ ZipFails
           \/ BatchFaults
  <2>1. UNCHANGED <<flow, op, billed>> /\ (faults' = 0 => faults = 0)
    BY <1>0, <1>5 DEF TakeBatch, ClaimBatch, StopForCancel, CountRows, Finalize, ZipFails,
                 BatchFaults, rowVars, envVars, Fault, TypeOK
  <2> QED
    BY <1>0, <2>1
<1>6. CASE LoadJob
  <2>1. /\ UNCHANGED <<flow, billed, faults>>
        /\ \A o \in Ops : \/ op'[o] = op[o]
                          \/ /\ flow[o] \notin RunSteps /\ op[o].status \in Active
                             /\ op'[o].status = "failed" /\ o \notin Singles
    BY <1>6, LoadEffect
  <2> QED
    BY <1>0, <2>1 DEF RunSteps, Active
<1>7. CASE AttachBatchZip
  BY <1>0, <1>7, ZipEffect
<1>8. CASE NextOperation
  <2>1. /\ todo # <<>> /\ UNCHANGED <<op, billed, faults>> /\ Head(todo) \notin Singles
        /\ flow' = [flow EXCEPT ![Head(todo)] = "screen"] /\ op[Head(todo)].status \in Active
    BY <1>8, HeadOwned DEF NextOperation, rowVars, envVars, IInv, WorkerStands
  <2> QED
    BY <1>0, <2>1 DEF TypeOK
<1>9. CASE OperationReturned
  <2>1. /\ UNCHANGED <<op, billed, faults>> /\ \A x \in Ops : flow'[x] \in {flow[x], "gone"}
    BY <1>9, <1>0 DEF OperationReturned, rowVars, envVars, TypeOK
  <2> QED
    BY <1>0, <2>1
<1>10. CASE OperationRaised
  <2> DEFINE h == Head(todo)
  <2>1. h \in Ops /\ h \notin Singles /\ flow[h] = "raised" /\ op[h].status # "completed"
    BY <1>0, <1>10, HeadOwned DEF OperationRaised, IInv, FlowsOwned
  <2>2. /\ billed' = billed /\ (faults' = 0 => faults = 0)
        /\ \A x \in Ops : x # h => op'[x] = op[x] /\ flow'[x] = flow[x]
        /\ op'[h].status # "completed" /\ flow'[h] = "gone"
    BY <1>0, <1>10, <2>1, FailEffect DEF OperationRaised, TypeOK
  <2> QED
    BY <1>0, <2>1, <2>2
<1>11. CASE Tick
  BY <1>0, <1>11 DEF Tick, rowVars
<1>12. CASE Crash
  <2>1. UNCHANGED <<op, billed, faults>> /\ \A o \in Ops : flow'[o] = "gone" \/ flow'[o] = flow[o]
    BY <1>12 DEF Crash, rowVars
  <2> QED
    BY <1>0, <2>1
<1>13. CASE Restart
  <2>1. /\ UNCHANGED <<flow, billed, faults>>
        /\ \A o \in Ops : /\ flow[o] \notin RunSteps
                          /\ \/ op'[o] = op[o]
                             \/ op[o].status \in Active /\ op'[o].status = "failed"
    BY <1>13, RestartEffect
  <2> QED
    BY <1>0, <2>1 DEF RunSteps, Active
<1> QED
  BY <1>1, <1>2, <1>3, <1>4, <1>5, <1>6, <1>7, <1>8, <1>9, <1>10, <1>11, <1>12, <1>13
  DEF Next, WorkerStep

\* Charged is kept: the row is charged and its artifacts are registered before the flow
\* returns, unless a store call fails.
LEMMA ChargedStep ==
    ASSUME IInv, Next PROVE Charged'
<1>0. TypeOK /\ Charged /\ FlowsStand
  BY DEF IInv
<1> USE DEF Charged
<1>1. ASSUME NEW b \in Batches,
             AcceptBatch(b) \/ CreateBatch(b) \/ Submit(b) \/ InlineReturns(b) \/ CancelBatch(b)
      PROVE  Charged'
  <2>1. UNCHANGED <<flow, op, billed, expiring, crashes, faults>>
    BY <1>1 DEF AcceptBatch, CreateBatch, Submit, InlineReturns, CancelBatch, rowVars, envVars
  <2> QED
    BY <1>0, <2>1
<1>2. ASSUME NEW b \in Batches, CreateQueuedOperations(b)
      PROVE  Charged'
  <2>1. /\ UNCHANGED <<flow, billed, expiring, crashes>> /\ (faults' = 0 => faults = 0)
        /\ \A o \in Ops : op'[o] = op[o] \/ op'[o].status = "queued"
    BY <1>0, <1>2, QueuedEffect DEF TypeOK
  <2> QED
    BY <1>0, <2>1
<1>3. ASSUME NEW o \in Singles, AcceptSingle(o) \/ TimeOut(o) \/ AnswerSingle(o)
      PROVE  Charged'
  <2>1. \A x \in Ops : flow[x] \in {"bill", "register"} => flow'[x] = flow[x]
    BY <1>3, <1>0 DEF AcceptSingle, TimeOut, AnswerSingle, TypeOK
  <2>2. UNCHANGED <<op, billed, expiring, crashes, faults>>
    BY <1>3, SingleEffect DEF rowVars, envVars
  <2> QED
    BY <1>0, <2>1, <2>2
<1>4. ASSUME NEW o \in Ops, FlowStep(o) \/ BillFails(o)
      PROVE  Charged'
  <2>1. /\ \A x \in Ops : x # o => /\ flow'[x] = flow[x] /\ op'[x] = op[x]
                                   /\ (x \in billed' <=> x \in billed)
                                   /\ (x \in expiring' <=> x \in expiring)
        /\ faults' = 0 => faults = 0
        /\ FlowMove(o) /\ faults \in Nat /\ crashes' = crashes
    BY <1>4, FlowEffect, FlowRow, FlowRows DEF IInv, TypeOK
  <2>2. FlowsStand!(o) /\ op[o].status \in {"absent"} \cup Active \cup Settled
    BY <1>0 DEF FlowsStand, TypeOK, OpRow
  <2>3. ASSUME crashes' = 0, faults' = 0, op'[o].status = "completed",
               flow'[o] \notin {"bill", "register"}
        PROVE  o \in billed' /\ (~op'[o].hit => o \in expiring')
    BY <1>0, <2>1, <2>2, <2>3 DEF FlowMove, NoFault, Active, Settled
  <2> QED
    BY <1>0, <2>1, <2>3
<1>5. CASE TakeBatch \/ ClaimBatch \/ StopForCancel \/ CountRows \/ Finalize \/ ZipFails
           \/ BatchFaults
  <2>1. UNCHANGED <<flow, op, billed, expiring, crashes>> /\ (faults' = 0 => faults = 0)
    BY <1>0, <1>5 DEF TakeBatch, ClaimBatch, StopForCancel, CountRows, Finalize, ZipFails,
                 BatchFaults, rowVars, envVars, Fault, TypeOK
  <2> QED
    BY <1>0, <2>1
<1>6. CASE LoadJob
  <2>1. /\ UNCHANGED <<flow, billed, expiring, crashes, faults>>
        /\ \A o \in Ops : op'[o] = op[o] \/ op'[o].status = "failed"
    BY <1>6, LoadEffect
  <2> QED
    BY <1>0, <2>1
<1>7. CASE AttachBatchZip
  BY <1>0, <1>7, ZipEffect
<1>8. CASE NextOperation
  <2>1. /\ UNCHANGED <<op, billed, expiring, crashes, faults>> /\ todo # <<>>
        /\ flow' = [flow EXCEPT ![Head(todo)] = "screen"] /\ op[Head(todo)].status \in Active
    BY <1>8, HeadOwned DEF NextOperation, rowVars, envVars, IInv, WorkerStands
  <2> QED
    BY <1>0, <2>1 DEF TypeOK, Active
<1>9. CASE OperationReturned
  <2>1. /\ UNCHANGED <<op, billed, expiring, crashes, faults>>
        /\ \A x \in Ops : flow'[x] # flow[x] => flow[x] = "returned"
    BY <1>9, <1>0 DEF OperationReturned, rowVars, envVars, TypeOK
  <2> QED
    BY <1>0, <2>1
<1>10. CASE OperationRaised
  <2> DEFINE h == Head(todo)
  <2>1. h \in Ops /\ flow[h] = "raised" /\ op[h].status # "completed"
    BY <1>0, <1>10, HeadOwned DEF OperationRaised, IInv, FlowsOwned, FlowsStand
  <2>2. /\ UNCHANGED <<billed, expiring, crashes>> /\ (faults' = 0 => faults = 0)
        /\ \A x \in Ops : x # h => op'[x] = op[x] /\ flow'[x] = flow[x]
        /\ op'[h].status # "completed"
    BY <1>0, <1>10, <2>1, FailEffect DEF OperationRaised, TypeOK
  <2> QED
    BY <1>0, <2>1, <2>2
<1>11. CASE Tick
  BY <1>0, <1>11 DEF Tick, rowVars
<1>12. CASE Crash
  BY <1>0, <1>12 DEF Crash, TypeOK
<1>13. CASE Restart
  <2>1. /\ UNCHANGED <<flow, billed, expiring, crashes, faults>>
        /\ \A o \in Ops : op'[o] = op[o] \/ op'[o].status = "failed"
    BY <1>13, RestartEffect
  <2> QED
    BY <1>0, <2>1
<1> QED
  BY <1>1, <1>2, <1>3, <1>4, <1>5, <1>6, <1>7, <1>8, <1>9, <1>10, <1>11, <1>12, <1>13
  DEF Next, WorkerStep

\* RequestsStand is kept.
LEMMA RequestsStandStep ==
    ASSUME IInv, Next PROVE RequestsStand'
<1>0. /\ batch \in [Batches -> BatchRow] /\ RequestsStand /\ QueueStands
      /\ request \in [Batches -> {"idle", "accepted", "enveloped", "created", "waiting",
                                  "answered"}]
  BY DEF IInv, TypeOK
<1> USE DEF RequestsStand
<1>1. ASSUME NEW b \in Batches, AcceptBatch(b) \/ InlineReturns(b)
      PROVE  RequestsStand'
  <2>1. /\ UNCHANGED <<op, batch, live, up>> /\ up
        /\ \/ request[b] = "idle" /\ request' = [request EXCEPT ![b] = "accepted"]
           \/ request[b] = "waiting" /\ request' = [request EXCEPT ![b] = "answered"]
    BY <1>1 DEF AcceptBatch, InlineReturns, rowVars, workVars, envVars, Loop
  <2>2. \A d \in Batches : \A S : RowsIn(d, S)' = RowsIn(d, S)
    BY <2>1, RowsKept
  <2> QED
    BY <1>0, <2>1, <2>2
<1>2. ASSUME NEW b \in Batches, CreateBatch(b) \/ CancelBatch(b)
      PROVE  RequestsStand'
  <2>1. /\ UNCHANGED <<op, live, up>> /\ up
        /\ \A d \in Batches : d # b => batch'[d] = batch[d] /\ request'[d] = request[d]
        /\ \/ /\ request[b] = "accepted" /\ request'[b] = "enveloped"
              /\ batch'[b].status = "queued"
           \/ /\ request'[b] = request[b] /\ batch[b].status \in Active
              /\ batch'[b].status = "canceled"
    BY <1>2, <1>0 DEF CreateBatch, CancelBatch, workVars, envVars, Loop, BatchRow
  <2>2. \A d \in Batches : \A S : RowsIn(d, S)' = RowsIn(d, S)
    BY <2>1, RowsKept
  <2>3. ASSUME NEW d \in Batches, d # b PROVE RequestsStand!(d)'
    BY <1>0, <2>1, <2>2, <2>3
  <2>4. RequestsStand!(b)'
    BY <1>0, <2>1, <2>2 DEF Open, Active
  <2> QED
    BY <2>3, <2>4
<1>3. ASSUME NEW b \in Batches, CreateQueuedOperations(b)
      PROVE  RequestsStand'
  <2>1. ASSUME NEW d \in Batches, d # b
        PROVE  /\ \A S : RowsIn(d, S)' = RowsIn(d, S)
               /\ batch'[d] = batch[d] /\ request'[d] = request[d]
    <3>1. \A o \in OpsOf(d) : op'[o] = op[o]
      BY <1>3, <2>1, QueuedEffect, OwnOps
    <3> QED
      BY <1>0, <1>3, <2>1, <3>1, RowsKept, QueuedEffect
  <2>2. ASSUME NEW d \in Batches, d # b PROVE RequestsStand!(d)'
    <3>1. UNCHANGED <<live, up>>
      BY <1>3, QueuedEffect
    <3> QED
      BY <1>0, <2>1, <2>2, <3>1
  <2>3. /\ batch' = batch /\ batch[b].status \in Open /\ up' /\ b \notin live'
        /\ request'[b] = "answered" \/ (request'[b] = "created" /\ RowsIn(b, {"queued"})' = OpsOf(b))
    BY <1>0, <1>3, QueuedEffect DEF RowsIn
  <2>4. RequestsStand!(b)'
    BY <2>3 DEF Open, Active
  <2> QED
    BY <2>2, <2>4
<1>4. ASSUME NEW b \in Batches, Submit(b)
      PROVE  RequestsStand'
  <2>1. /\ UNCHANGED <<op, batch, up>> /\ live' = live \cup {b} /\ request[b] = "created" /\ up
        /\ \A d \in Batches : d # b => request'[d] = request[d]
        /\ request'[b] \in {"waiting", "answered"}
    BY <1>4, <1>0 DEF Submit, rowVars, envVars
  <2>2. \A d \in Batches : \A S : RowsIn(d, S)' = RowsIn(d, S)
    BY <2>1, RowsKept
  <2> QED
    BY <1>0, <2>1, <2>2 DEF Open, Active
<1>5. ASSUME NEW o \in Singles, AcceptSingle(o) \/ TimeOut(o) \/ AnswerSingle(o)
      PROVE  RequestsStand'
  <2>1. UNCHANGED <<op, batch, live, request, up>>
    BY <1>5, SingleEffect DEF rowVars, workVars, envVars
  <2>2. \A d \in Batches : \A S : RowsIn(d, S)' = RowsIn(d, S)
    BY <2>1, RowsKept
  <2> QED
    BY <1>0, <2>1, <2>2
<1>6. cur \in Batches => /\ batch[cur].status \in Open /\ cur \notin live
                         /\ request[cur] \in {"waiting", "answered"}
  BY <1>0 DEF QueueStands
<1>7. ASSUME NEW o \in Ops, FlowStep(o) \/ BillFails(o)
      PROVE  RequestsStand'
  <2>1. UNCHANGED <<batch, live, request, up>>
    BY <1>7, FlowEffect
  <2>2. \A d \in Batches : d # cur => \A S : RowsIn(d, S)' = RowsIn(d, S)
    BY <1>7, FlowRows
  <2> QED
    BY <1>0, <1>6, <2>1, <2>2 DEF Open, Active
<1>8. CASE WorkerStep \/ ZipFails \/ BatchFaults
  <2>1. /\ UNCHANGED <<request, up>> /\ up
        /\ \A d \in Batches : d # cur => /\ \A S : RowsIn(d, S)' = RowsIn(d, S)
                                         /\ batch'[d] = batch[d]
        /\ cur \in Batches => batch'[cur].status \in Terminal \cup Active
    BY <1>8, WorkerEffect
  <2>2. live' \subseteq live
    BY <1>8 DEF WorkerStep, TakeBatch, LoadJob, ClaimBatch, NextOperation, StopForCancel,
        OperationReturned, OperationRaised, CountRows, AttachBatchZip, Finalize, ZipFails,
        BatchFaults
  <2> QED
    BY <1>0, <1>6, <2>1, <2>2 DEF Open, Active, Terminal
<1>9. CASE Tick
  BY <1>0, <1>9, RowsKept DEF Tick, rowVars, workVars
<1>10. CASE Crash
  <2>1. /\ UNCHANGED <<op, batch>> /\ live' = {}
        /\ \A d \in Batches : \/ request[d] = "idle" /\ request'[d] = "idle"
                              \/ request'[d] = "answered"
    BY <1>10 DEF Crash, rowVars
  <2>2. \A d \in Batches : \A S : RowsIn(d, S)' = RowsIn(d, S)
    BY <2>1, RowsKept
  <2> QED
    BY <1>0, <2>1, <2>2
<1>11. CASE Restart
  <2>1. UNCHANGED <<batch, live, request>> /\ up' /\ \A o \in Ops \ Singles : op'[o] = op[o]
    BY <1>11, RestartEffect
  <2>2. \A d \in Batches : \A S : RowsIn(d, S)' = RowsIn(d, S)
    BY <2>1, RowsKept, OwnOps
  <2> QED
    BY <1>0, <2>1, <2>2
<1> QED
  BY <1>1, <1>2, <1>3, <1>4, <1>5, <1>7, <1>8, <1>9, <1>10, <1>11 DEF Next

\* QueueStands is kept.
LEMMA QueueStandsStep ==
    ASSUME IInv, Next PROVE QueueStands'
<1>0. /\ QueueStands /\ queue \in Seq(Batches) /\ live \subseteq Batches
      /\ cur \in Batches \cup {None} /\ None \notin Batches
      /\ batch \in [Batches -> BatchRow]
      /\ request \in [Batches -> {"idle", "accepted", "enveloped", "created", "waiting",
                                  "answered"}]
      /\ pc = "idle" <=> cur = None
  BY BatchAssumption DEF IInv, TypeOK, WorkerStands
<1> USE DEF QueueStands
<1>1. ASSUME NEW b \in Batches, AcceptBatch(b) \/ InlineReturns(b)
      PROVE  QueueStands'
  <2>1. /\ UNCHANGED <<queue, cur, live, pc, up, batch>> /\ up
        /\ \/ request[b] = "idle" /\ request' = [request EXCEPT ![b] = "accepted"]
           \/ request[b] = "waiting" /\ request' = [request EXCEPT ![b] = "answered"]
    BY <1>1 DEF AcceptBatch, InlineReturns, rowVars, workVars, envVars, Loop
  <2> QED
    BY <1>0, <2>1
<1>2. ASSUME NEW b \in Batches, CreateBatch(b) \/ CancelBatch(b)
      PROVE  QueueStands'
  <2>1. /\ UNCHANGED <<queue, cur, live, pc, up>> /\ up
        /\ \A d \in Batches : d # b => batch'[d] = batch[d] /\ request'[d] = request[d]
        /\ \/ request[b] = "accepted"
           \/ request'[b] = request[b] /\ batch'[b].status = "canceled"
    BY <1>2, <1>0 DEF CreateBatch, CancelBatch, workVars, envVars, Loop, BatchRow
  <2> QED
    BY <1>0, <2>1 DEF Open
<1>3. ASSUME NEW b \in Batches, CreateQueuedOperations(b)
      PROVE  QueueStands'
  <2>1. /\ UNCHANGED <<queue, cur, live, pc, up, batch>> /\ up
        /\ \A d \in Batches : d # b => request'[d] = request[d]
        /\ b # cur /\ b \notin ToSet(queue)
    BY <1>3, <1>0, QueuedEffect
  <2> QED
    BY <1>0, <2>1
<1>4. ASSUME NEW b \in Batches, Submit(b)
      PROVE  QueueStands'
  <2>1. /\ UNCHANGED <<cur, pc, up, batch>> /\ up /\ live' = live \cup {b}
        /\ queue' = Append(queue, b) /\ request[b] = "created"
        /\ \A d \in Batches : d # b => request'[d] = request[d]
        /\ request'[b] \in {"waiting", "answered"}
    BY <1>4, <1>0 DEF Submit, rowVars, envVars
  <2>2. b # cur /\ b \notin ToSet(queue) /\ batch[b].status \in Open
    BY <1>0, <2>1 DEF IInv, RequestsStand
  <2>3. ToSet(queue') = ToSet(queue) \cup {b} /\ IsInjective(queue')
    BY <1>0, <2>1, <2>2, AppendSet
  <2> QED
    BY <1>0, <2>1, <2>2, <2>3
<1>5. ASSUME NEW o \in Singles, AcceptSingle(o) \/ TimeOut(o) \/ AnswerSingle(o)
      PROVE  QueueStands'
  BY <1>0, <1>5, SingleEffect DEF rowVars, workVars, envVars
<1>6. ASSUME NEW o \in Ops, FlowStep(o) \/ BillFails(o)
      PROVE  QueueStands'
  BY <1>0, <1>6, FlowEffect
<1>7. CASE WorkerStep \/ ZipFails \/ BatchFaults
  <2>1. /\ up /\ UNCHANGED <<request, up>>
        /\ \A d \in Batches : d # cur => batch'[d] = batch[d]
    BY <1>7, WorkerEffect
  <2>2. CASE TakeBatch
    <3>1. /\ queue # <<>> /\ queue' = Tail(queue) /\ live' = live \ {Head(queue)}
          /\ cur' \in {cur, Head(queue)} /\ cur = None /\ batch' = batch
      BY <1>0, <2>2 DEF TakeBatch, rowVars
    <3>2. /\ ToSet(queue') = ToSet(queue) \ {Head(queue)} /\ IsInjective(queue')
          /\ Head(queue) \in ToSet(queue) /\ Head(queue) \in Batches
      BY <1>0, <3>1, TailSet
    <3>3. cur' \notin ToSet(queue')
      BY <1>0, <3>1, <3>2
    <3> QED
      BY <1>0, <2>1, <3>1, <3>2, <3>3
  <2>3. CASE LoadJob \/ ClaimBatch \/ NextOperation \/ OperationReturned \/ OperationRaised
             \/ CountRows \/ AttachBatchZip \/ ZipFails
    <3>1. UNCHANGED <<queue, cur, live>> /\ (cur \in Batches => batch'[cur].status \in Open)
      BY <1>0, <2>3 DEF LoadJob, ClaimBatch, NextOperation, OperationReturned, OperationRaised,
           CountRows, AttachBatchZip, ZipFails, rowVars, BatchRow, Open, Active
    <3> QED
      BY <1>0, <2>1, <3>1
  <2>4. CASE StopForCancel \/ Finalize \/ BatchFaults
    <3>1. UNCHANGED <<queue, live>> /\ cur' = None /\ None \notin ToSet(queue)
      BY <1>0, <2>4, LenProperties
      DEF StopForCancel, Finalize, BatchFaults, ToSet
    <3> QED
      BY <1>0, <2>1, <3>1
  <2> QED
    BY <1>7, <2>2, <2>3, <2>4 DEF WorkerStep
<1>8. CASE Tick
  BY <1>0, <1>8 DEF Tick, rowVars, workVars
<1>9. CASE Crash
  <2>1. queue' = <<>> /\ live' = {} /\ cur' = None /\ pc' = "idle"
    BY <1>9 DEF Crash
  <2> QED
    BY <1>0, <2>1, EmptySequence
<1>10. CASE Restart
  <2>1. /\ UNCHANGED <<batch, live, cur, request>> /\ up' /\ ~up /\ live = {} /\ cur = None
        /\ ToSet(queue') = {d \in Batches : batch[d].status \in Active} /\ IsInjective(queue')
    BY <1>10, RestartEffect
  <2>2. \A d \in Batches : batch[d].status \in Active => request[d] = "answered"
    BY <2>1 DEF IInv, RequestsStand, Active
  <2> QED
    BY <1>0, <2>1, <2>2 DEF Open
<1> QED
  BY <1>1, <1>2, <1>3, <1>4, <1>5, <1>6, <1>7, <1>8, <1>9, <1>10 DEF Next

\* WorkerStands is kept.
LEMMA WorkerStandsStep ==
    ASSUME IInv, Next PROVE WorkerStands'
<1>0. /\ WorkerStands /\ cur \in Batches \cup {None} /\ None \notin Batches /\ todo \in Seq(Ops)
      /\ QueueStands /\ queue \in Seq(Batches)
      /\ flow \in [Ops -> RunSteps \cup {"idle", "gone"}]
  BY BatchAssumption DEF IInv, TypeOK
<1>a. \A o \in ToSet(todo) : o \in Ops /\ cur \in Batches /\ o \in OpsOf(cur) /\ o \notin Singles
  <2>1. cur = None => ToSet(todo) = {}
    BY <1>0, EmptySequence DEF WorkerStands
  <2> QED
    BY <1>0, <2>1, OwnOps DEF WorkerStands
<1> USE DEF WorkerStands
<1>1. ASSUME NEW b \in Batches,
             AcceptBatch(b) \/ CreateBatch(b) \/ Submit(b) \/ InlineReturns(b) \/ CancelBatch(b)
      PROVE  WorkerStands'
  <2>1. UNCHANGED <<pc, cur, todo, op>>
    BY <1>1 DEF AcceptBatch, CreateBatch, Submit, InlineReturns, CancelBatch, rowVars, workVars
  <2> QED
    BY <1>0, <2>1
<1>2. ASSUME NEW b \in Batches, CreateQueuedOperations(b)
      PROVE  WorkerStands'
  <2>1. UNCHANGED <<pc, cur, todo>> /\ b # cur /\ \A o \in Ops : o \notin OpsOf(b) => op'[o] = op[o]
    BY <1>2, QueuedEffect
  <2>2. \A o \in ToSet(todo) : op'[o] = op[o]
    BY <1>a, <2>1, OwnOps
  <2> QED
    BY <1>0, <2>1, <2>2
<1>3. ASSUME NEW o \in Singles, AcceptSingle(o) \/ TimeOut(o) \/ AnswerSingle(o)
      PROVE  WorkerStands'
  BY <1>0, <1>3, SingleEffect DEF rowVars, workVars
<1>4. ASSUME NEW o \in Ops, FlowStep(o) \/ BillFails(o)
      PROVE  WorkerStands'
  <2>1. UNCHANGED <<pc, cur, todo>> /\ \A x \in Ops : x # o => op'[x] = op[x]
    BY <1>4, FlowEffect
  <2>2. \A x \in ToSet(todo) : x = o => pc = "run" /\ o = Head(todo)
    BY <1>a, <1>4, FlowEffect, FlowOwner
  <2> QED
    BY <1>0, <1>a, <2>1, <2>2
<1>5. CASE TakeBatch
  <2>1. pc = "idle" /\ cur = None /\ todo = <<>> /\ op' = op /\ queue # <<>>
    BY <1>0, <1>5 DEF TakeBatch, rowVars
  <2>2. Head(queue) \in Batches
    BY <1>0, <2>1, HeadTailProperties
  <2>3. CASE Head(queue) \in live
    <3>1. cur' = Head(queue) /\ pc' = "claim" /\ todo' = BatchOps[Head(queue)]
      BY <1>5, <2>3 DEF TakeBatch
    <3>2. RowsIn(cur', {"queued"}) = OpsOf(cur')
      BY <2>2, <2>3, <3>1 DEF IInv, RequestsStand
    <3>3. IsInjective(todo') /\ ToSet(todo') = OpsOf(cur')
      BY <2>2, <3>1, BatchAssumption DEF OpsOf
    <3> QED
      BY <1>0, <2>1, <2>2, <3>1, <3>2, <3>3 DEF RowsIn, Active
  <2>4. CASE Head(queue) \notin live /\ cur' = Head(queue) /\ pc' = "load" /\ todo' = <<>>
    BY <1>0, <2>1, <2>2, <2>4, EmptySequence
  <2>5. CASE UNCHANGED <<cur, pc, todo>>
    BY <1>0, <2>1, <2>5
  <2> QED
    BY <1>5, <2>3, <2>4, <2>5 DEF TakeBatch
<1>6. CASE LoadJob
  <2>1. /\ cur' = cur /\ cur \in Batches /\ pc' = "claim"
        /\ \/ todo' = <<>>
           \/ op' = op /\ IsInjective(todo') /\ ToSet(todo') = RowsIn(cur, Active)
    BY <1>6, LoadEffect
  <2> QED
    BY <1>0, <2>1, EmptySequence DEF RowsIn
<1>7. CASE ClaimBatch \/ NextOperation
  <2>1. UNCHANGED <<cur, todo, op>> /\ pc \in {"claim", "next"} /\ pc' \in {"next", "run"}
    BY <1>7 DEF ClaimBatch, NextOperation, rowVars
  <2> QED
    BY <1>0, <2>1
<1>8. CASE OperationReturned
  <2>1. todo # <<>>
    BY <1>8 DEF OperationReturned, IInv, FlowsOwned
  <2>2. UNCHANGED <<cur, op>> /\ pc = "run" /\ pc' = "next" /\ todo' = Tail(todo)
    BY <1>8 DEF OperationReturned, rowVars
  <2> QED
    BY <1>0, <2>1, <2>2, HeadOwned
<1>9. CASE OperationRaised
  <2>1. todo # <<>>
    BY <1>9 DEF OperationRaised, IInv, FlowsOwned
  <2>2. /\ UNCHANGED cur /\ pc = "run" /\ pc' = "next" /\ todo' = Tail(todo)
        /\ FailOperation(Head(todo))
    BY <1>9 DEF OperationRaised
  <2>3. \A x \in Ops : x # Head(todo) => op'[x] = op[x]
    BY <2>1, <2>2, HeadOwned, FailEffect DEF IInv
  <2> QED
    BY <1>0, <1>a, <2>1, <2>2, <2>3, HeadOwned
<1>10. CASE StopForCancel \/ Finalize \/ BatchFaults
  <2>1. todo' = <<>> /\ cur' = None /\ pc' = "idle"
    BY <1>0, <1>10 DEF StopForCancel, Finalize, BatchFaults
  <2> QED
    BY <2>1, EmptySequence
<1>11. CASE CountRows \/ ZipFails
  <2>1. UNCHANGED <<cur, todo, op>> /\ todo = <<>> /\ pc \in {"next", "zip"} /\ pc' \in {"zip", "finish"}
    BY <1>0, <1>11 DEF CountRows, ZipFails, rowVars
  <2> QED
    BY <1>0, <2>1, EmptySequence
<1>12. CASE AttachBatchZip
  BY <1>0, <1>12, ZipEffect, EmptySequence
<1>13. CASE Tick
  BY <1>0, <1>13 DEF Tick, rowVars, workVars
<1>14. CASE Crash
  BY <1>14, EmptySequence DEF Crash
<1>15. CASE Restart
  <2>1. UNCHANGED <<cur, pc, todo>> /\ pc = "idle" /\ cur = None /\ todo = <<>>
    BY <1>15, RestartEffect
  <2> QED
    BY <1>0, <2>1, EmptySequence
<1> QED
  BY <1>1, <1>2, <1>3, <1>4, <1>5, <1>6, <1>7, <1>8, <1>9, <1>10, <1>11, <1>12, <1>13,
     <1>14, <1>15 DEF Next, WorkerStep

\* TallyStands is kept.
LEMMA TallyStandsStep ==
    ASSUME IInv, Next PROVE TallyStands'
<1>0. /\ TallyStands /\ op \in [Ops -> OpRow]
      /\ cur \in Batches \cup {None} /\ (pc = "idle" <=> cur = None)
  BY DEF IInv, TypeOK, WorkerStands
<1>a. ASSUME UNCHANGED <<pc, cur, tally, zipped>>,
             pc \in {"zip", "finish"} => \A o \in OpsOf(cur) : op'[o] = op[o]
      PROVE  TallyStands'
  <2>1. ASSUME pc \in {"zip", "finish"} PROVE \A S : RowsIn(cur, S)' = RowsIn(cur, S)
    BY <1>0, <1>a, <2>1, RowsKept
  <2> QED
    BY <1>0, <1>a, <2>1 DEF TallyStands, RowsIn
<1>1. ASSUME NEW b \in Batches,
             AcceptBatch(b) \/ CreateBatch(b) \/ Submit(b) \/ InlineReturns(b) \/ CancelBatch(b)
      PROVE  TallyStands'
  <2>1. UNCHANGED <<pc, cur, tally, zipped, op>>
    BY <1>1 DEF AcceptBatch, CreateBatch, Submit, InlineReturns, CancelBatch, rowVars, workVars
  <2> QED
    BY <1>a, <2>1
<1>2. ASSUME NEW b \in Batches, CreateQueuedOperations(b)
      PROVE  TallyStands'
  <2>1. /\ UNCHANGED <<pc, cur, tally, zipped>> /\ b # cur
        /\ \A o \in Ops : o \notin OpsOf(b) => op'[o] = op[o]
    BY <1>2, QueuedEffect
  <2>2. cur \in Batches => \A o \in OpsOf(cur) : op'[o] = op[o]
    BY <2>1, OwnOps
  <2> QED
    BY <1>0, <1>a, <2>1, <2>2
<1>3. ASSUME NEW o \in Singles, AcceptSingle(o) \/ TimeOut(o) \/ AnswerSingle(o)
      PROVE  TallyStands'
  BY <1>a, <1>3, SingleEffect DEF rowVars, workVars
<1>4. ASSUME NEW o \in Ops, FlowStep(o) \/ BillFails(o)
      PROVE  TallyStands'
  <2>1. UNCHANGED <<pc, cur, tally, zipped>>
    BY <1>4, FlowEffect
  <2>2. pc \in {"zip", "finish"} => \A x \in OpsOf(cur) : op'[x] = op[x]
    BY <1>0, <1>4, FlowRows
  <2> QED
    BY <1>a, <2>1, <2>2
<1>5. CASE TakeBatch \/ LoadJob \/ ClaimBatch \/ NextOperation \/ StopForCancel
           \/ OperationReturned \/ OperationRaised
  <2>1. pc \notin {"zip", "finish"} /\ pc' \notin {"zip", "finish"} /\ zipped' = zipped
    BY <1>5 DEF TakeBatch, LoadJob, ClaimBatch, NextOperation, StopForCancel, OperationReturned,
                OperationRaised
  <2> QED
    BY <1>0, <2>1 DEF TallyStands
<1>6. CASE CountRows
  <2>1. /\ cur' = cur /\ cur \in Batches /\ op' = op /\ ~zipped'
        /\ tally' = [completed |-> Cardinality(RowsIn(cur, {"completed"})),
                     failed |-> Cardinality(RowsIn(cur, {"failed"}))]
    BY <1>0, <1>6 DEF CountRows, rowVars
  <2>2. \A S : RowsIn(cur, S)' = RowsIn(cur, S)
    BY <2>1, RowsKept
  <2> QED
    BY <2>1, <2>2 DEF TallyStands
<1>7. CASE AttachBatchZip
  <2>1. /\ cur' = cur /\ cur \in Batches /\ tally' = tally /\ pc = "zip" /\ pc' = "finish"
        /\ \A o \in RowsIn(cur, {"completed"}) : op'[o].zip
        /\ \A o \in OpsOf(cur) : op'[o].status = op[o].status
    BY <1>7, ZipEffect, OwnOps
  <2>2. \A S : RowsIn(cur, S)' = RowsIn(cur, S)
    BY <2>1, RowsKept
  <2> QED
    BY <1>0, <2>1, <2>2 DEF TallyStands
<1>8. CASE ZipFails
  <2>1. UNCHANGED <<cur, tally, zipped, op>> /\ pc = "zip" /\ cur \in Batches
    BY <1>0, <1>8 DEF ZipFails, rowVars
  <2>2. \A S : RowsIn(cur, S)' = RowsIn(cur, S)
    BY <2>1, RowsKept
  <2> QED
    BY <1>0, <2>1, <2>2 DEF TallyStands
<1>9. CASE Finalize \/ BatchFaults \/ Crash
  <2>1. pc' = "idle" /\ zipped' = FALSE
    BY <1>9 DEF Finalize, BatchFaults, Crash
  <2> QED
    BY <2>1 DEF TallyStands
<1>10. CASE Tick
  BY <1>a, <1>10 DEF Tick, rowVars, workVars
<1>11. CASE Restart
  BY <1>a, <1>11, RestartEffect
<1> QED
  BY <1>1, <1>2, <1>3, <1>4, <1>5, <1>6, <1>7, <1>8, <1>9, <1>10, <1>11 DEF Next, WorkerStep

\* FinalStands is kept.
LEMMA FinalStandsStep ==
    ASSUME IInv, Next PROVE FinalStands'
<1>0. /\ FinalStands /\ batch \in [Batches -> BatchRow] /\ op \in [Ops -> OpRow]
      /\ cur \in Batches => batch[cur].status \in Open
  BY DEF IInv, TypeOK, QueueStands
<1>a. ASSUME NEW b \in Batches, batch'[b] = batch[b] \/ batch'[b].status \notin Finalised,
             batch[b].status \in Finalised => \A o \in OpsOf(b) : op'[o] = op[o],
             faults' = 0 => faults = 0
      PROVE  FinalStands!(b)'
  <2>1. batch[b].status \in Finalised => \A S : RowsIn(b, S)' = RowsIn(b, S)
    BY <1>a, RowsKept
  <2> QED
    BY <1>0, <1>a, <2>1 DEF FinalStands, RowsIn
<1>1. ASSUME NEW b \in Batches,
             AcceptBatch(b) \/ CreateBatch(b) \/ Submit(b) \/ InlineReturns(b) \/ CancelBatch(b)
      PROVE  FinalStands'
  <2>1. UNCHANGED <<op, faults>>
    BY <1>1 DEF AcceptBatch, CreateBatch, Submit, InlineReturns, CancelBatch, rowVars, envVars
  <2>2. \A d \in Batches : batch'[d] = batch[d] \/ batch'[d].status \in {"queued", "canceled"}
    BY <1>0, <1>1 DEF AcceptBatch, CreateBatch, Submit, InlineReturns, CancelBatch, rowVars, BatchRow
  <2> QED
    BY <1>a, <2>1, <2>2 DEF FinalStands, Finalised, Terminal
<1>2. ASSUME NEW b \in Batches, CreateQueuedOperations(b)
      PROVE  FinalStands'
  <2>1. /\ batch' = batch /\ batch[b].status \in Open
        /\ \A o \in Ops : o \notin OpsOf(b) => op'[o] = op[o]
        /\ faults' = 0 => faults = 0
    BY <1>2, QueuedEffect DEF IInv, TypeOK
  <2>2. \A d \in Batches : batch[d].status \in Finalised => \A o \in OpsOf(d) : op'[o] = op[o]
    BY <2>1, OwnOps DEF Open, Finalised, Active, Terminal
  <2> QED
    BY <1>a, <2>1, <2>2 DEF FinalStands
<1>3. ASSUME NEW o \in Singles, AcceptSingle(o) \/ TimeOut(o) \/ AnswerSingle(o)
      PROVE  FinalStands'
  BY <1>a, <1>3, SingleEffect DEF rowVars, envVars, FinalStands
<1>4. ASSUME NEW o \in Ops, FlowStep(o) \/ BillFails(o)
      PROVE  FinalStands'
  <2>1. batch' = batch /\ (faults' = 0 => faults = 0)
    BY <1>4, FlowEffect, FlowRows
  <2>2. \A d \in Batches : batch[d].status \in Finalised => \A x \in OpsOf(d) : op'[x] = op[x]
    BY <1>0, <1>4, FlowRows DEF Open, Finalised, Active, Terminal
  <2> QED
    BY <1>a, <2>1, <2>2 DEF FinalStands
<1>5. CASE WorkerStep \/ ZipFails \/ BatchFaults
  <2>1. /\ faults' = 0 => faults = 0
        /\ \A d \in Batches : d # cur => batch'[d] = batch[d] /\ \A o \in OpsOf(d) : op'[o] = op[o]
    BY <1>5, WorkerEffect
  <2>2. ASSUME NEW d \in Batches, d # cur PROVE FinalStands!(d)'
    BY <1>a, <2>1, <2>2
  <2>3. ASSUME NEW c \in Batches, c = cur, ~Finalize PROVE FinalStands!(c)'
    <3>1. batch'[c] = batch[c] \/ batch'[c].status = "processing"
      BY <1>0, <1>5, <2>3 DEF WorkerStep, TakeBatch, LoadJob, ClaimBatch, NextOperation,
         StopForCancel, OperationReturned, OperationRaised, CountRows, AttachBatchZip, ZipFails,
         BatchFaults, rowVars, BatchRow
    <3>2. batch'[c].status \notin Finalised
      BY <1>0, <2>3, <3>1 DEF Open, Active, Finalised, Terminal
    <3> QED
      BY <3>2
  <2>4. ASSUME NEW c \in Batches, c = cur, Finalize PROVE FinalStands!(c)'
    <3>1. pc = "finish" /\ op' = op /\ todo = <<>> /\ faults' = faults
      BY <2>4 DEF Finalize, envVars, IInv, TypeOK, WorkerStands
    <3>2. \A S : RowsIn(c, S)' = RowsIn(c, S)
      BY <3>1, RowsKept
    <3>3. /\ tally \in [completed : Nat, failed : Nat]
          /\ tally.completed = Cardinality(RowsIn(c, {"completed"}))
          /\ tally.failed = Cardinality(RowsIn(c, {"failed"}))
          /\ zipped => \A o \in RowsIn(c, {"completed"}) : op[o].zip
      BY <2>4, <3>1 DEF IInv, TypeOK, TallyStands
    <3>4. faults = 0 => RowsIn(c, Active) = {}
      BY <2>4, <3>1, EmptySequence DEF IInv, NothingLost
    <3>5. CASE batch[c].status \in Active
      <4>1. batch'[c] = [batch[c] EXCEPT !.status = Verdict(tally),
                !.completed = tally.completed, !.failed = tally.failed, !.zip = zipped]
        BY <1>0, <2>4, <3>1, <3>5 DEF Finalize
      <4>2. /\ batch'[c].status = Verdict(tally) /\ batch'[c].completed = tally.completed
            /\ batch'[c].failed = tally.failed /\ batch'[c].zip = zipped
        BY <1>0, <3>1, <4>1 DEF BatchRow
      <4>3. Verdict(tally) = Verdict([completed |-> tally.completed, failed |-> tally.failed])
        BY DEF Verdict
      <4> QED
        BY <3>1, <3>2, <3>3, <3>4, <4>2, <4>3
    <3>6. CASE batch[c].status \notin Active
      <4>1. batch'[c] = batch[c]
        BY <1>0, <2>4, <3>1, <3>6 DEF Finalize
      <4> QED
        BY <1>0, <2>4, <3>1, <3>6, <4>1 DEF Open, Finalised
    <3> QED
      BY <3>1, <3>5, <3>6
  <2> QED
    BY <2>2, <2>3, <2>4 DEF FinalStands
<1>6. CASE Tick
  BY <1>a, <1>6 DEF Tick, rowVars, FinalStands
<1>7. CASE Crash
  BY <1>a, <1>7 DEF Crash, rowVars, FinalStands
<1>8. CASE Restart
  <2>1. UNCHANGED <<batch, faults>> /\ \A o \in Ops \ Singles : op'[o] = op[o]
    BY <1>8, RestartEffect
  <2>2. \A d \in Batches : \A o \in OpsOf(d) : op'[o] = op[o]
    BY <2>1, OwnOps
  <2> QED
    BY <1>a, <2>1, <2>2 DEF FinalStands
<1> QED
  BY <1>1, <1>2, <1>3, <1>4, <1>5, <1>6, <1>7, <1>8 DEF Next

\* NothingLost is kept: whoever lets go of a pending row hands it on.
LEMMA NothingLostStep ==
    ASSUME IInv, Next PROVE NothingLost'
<1>0. /\ NothingLost /\ faults \in Nat /\ op \in [Ops -> OpRow] /\ batch \in [Batches -> BatchRow]
      /\ cur \in Batches \cup {None} /\ None \notin Batches /\ (pc = "idle" <=> cur = None)
      /\ request \in [Batches -> {"idle", "accepted", "enveloped", "created", "waiting",
                                  "answered"}]
      /\ todo \in Seq(Ops) /\ queue \in Seq(Batches)
      /\ pc \in {"idle", "load", "claim", "next", "run", "zip", "finish"}
  BY BatchAssumption DEF IInv, TypeOK, WorkerStands
<1>q. live \subseteq ToSet(queue) /\ cur \notin ToSet(queue)
  BY DEF IInv, QueueStands
<1>b. CASE faults' # 0
  BY <1>b DEF NothingLost
<1>c. CASE faults' = 0
  <2>0. faults = 0 \/ ~(faults' \in {faults, faults + 1})
    BY <1>0, <1>c
  <2>1. ASSUME NEW b \in Batches,
               AcceptBatch(b) \/ CreateBatch(b) \/ Submit(b) \/ InlineReturns(b) \/ CancelBatch(b)
        PROVE  NothingLost'
    <3>1. UNCHANGED <<pc, cur, todo, flow, op, done, up, faults>>
      BY <2>1 DEF AcceptBatch, CreateBatch, Submit, InlineReturns, CancelBatch, rowVars,
                  workVars, envVars
    <3>2. /\ \A d \in Batches : \A S : RowsIn(d, S)' = RowsIn(d, S)
          /\ RowsIn(cur, Active)' = RowsIn(cur, Active)
      BY <3>1, RowsKept DEF RowsIn
    <3>3. /\ ToSet(queue) \subseteq ToSet(queue') /\ live \subseteq live'
          /\ \A d \in Batches : request[d] \in {"enveloped", "created"} =>
                request'[d] = request[d] \/ d \in ToSet(queue')
      <4>1. CASE AcceptBatch(b) \/ CreateBatch(b) \/ InlineReturns(b) \/ CancelBatch(b)
        BY <1>0, <4>1 DEF AcceptBatch, CreateBatch, InlineReturns, CancelBatch, workVars
      <4>2. CASE Submit(b)
        <5>1. /\ queue' = Append(queue, b) /\ live' = live \cup {b}
              /\ \A d \in Batches : d # b => request'[d] = request[d]
          BY <1>0, <4>2 DEF Submit
        <5>2. ToSet(queue') = ToSet(queue) \cup {b}
          BY <1>0, <5>1, AppendSet
        <5> QED
          BY <5>1, <5>2
      <4> QED
        BY <2>1, <4>1, <4>2
    <3>4. \A d \in Batches : batch[d].status = "canceled" =>
             batch'[d].status = "canceled" \/ request[d] = "accepted"
      BY <1>0, <2>1 DEF AcceptBatch, CreateBatch, Submit, InlineReturns, CancelBatch, rowVars,
                        BatchRow
    <3>5. \A d \in Batches : request[d] = "accepted" => batch[d].status = "absent"
      BY DEF IInv, RequestsStand
    <3>6. \A d \in Batches : request'[d] = "waiting" => request[d] = "waiting" \/ d \in live'
      BY <1>0, <2>1 DEF AcceptBatch, CreateBatch, Submit, InlineReturns, CancelBatch
    <3> QED
      BY <1>0, <1>c, <3>1, <3>2, <3>3, <3>4, <3>5, <3>6 DEF NothingLost
  <2>2. ASSUME NEW b \in Batches, CreateQueuedOperations(b)
        PROVE  NothingLost'
    <3>1. /\ UNCHANGED <<batch, queue, live, pc, cur, todo, flow, done, up>> /\ b # cur
          /\ \A o \in Ops : o \notin OpsOf(b) => op'[o] = op[o]
          /\ request' = [request EXCEPT ![b] = "created"] /\ faults' = faults
      BY <1>0, <1>c, <2>2, QueuedEffect
    <3>2. /\ \A d \in Batches : d # b => \A S : RowsIn(d, S)' = RowsIn(d, S)
          /\ cur \in Batches => \A S : RowsIn(cur, S)' = RowsIn(cur, S)
      BY <3>1, OwnOps, RowsKept
    <3>3. \A o \in Singles : op'[o] = op[o]
      BY <3>1, OwnOps DEF Ops
    <3> QED
      BY <1>0, <1>c, <3>1, <3>2, <3>3 DEF NothingLost
  <2>3. ASSUME NEW o \in Singles, AcceptSingle(o) \/ TimeOut(o) \/ AnswerSingle(o)
        PROVE  NothingLost'
    <3>1. /\ UNCHANGED <<batch, op, queue, live, pc, cur, todo, request, done, up, faults>>
          /\ \A x \in Ops : x # o => flow'[x] = flow[x]
          /\ flow'[o] = "gone" \/ (flow'[o] = "screen" /\ op[o].status = "absent")
      BY <2>3, SingleEffect DEF rowVars, workVars, envVars
    <3>2. /\ \A d \in Batches : \A S : RowsIn(d, S)' = RowsIn(d, S)
          /\ RowsIn(cur, Active)' = RowsIn(cur, Active)
      BY <3>1, RowsKept DEF RowsIn
    <3>3. \A x \in Singles : x \in Ops
      BY DEF Ops
    <3> QED
      BY <1>0, <1>c, <3>1, <3>2, <3>3 DEF NothingLost, Active
  <2>4. ASSUME NEW o \in Ops, FlowStep(o) \/ BillFails(o)
        PROVE  NothingLost'
    <3>1. /\ UNCHANGED <<batch, queue, live, pc, cur, todo, request, done, up>> /\ faults = 0
          /\ \A x \in Ops : x # o => flow'[x] = flow[x] /\ op'[x] = op[x]
          /\ FlowMove(o) /\ faults' = faults
      BY <1>c, <2>4, FlowEffect, FlowRow, FlowRows
    <3>2. o \in Singles \/ (pc = "run" /\ o \in ToSet(todo))
      BY <2>4, FlowEffect, FlowOwner, HeadOwned
    <3>3. cur \in Batches => RowsIn(cur, Active)' \subseteq RowsIn(cur, Active) \cup {o}
      BY <3>1, OwnOps DEF RowsIn
    <3>4. pc = "run" => RowsIn(cur, Active)' \subseteq ToSet(todo)
      <4>1. pc = "run" => cur \in Batches
        BY <1>0
      <4>2. pc = "run" /\ o \in Singles => o \notin OpsOf(cur)
        BY <4>1, OwnOps
      <4> QED
        BY <1>0, <3>1, <3>2, <3>3, <4>1, <4>2 DEF NothingLost, RowsIn
    <3>5. /\ \A b \in Batches : b # cur \/ pc # "run" => \A S : RowsIn(b, S)' = RowsIn(b, S)
          /\ pc # "run" /\ cur \in Batches => \A S : RowsIn(cur, S)' = RowsIn(cur, S)
      BY <2>4, <3>1, FlowRows
    <3>6. ASSUME NEW x \in Singles, op'[x].status \in Active, up
          PROVE  flow'[x] \in {"render", "upload", "bill", "gone"}
      <4>1. CASE x # o
        BY <1>0, <3>1, <3>6, <4>1 DEF NothingLost, Ops
      <4>2. CASE x = o
        <5>1. flow[o] = "screen" => op[o].status = "absent"
          BY <3>6, <4>2 DEF IInv, FlowsStand
        <5>2. flow[o] \in {"bill", "register"} => op[o].status = "completed"
          BY DEF IInv, FlowsStand
        <5> QED
          BY <3>1, <3>6, <4>2, <5>1, <5>2 DEF FlowMove, Active, NoFault
      <4> QED
        BY <4>1, <4>2
    <3> QED
      BY <1>0, <1>c, <3>1, <3>4, <3>5, <3>6 DEF NothingLost
  <2>5. CASE WorkerStep \/ ZipFails \/ BatchFaults
    <3>1. /\ up /\ UNCHANGED <<request, up>> /\ faults = 0
          /\ \A d \in Batches : d # cur => batch'[d] = batch[d] /\ \A S : RowsIn(d, S)' = RowsIn(d, S)
          /\ \A o \in Singles : op'[o] = op[o] /\ flow'[o] = flow[o]
      BY <1>c, <2>5, WorkerEffect
    <3>2. SUFFICES
            /\ pc' \in {"claim", "next", "run", "zip", "finish"} =>
                  RowsIn(cur, Active)' \subseteq ToSet(todo')
            /\ \A d \in Batches :
                  /\ RowsIn(d, Active)' # {} =>
                        \/ d \in ToSet(queue') \/ d = cur' \/ request[d] \in {"enveloped", "created"}
                        \/ batch'[d].status = "canceled"
                  /\ request[d] = "waiting" => d \in live' \/ d = cur' \/ d \in done'
      BY <1>0, <3>1, <3>2 DEF NothingLost
    <3>3. CASE TakeBatch
      <4>1. /\ pc = "idle" /\ cur = None /\ queue # <<>> /\ queue' = Tail(queue)
            /\ UNCHANGED <<op, batch, done>> /\ live' = live \ {Head(queue)}
        BY <1>0, <3>3 DEF TakeBatch, rowVars
      <4>2. /\ ToSet(queue') = ToSet(queue) \ {Head(queue)} /\ Head(queue) \in Batches
            /\ Head(queue) \in ToSet(queue)
        BY <1>0, <4>1, TailSet DEF IInv, QueueStands
      <4>3. pc' = "claim" => cur' \in Batches /\ todo' = BatchOps[cur']
        BY <3>3, <4>1, <4>2 DEF TakeBatch
      <4>4. pc' = "claim" => RowsIn(cur, Active)' \subseteq ToSet(todo')
        BY <4>3 DEF RowsIn, OpsOf
      <4>5. \/ cur' = Head(queue) /\ pc' \in {"claim", "load"}
            \/ /\ UNCHANGED <<cur, pc>> /\ Head(queue) \notin live
               /\ batch[Head(queue)].status = "canceled"
        <5>1. batch[Head(queue)].status \in Open
          BY <4>2 DEF IInv, QueueStands
        <5> QED
          BY <3>3, <5>1 DEF TakeBatch, Open
      <4> QED
        BY <1>0, <1>q, <3>1, <4>1, <4>2, <4>4, <4>5 DEF NothingLost
    <3>4. CASE StopForCancel
      <4>1. /\ pc' = "idle" /\ batch[cur].status = "canceled" /\ done' = done \cup {cur}
            /\ UNCHANGED <<batch, queue, live>>
        BY <3>4 DEF StopForCancel, rowVars
      <4> QED
        BY <1>0, <3>1, <4>1 DEF NothingLost
    <3>5. CASE Finalize
      <4>1. /\ pc = "finish" /\ pc' = "idle" /\ done' = done \cup {cur} /\ op' = op /\ cur \in Batches
            /\ UNCHANGED <<queue, live>> /\ todo = <<>>
        BY <1>0, <3>5 DEF Finalize, IInv, WorkerStands
      <4>2. RowsIn(cur, Active) = {}
        BY <3>1, <4>1, EmptySequence DEF NothingLost, IInv
      <4>3. \A d \in Batches : \A S : RowsIn(d, S)' = RowsIn(d, S)
        BY <4>1, RowsKept
      <4> QED
        BY <1>0, <3>1, <4>1, <4>2, <4>3 DEF NothingLost
    <3>6. CASE LoadJob \/ ClaimBatch \/ NextOperation \/ OperationReturned \/ OperationRaised
               \/ CountRows \/ AttachBatchZip
      <4>1. cur \in Batches /\ UNCHANGED <<queue, live, cur, done>>
        BY <1>0, <3>6 DEF LoadJob, ClaimBatch, NextOperation, OperationReturned, OperationRaised,
                          CountRows, AttachBatchZip
      <4>2. RowsIn(cur, Active)' \subseteq ToSet(todo')
        <5>1. CASE LoadJob
          <6>1. /\ \A o \in OpsOf(cur) : op[o].status \notin Active => op'[o] = op[o]
                /\ \/ \A o \in OpsOf(cur) : op[o].status \in Active => op'[o].status = "failed"
                   \/ op' = op /\ ToSet(todo') = RowsIn(cur, Active)
            BY <5>1, LoadEffect
          <6> QED
            BY <4>1, <6>1 DEF RowsIn, Active
        <5>2. CASE ClaimBatch \/ NextOperation \/ CountRows
          <6>1. UNCHANGED <<op, todo>> /\ pc \in {"claim", "next"}
            BY <5>2 DEF ClaimBatch, NextOperation, CountRows, rowVars
          <6> QED
            BY <3>1, <4>1, <6>1 DEF IInv, NothingLost, RowsIn
        <5>3. CASE OperationReturned \/ OperationRaised
          <6>1. todo # <<>> /\ pc = "run" /\ todo' = Tail(todo)
            BY <5>3 DEF OperationReturned, OperationRaised, IInv, FlowsOwned
          <6>2. op'[Head(todo)].status \notin Active
            <7>1. CASE OperationReturned
              BY <6>1, <7>1, HeadOwned DEF OperationReturned, rowVars, IInv, FlowsStand, Active
            <7>2. CASE OperationRaised
              <8>1. FailOperation(Head(todo)) /\ Head(todo) \in Ops /\ TypeOK
                BY <6>1, <7>2, HeadOwned DEF OperationRaised, IInv
              <8>2. op'[Head(todo)].status \in {"absent", "failed"}
                BY <1>0, <1>c, <3>1, <8>1, FailEffect
              <8> QED
                BY <8>2 DEF Active
            <7> QED
              BY <5>3, <7>1, <7>2
          <6>3. \A o \in Ops : o # Head(todo) => op'[o] = op[o]
            BY <5>3, <6>1, HeadOwned, FailEffect DEF OperationReturned, OperationRaised, rowVars, IInv
          <6>4. RowsIn(cur, Active) \subseteq ToSet(todo)
            BY <3>1, <6>1 DEF IInv, NothingLost
          <6> QED
            BY <4>1, <6>1, <6>2, <6>3, <6>4, HeadOwned, OwnOps DEF RowsIn
        <5>4. CASE AttachBatchZip
          <6>1. /\ todo' = todo /\ pc = "zip"
                /\ \A o \in OpsOf(cur) : op'[o].status = op[o].status
            BY <5>4, ZipEffect, OwnOps
          <6> QED
            BY <3>1, <4>1, <6>1 DEF IInv, NothingLost, RowsIn
        <5> QED
          BY <3>6, <5>1, <5>2, <5>3, <5>4
      <4> QED
        BY <1>0, <3>1, <4>1, <4>2 DEF NothingLost
    <3>7. CASE ZipFails \/ BatchFaults
      BY <1>0, <1>c, <3>1, <3>7 DEF ZipFails, BatchFaults, Fault
    <3> QED
      BY <2>5, <3>3, <3>4, <3>5, <3>6, <3>7 DEF WorkerStep
  <2>6. CASE Tick
    <3>1. /\ UNCHANGED <<batch, op, queue, live, pc, cur, todo, flow, request, done, up, faults>>
      BY <2>6 DEF Tick, rowVars, workVars
    <3> QED
      BY <1>0, <3>1 DEF NothingLost, RowsIn
  <2>7. CASE Crash
    <3>1. ~up' /\ pc' = "idle" /\ \A d \in Batches : request'[d] # "waiting"
      BY <2>7 DEF Crash
    <3> QED
      BY <3>1 DEF NothingLost
  <2>8. CASE Restart
    <3>1. /\ UNCHANGED <<batch, pc, cur, todo, request, faults, flow>> /\ pc = "idle" /\ ~up
          /\ \A o \in Ops : o \notin Singles \/ op[o].status \notin Active => op'[o] = op[o]
          /\ \A o \in Singles : op[o].status \in Active => op'[o].status = "failed"
          /\ ToSet(queue') = {b \in Batches : batch[b].status \in Active}
      BY <2>8, RestartEffect
    <3>2. \A d \in Batches : \A S : RowsIn(d, S)' = RowsIn(d, S)
      BY <3>1, RowsKept, OwnOps
    <3>3. \A d \in Batches : request[d] \in {"idle", "answered"}
      BY <3>1 DEF IInv, RequestsStand
    <3>4. \A d \in Batches : RowsIn(d, Active) # {} => batch[d].status \in Open
      <4>1. ASSUME NEW d \in Batches, RowsIn(d, Active) # {} PROVE batch[d].status \in Open
        <5>1. batch[d].status # "absent"
          BY <4>1 DEF IInv, RequestsStand, RowsIn
        <5>2. batch[d].status \notin Finalised
          BY <1>0, <1>c, <3>1, <4>1 DEF IInv, FinalStands
        <5> QED
          BY <1>0, <5>1, <5>2 DEF BatchRow, Open, Finalised
      <4> QED
        BY <4>1
    <3>5. \A o \in Singles : op'[o].status \notin Active
      BY <3>1 DEF Active, Ops
    <3> QED
      BY <3>1, <3>2, <3>3, <3>4, <3>5 DEF NothingLost, Open
  <2> QED
    BY <2>1, <2>2, <2>3, <2>4, <2>5, <2>6, <2>7, <2>8 DEF Next
<1> QED
  BY <1>b, <1>c

\* Nothing has happened yet.
LEMMA InitInv == Init => IInv
<1> SUFFICES ASSUME Init PROVE IInv
  OBVIOUS
<1>1. TypeOK
  BY TypeInit
<1>2. /\ \A o \in Ops : op[o].status = "absent" /\ flow[o] = "idle"
      /\ \A b \in Batches : batch[b].status = "absent" /\ request[b] = "idle"
      /\ billed = {} /\ queue = <<>> /\ live = {} /\ todo = <<>> /\ cur = None /\ pc = "idle"
      /\ ~zipped /\ up
  BY DEF Init, NoOp, NoBatch
<1>3. \A S : \A b \in Batches : RowsIn(b, S) = {o \in OpsOf(b) : "absent" \in S}
  BY <1>2, OwnOps DEF RowsIn
<1>4. FlowsOwned /\ FlowsStand /\ Charged
  BY <1>2 DEF FlowsOwned, FlowsStand, Charged, RunSteps
<1>5. RequestsStand
  BY <1>2, <1>3 DEF RequestsStand, Active, Settled
<1>6. QueueStands /\ WorkerStands
  <2>1. None \notin ToSet(queue)
    BY <1>2, EmptySequence
  <2> QED
    BY <1>2, <2>1, EmptySequence, BatchAssumption DEF QueueStands, WorkerStands
<1>7. TallyStands /\ FinalStands
  BY <1>2 DEF TallyStands, FinalStands, Finalised, Terminal
<1>8. NothingLost
  <2>1. \A o \in Singles : op[o].status \notin Active
    BY <1>2 DEF Ops, Active
  <2>2. \A b \in Batches : RowsIn(b, Active) = {}
    BY <1>3 DEF Active
  <2> QED
    BY <1>2, <2>1, <2>2 DEF NothingLost
<1> QED
  BY <1>1, <1>4, <1>5, <1>6, <1>7, <1>8 DEF IInv

\* The invariant is kept by every step.
LEMMA StepInv == IInv /\ [Next]_vars => IInv'
<1> SUFFICES ASSUME IInv, [Next]_vars PROVE IInv'
  OBVIOUS
<1>1. TypeOK'
  BY TypeStep
<1>2. CASE Next
  BY <1>1, <1>2, FlowsOwnedStep, FlowsStandStep, ChargedStep, RequestsStandStep, QueueStandsStep,
     WorkerStandsStep, TallyStandsStep, FinalStandsStep, NothingLostStep DEF IInv
<1>3. CASE UNCHANGED vars
  <2>1. UNCHANGED <<batch, op, billed, expiring, queue, live, cur, pc, todo, tally, zipped, flow,
                    request, done, up, crashes, faults>>
    BY <1>3 DEF vars, rowVars, workVars, envVars
  <2>2. FlowsOwned' /\ FlowsStand' /\ Charged'
    BY <2>1 DEF IInv, FlowsOwned, FlowsStand, Charged
  <2>3. RequestsStand' /\ QueueStands' /\ WorkerStands'
    BY <2>1 DEF IInv, RequestsStand, QueueStands, WorkerStands, RowsIn
  <2>4. TallyStands' /\ FinalStands' /\ NothingLost'
    BY <2>1 DEF IInv, TallyStands, FinalStands, NothingLost, RowsIn
  <2> QED
    BY <1>1, <2>2, <2>3, <2>4 DEF IInv
<1> QED
  BY <1>2, <1>3

-----------------------------------------------------------------------------
(* The theorems *)

\* The envelope, the rows, the flows, the queue and the worker of _run_batch_id and
\* process_batch agree as IInv says, in every reachable state: across requests that
\* interleave with the worker, a cancel, a failed store call, a crash and a restart.
THEOREM Inductive == Spec => []IInv
BY InitInv, StepInv, PTL DEF Spec

\* Every variable has its type.
THEOREM TypeCorrect == Spec => []TypeOK
<1>1. IInv => TypeOK
  BY DEF IInv
<1> QED
  BY <1>1, Inductive, PTL

\* Money follows the row: perceive_flow.run charges completed operations only, and without
\* a crash or a failed store call it charges each, with its artifacts registered.
THEOREM BillingFollowsRows == Spec => []BilledIffCompleted
<1>1. IInv => BilledIffCompleted
  BY DEF IInv, BilledIffCompleted, FlowsStand, Charged, TypeOK
<1> QED
  BY <1>1, Inductive, PTL

\* A pending row is with the worker, in the queue, or with its own request; and whoever
\* waits for a job waits for one that is still to end, or has set its event.
THEOREM PendingIsOwned == Spec => []PendingOwned
<1>1. IInv => PendingOwned
  BY DEF IInv, PendingOwned, NothingLost, QueueStands
<1> QED
  BY <1>1, Inductive, PTL

\* The status a poll computes from settled rows is the verdict of their counts.
LEMMA StatusOfSettled ==
    ASSUME NEW b \in Batches, op \in [Ops -> OpRow], RowsIn(b, Active) = {}, Rows(b) # {}
    PROVE  StatusOfRows(b) = Verdict([completed |-> Cardinality(RowsIn(b, {"completed"})),
                                      failed |-> Cardinality(RowsIn(b, {"failed"}))])
<1> DEFINE C == RowsIn(b, {"completed"})
           F == RowsIn(b, {"failed"})
<1>1. /\ IsFiniteSet(C) /\ IsFiniteSet(F) /\ Cardinality(C) \in Nat /\ Cardinality(F) \in Nat
      /\ IsFiniteSet(RowsIn(b, Settled))
  BY RowsFinite
<1>2. \A o \in OpsOf(b) : op[o].status \in {"absent"} \cup Settled
  BY OwnOps DEF RowsIn, OpRow
<1>3. RowsIn(b, Settled) = C \cup F /\ C \cap F = {} /\ Rows(b) = C \cup F
  BY <1>2 DEF RowsIn, Rows, Settled
<1>4. Cardinality(C \cup F) = Cardinality(C) + Cardinality(F)
  <2>1. Cardinality(C \cap F) = 0
    BY <1>3, FS_EmptySet
  <2>2. Cardinality(C \cup F) = Cardinality(C) + Cardinality(F) - Cardinality(C \cap F)
    BY <1>1, FS_Union
  <2> QED
    BY <1>1, <2>1, <2>2
<1>5. Cardinality(C) + Cardinality(F) > 0
  <2>1. Cardinality(C \cup F) # 0
    BY <1>1, <1>3, FS_EmptySet
  <2> QED
    BY <1>1, <1>4, <2>1
<1> HIDE DEF C, F
<1>6. StatusOfRows(b) = IF Cardinality(F) = 0 THEN "completed"
                        ELSE IF Cardinality(C) = 0 THEN "failed" ELSE "partial"
  <2>1. RowsIn(b, {"failed"}) = F
    BY DEF F
  <2> QED
    BY <1>1, <1>3, <1>4, <1>5, <2>1 DEF StatusOfRows
<1> QED
  BY <1>6 DEF Verdict, C, F

\* The two accounts of a finalised batch, the counters _finalize_batch stored and the rows
\* a poll reads, agree for good, across restarts and whatever else runs.
THEOREM FinalCounts == Spec => []FinalBatchAgrees
<1>1. ASSUME IInv PROVE FinalBatchAgrees
  <2> SUFFICES ASSUME NEW b \in Batches, batch[b].status \in Finalised
               PROVE  FinalBatchAgrees!(b)!2
    BY DEF FinalBatchAgrees, Finalised
  <2>1. /\ batch[b].completed = Cardinality(RowsIn(b, {"completed"}))
        /\ batch[b].failed = Cardinality(RowsIn(b, {"failed"}))
        /\ batch[b].zip => \A o \in RowsIn(b, {"completed"}) : op[o].zip
        /\ batch[b].status = Verdict([completed |-> batch[b].completed,
                                      failed |-> batch[b].failed])
        /\ faults = 0 => RowsIn(b, Active) = {}
    BY <1>1 DEF IInv, FinalStands
  <2>2. faults = 0 /\ Rows(b) # {} => StatusOfRows(b) = batch[b].status
    BY <1>1, <2>1, StatusOfSettled DEF IInv, TypeOK
  <2> QED
    BY <2>1, <2>2 DEF Reported, Finalised
<1> QED
  BY <1>1, Inductive, PTL

\* A terminal envelope never changes again, and the rows of a finalised batch do not
\* either: whichever of cancel, finalisation and restart comes first.
THEOREM TerminalIsFrozen == Spec => SettledFrozen
<1>1. IInv /\ [Next]_vars => [\A b \in Batches : batch[b].status \in Terminal =>
          /\ batch'[b] = batch[b]
          /\ batch[b].status # "canceled" => \A o \in OpsOf(b) : op'[o] = op[o]]_vars
  <2> SUFFICES ASSUME IInv, Next, NEW b \in Batches, batch[b].status \in Terminal
               PROVE  /\ batch'[b] = batch[b]
                      /\ batch[b].status \in Finalised => \A o \in OpsOf(b) : op'[o] = op[o]
    BY DEF Finalised
  <2>0. /\ batch \in [Batches -> BatchRow] /\ op \in [Ops -> OpRow]
        /\ batch[b].status \in Finalised => b # cur
        /\ request[b] # "accepted" /\ batch[b].status \notin Active
        /\ \A d \in Batches : d = cur => batch[d].status \in Open
    BY DEF IInv, TypeOK, QueueStands, RequestsStand, Open, Active, Terminal, Finalised
  <2>1. ASSUME NEW d \in Batches, AcceptBatch(d) \/ CreateBatch(d) \/ Submit(d)
                                  \/ InlineReturns(d) \/ CancelBatch(d)
        PROVE  batch'[b] = batch[b] /\ op' = op
    BY <2>0, <2>1 DEF AcceptBatch, CreateBatch, Submit, InlineReturns, CancelBatch, rowVars
  <2>2. ASSUME NEW d \in Batches, CreateQueuedOperations(d)
        PROVE  /\ batch'[b] = batch[b]
               /\ batch[b].status \in Finalised => \A o \in OpsOf(b) : op'[o] = op[o]
    <3>1. /\ batch' = batch /\ batch[d].status \in Open
          /\ \A o \in Ops : o \notin OpsOf(d) => op'[o] = op[o]
      BY <2>2, QueuedEffect
    <3>2. batch[b].status \in Finalised => b # d
      BY <3>1 DEF Open, Finalised, Active, Terminal
    <3> QED
      BY <3>1, <3>2, OwnOps
  <2>3. ASSUME NEW o \in Singles, AcceptSingle(o) \/ TimeOut(o) \/ AnswerSingle(o)
        PROVE  batch' = batch /\ op' = op
    BY <2>3, SingleEffect DEF rowVars
  <2>4. ASSUME NEW o \in Ops, FlowStep(o) \/ BillFails(o)
        PROVE  /\ batch' = batch
               /\ batch[b].status \in Finalised => \A x \in OpsOf(b) : op'[x] = op[x]
    BY <2>0, <2>4, FlowEffect, FlowRows
  <2>5. CASE WorkerStep \/ ZipFails \/ BatchFaults
    <3>1. b # cur => batch'[b] = batch[b] /\ \A o \in OpsOf(b) : op'[o] = op[o]
      BY <2>5, WorkerEffect
    <3>2. b = cur => batch'[b] = batch[b]
      BY <2>0, <2>5 DEF WorkerStep, TakeBatch, LoadJob, ClaimBatch, NextOperation, StopForCancel,
         OperationReturned, OperationRaised, CountRows, AttachBatchZip, Finalize, ZipFails,
         BatchFaults, rowVars, BatchRow
    <3> QED
      BY <2>0, <3>1, <3>2
  <2>6. CASE Tick \/ Crash
    BY <2>6 DEF Tick, Crash, rowVars
  <2>7. CASE Restart
    <3>1. batch' = batch /\ \A o \in Ops : o \notin Singles => op'[o] = op[o]
      BY <2>7, RestartEffect
    <3> QED
      BY <3>1, OwnOps
  <2> QED
    BY <2>1, <2>2, <2>3, <2>4, <2>5, <2>6, <2>7 DEF Next
<1> QED
  BY <1>1, Inductive, PTL DEF Spec, SettledFrozen

=============================================================================
