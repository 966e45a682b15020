----------------------- MODULE DeviceSyncSafety_proofs -----------------------
(***************************************************************************)
(* The theorems of DeviceSync that hold while one batch is under way at a    *)
(* time (OneLoop): conflicts and queue agree, statuses follow the table, an  *)
(* edit is applied once, a conflict has a cause, and the queue implements    *)
(* EditQueue.  With two tabs a failure in one takes operations of the other  *)
(* back after they were answered, and only the causes still hold on the      *)
(* instances that were checked (README.md).                                *)
(***************************************************************************)
EXTENDS DeviceSync_proofs

OneLoop == \E l : Loops = {l}

-----------------------------------------------------------------------------
(* What a step does to the operations, the conflicts, the decisions, the     *)
(* feed and the records.                                                    *)

(* A repository changes a record and queues the operation that says so.       *)
Grows ==
  \E x \in Operations :
    /\ Extends(x) /\ \A i \in DOMAIN ops : ops'[i] = ops[i]
    /\ x.edit = Len(ops) + 1 /\ x.status = "PENDING" /\ x.base = records[x.entity].version
    /\ records'[x.entity].version = x.base + 1
    /\ \A d \in Entities : d # x.entity => records'[d] = records[d]
    /\ UNCHANGED <<feed, decided, conflicts>>

(* The queue, a failure, a sweep or a new window moves operations that wait.   *)
Moves ==
  /\ Restamped
  /\ \A i \in DOMAIN ops :
       \/ ops'[i].status = ops[i].status
       \/ ops[i].status = "PENDING" /\ ops'[i].status = "SYNCING"
       \/ ops[i].status \in {"SYNCING", "REQUIRES_REVALIDATION"} /\ ops'[i].status = "PENDING"
  /\ UNCHANGED <<feed, decided, conflicts, records>>

(* The answers to a batch are written down.                                  *)
Noted(i) ==
  /\ ops[i].status = "SYNCING"
  /\ \/ /\ decided[i].status = "APPLIED"
        /\ ops'[i].status = "SYNCED" /\ conflicts'[i] = conflicts[i]
     \/ /\ decided[i].type = "EDIT_DELETE"
        /\ ops'[i].status = "REJECTED" /\ conflicts'[i].status = "RESOLVED"
     \/ /\ decided[i].status = "CONFLICT" /\ decided[i].type = "EDIT_EDIT"
        /\ ops'[i].status = "CONFLICT" /\ conflicts'[i].status = "PENDING"
     \/ /\ ops'[i].status \in {"REJECTED", "DEVICE_REVOKED", "REQUIRES_REVALIDATION"}
        /\ conflicts'[i] = conflicts[i]

Reports ==
  /\ Restamped
  /\ \A i \in DOMAIN ops :
       (ops'[i].status = ops[i].status /\ conflicts'[i] = conflicts[i]) \/ Noted(i)
  /\ UNCHANGED <<feed, decided, records>>

Decides ==
  /\ \E o \in DOMAIN ops : Applies(o) \/ TurnsDown(o)
  /\ UNCHANGED <<ops, conflicts, records>>

Resolves == \E o \in DOMAIN ops : Settles(o) /\ (KeepsServer(o) \/ KeepsMine(o))

Pulls ==
  /\ \A e \in Entities :
       \/ records'[e].version = records[e].version
       \/ records[e].version < records'[e].version /\ records'[e].version <= Row(e).version
  /\ UNCHANGED <<feed, decided, ops, conflicts>>

PeersEdit ==
  /\ \E x \in Entries : x.edit = MaxOps + Len(feed) + 1 /\ feed' = Append(feed, x)
  /\ UNCHANGED <<decided, ops, conflicts, records>>

Steps == Grows \/ Moves \/ Reports \/ Decides \/ Resolves \/ Pulls \/ PeersEdit

-----------------------------------------------------------------------------
(* A batch that was picked is PENDING until it is sent and SYNCING until the   *)
(* answer: nothing else takes its operations in between.                     *)

BatchesHeld ==
  \A l \in Loops :
    /\ pc[l] = "collected" => \A i \in InBatch(l) : ops[i].status = "PENDING"
    /\ InFlight(l) => \A i \in InBatch(l) : ops[i].status = "SYNCING"

LEMMA GrowsSteps ==
  ASSUME Sound, NEW e \in Entities,
         CreateProject(e) \/ CreateBelow(e) \/ Update(e) \/ Delete(e)
  PROVE  Grows /\ UNCHANGED <<server, loop>>
<1>1. /\ ops \in Seq(Operations) /\ Len(ops) <= MaxOps /\ records \in [Entities -> Records]
      /\ records[e].version \in Nat
  BY DEF Sound, Typed, Records
<1>2. PICK kind \in {"CREATE", "UPDATE", "DELETE"}, base \in Nat :
        base = records[e].version /\ Change(e, kind, base, base + 1)
  <2>1. CASE CreateProject(e) \/ CreateBelow(e)
    <3>1. ~Exists(records[e]) /\ Change(e, "CREATE", 0, 1)
      BY <2>1 DEF CreateProject, CreateBelow
    <3>2. records[e].version = 0 /\ 0 + 1 = 1
      BY <1>1, <3>1 DEF Exists
    <3> QED
      BY <3>1, <3>2
  <2>2. CASE Update(e) \/ Delete(e)
    BY <1>1, <2>2 DEF Update, Delete
  <2> QED
    BY <2>1, <2>2
<1>3. base + 1 \in Nat
  BY <1>2
<1>4. PICK x \in Operations :
        /\ Extends(x) /\ \A i \in DOMAIN ops : ops'[i] = ops[i]
        /\ x.entity = e /\ x.kind = kind /\ x.base = base /\ x.edit = Len(ops) + 1
        /\ x.status = "PENDING"
        /\ \A d \in Entities : d # e => records'[d] = records[d]
        /\ records'[e].version = base + 1
        /\ UNCHANGED <<server, conflicts, cursor, loop, faults>>
  BY <1>1, <1>2, <1>3, ChangeExtends
<1> QED
  BY <1>2, <1>4 DEF Grows, server

(* What a move of some operations does.                                      *)
LEMMA MovesSteps ==
  ASSUME Sound, NEW S, NEW from \in {"SYNCING", "REQUIRES_REVALIDATION"}, NEW delayed \in BOOLEAN,
         ops' = Requeue(S, delayed), \A i \in DOMAIN ops : i \in S => ops[i].status = from,
         UNCHANGED <<feed, decided, conflicts, records>>
  PROVE  Moves
<1>1. ops \in Seq(Operations)
  BY DEF Sound, Typed
<1>2. /\ Restamped
      /\ \A i \in DOMAIN ops : i \in S => ops'[i].status = "PENDING"
      /\ \A i \in DOMAIN ops : i \notin S => ops'[i] = ops[i]
  BY <1>1, RequeueRestamps
<1>3. ASSUME NEW i \in DOMAIN ops
      PROVE  \/ ops'[i].status = ops[i].status
             \/ ops[i].status \in {"SYNCING", "REQUIRES_REVALIDATION"} /\ ops'[i].status = "PENDING"
  BY <1>2
<1> QED
  BY <1>2, <1>3 DEF Moves

LEMMA StillMoves ==
  ASSUME Sound, UNCHANGED <<feed, decided, conflicts, records, ops>>
  PROVE  Moves
<1>1. ops \in Seq(Operations)
  BY DEF Sound, Typed
<1>2. Restamped
  BY <1>1, StillRestamps
<1> QED
  BY <1>2 DEF Moves

LEMMA SendMoves ==
  ASSUME Sound, BatchesHeld, NEW l \in Loops, Send(l)
  PROVE  Moves
<1>1. ops \in Seq(Operations) /\ "SYNCING" \in Statuses
  BY DEF Sound, Typed, Statuses
<1>2. ops' = Set(InBatch(l), "SYNCING") /\ pc[l] = "collected"
      /\ UNCHANGED <<feed, decided, conflicts, records>>
  BY DEF Send, server
<1>3. /\ Restamped
      /\ \A i \in DOMAIN ops : i \in InBatch(l) => ops'[i].status = "SYNCING"
      /\ \A i \in DOMAIN ops : i \notin InBatch(l) => ops'[i] = ops[i]
  BY <1>1, <1>2, MarkRestamps
<1>4. \A i \in DOMAIN ops : i \in InBatch(l) => ops[i].status = "PENDING"
  BY <1>2 DEF BatchesHeld
<1> QED
  BY <1>2, <1>3, <1>4 DEF Moves

LEMMA FailureMoves ==
  ASSUME Sound, BatchesHeld, NEW l \in Loops, TransportFails(l)
  PROVE  Moves
<1>1. /\ ops' = Requeue(InBatch(l), TRUE) /\ InFlight(l)
      /\ UNCHANGED <<feed, decided, conflicts, records>>
  BY DEF TransportFails
<1>2. \A i \in DOMAIN ops : i \in InBatch(l) => ops[i].status = "SYNCING"
  BY <1>1 DEF BatchesHeld
<1> QED
  BY <1>1, <1>2, MovesSteps

LEMMA RestartMoves ==
  ASSUME Sound, NEW l \in Loops, Restart(l)
  PROVE  Moves
<1>1. PICK dangling : dangling = {i \in DOMAIN ops : ops[i].status = "SYNCING"}
  OBVIOUS
<1>2. /\ \E sweep \in Sweeps : ops' = IF sweep THEN Requeue(dangling, FALSE) ELSE ops
      /\ UNCHANGED <<feed, decided, conflicts, records>>
  BY <1>1, Zenon DEF Restart
<1>3. CASE ops' = Requeue(dangling, FALSE)
  <2>1. \A i \in DOMAIN ops : i \in dangling => ops[i].status = "SYNCING"
    BY <1>1
  <2> QED
    BY <1>2, <1>3, <2>1, MovesSteps
<1>4. CASE ops' = ops
  BY <1>2, <1>4, StillMoves
<1> QED
  BY <1>2, <1>3, <1>4

LEMMA WindowMoves ==
  ASSUME Sound, Revalidated
  PROVE  Moves
<1>1. PICK held : held = {i \in DOMAIN ops : ops[i].status = "REQUIRES_REVALIDATION"}
  OBVIOUS
<1>2. /\ ops' = Requeue(held, FALSE)
      /\ UNCHANGED <<feed, decided, conflicts, records>>
  BY <1>1, Zenon DEF Revalidated, server
<1>3. \A i \in DOMAIN ops : i \in held => ops[i].status = "REQUIRES_REVALIDATION"
  BY <1>1
<1> QED
  BY <1>2, <1>3, MovesSteps

LEMMA DelayMoves ==
  ASSUME Sound, NEW i \in DOMAIN ops, DelayEnds(i)
  PROVE  Moves
<1>1. ops \in Seq(Operations)
  BY DEF Sound, Typed
<1>2. Restamped /\ \A j \in DOMAIN ops : ops'[j].status = ops[j].status
  BY <1>1, DelayRestamps DEF DelayEnds
<1> QED
  BY <1>2 DEF DelayEnds, Moves, server

LEMMA ReplyReports ==
  ASSUME Sound, BatchesHeld, NEW l \in Loops, Reply(l)
  PROVE  Reports
<1>1. /\ Restamped /\ UNCHANGED <<feed, decided, records>>
      /\ pc[l] = "answered"
      /\ \A o \in 1 .. MaxOps : o \notin InBatch(l) => conflicts'[o] = conflicts[o]
      /\ \A o \in DOMAIN ops : o \notin InBatch(l) => ops'[o] = ops[o]
      /\ \A o \in InBatch(l) :
           \E n \in DOMAIN answers[l] : batch[l][n] = o /\ Told(o, answers[l][n])
  BY ReplyCases DEF server
<1>2. \A o \in InBatch(l) : ops[o].status = "SYNCING"
  BY <1>1 DEF BatchesHeld, InFlight
<1>3. DOMAIN ops \subseteq 1 .. MaxOps
  BY QueueDomain DEF Sound, Typed
<1>4. ASSUME NEW i \in DOMAIN ops, i \in InBatch(l)
      PROVE  (ops'[i].status = ops[i].status /\ conflicts'[i] = conflicts[i]) \/ Noted(i)
  <2>1. PICK n \in DOMAIN answers[l] : Told(i, answers[l][n])
    BY <1>1, <1>4
  <2> QED
    BY <1>2, <1>4, <2>1 DEF Told, Noted
<1>5. ASSUME NEW i \in DOMAIN ops, i \notin InBatch(l)
      PROVE  ops'[i].status = ops[i].status /\ conflicts'[i] = conflicts[i]
  BY <1>1, <1>3, <1>5
<1> QED
  BY <1>1, <1>4, <1>5 DEF Reports

LEMMA EvaluateSteps ==
  ASSUME Sound, NEW o \in DOMAIN ops, NEW answer, Evaluate(o, answer),
         UNCHANGED <<ops, conflicts, records>>
  PROVE  Moves \/ Decides
<1>1. Typed /\ Decision(o)
  BY OperationTyped DEF Sound, Decisions
<1>2. Repeats \/ Applies(o) \/ TurnsDown(o)
  BY <1>1, EvaluateCases
<1>3. CASE Repeats
  BY <1>3, StillMoves DEF Repeats
<1>4. CASE Applies(o) \/ TurnsDown(o)
  BY <1>4 DEF Decides
<1> QED
  BY <1>2, <1>3, <1>4

LEMMA ServeSteps ==
  ASSUME Sound, NEW l \in Loops, Serve(l)
  PROVE  Moves \/ Decides
<1>1. pc[l] = "served" /\ UNCHANGED <<ops, conflicts, records>>
  BY DEF Serve, client
<1>2. PICK o : o = Head(Rest(l))
  OBVIOUS
<1>3. PICK answer : Evaluate(o, answer)
  BY <1>2 DEF Serve
<1>4. o \in DOMAIN ops
  BY <1>1, <1>2, RestTyped DEF Sound
<1> QED
  BY <1>1, <1>3, <1>4, EvaluateSteps

LEMMA OrphanSteps ==
  ASSUME Sound, NEW s \in orphans, ServeOrphan(s)
  PROVE  Moves \/ Decides
<1>1. UNCHANGED <<ops, conflicts, records>>
  BY DEF ServeOrphan, client
<1>2. PICK o : o = Head(s)
  OBVIOUS
<1>3. PICK answer : Evaluate(o, answer)
  BY <1>2 DEF ServeOrphan
<1>4. o \in DOMAIN ops
  <2>1. s \in Seq(1 .. MaxOps) /\ s # <<>> /\ \A n \in DOMAIN s : s[n] \in DOMAIN ops
    BY DEF Sound, Typed, Requests
  <2>2. PICK R : R = 1 .. MaxOps
    OBVIOUS
  <2>3. s \in Seq(R)
    BY <2>1, <2>2
  <2>4. Head(s) = s[1] /\ 1 \in DOMAIN s
    BY <2>1, <2>3
  <2> QED
    BY <1>2, <2>1, <2>4
<1> QED
  BY <1>1, <1>3, <1>4, EvaluateSteps

LEMMA PullSteps ==
  ASSUME Sound, NEW k \in cursor + 1 .. Len(feed), Pull(k)
  PROVE  Pulls
<1>1. Typed
  BY DEF Sound
<1>2. UNCHANGED <<feed, decided, ops, conflicts>>
  BY DEF Pull, server
<1>3. ASSUME NEW e \in Entities
      PROVE  \/ records'[e].version = records[e].version
             \/ records[e].version < records'[e].version /\ records'[e].version <= Row(e).version
  <2>1. CASE News(e, k) = {}
    BY <1>1, <2>1, PullCases
  <2>2. CASE News(e, k) # {}
    <3>1. PICK last \in News(e, k) : records'[e].version = VersionAt(last)
      <4>1. PICK last \in News(e, k) :
              records'[e] = [version |-> VersionAt(last), deleted |-> feed[last].tombstone,
                             edits |-> records[e].edits \cup {feed[i].edit : i \in News(e, k)}]
        BY <1>1, <2>2, PullCases
      <4> QED
        BY <4>1
    <3>2. last \in Changes(e) /\ VersionAt(last) > records[e].version
      BY DEF News
    <3>3. feed \in Seq(Entries) /\ VersionAt(last) \in Nat /\ VersionAt(last) <= Row(e).version
          /\ records[e].version \in Nat
      BY <1>1, <3>2, CurrentTyped
    <3> QED
      BY <3>1, <3>2, <3>3
  <2> QED
    BY <2>1, <2>2
<1> QED
  BY <1>2, <1>3 DEF Pulls

LEMMA StepKinds ==
  ASSUME Sound, BatchesHeld, [Next]_vars
  PROVE  Steps
<1>1. CASE Next
  <2>1. ASSUME NEW e \in Entities,
               CreateProject(e) \/ CreateBelow(e) \/ Update(e) \/ Delete(e)
        PROVE  Grows
    BY <2>1, GrowsSteps
  <2>2. ASSUME NEW l \in Loops, Push(l) \/ TransportFails(l) \/ Restart(l)
        PROVE  Moves \/ Decides \/ Reports
    <3>1. CASE Collect(l)
      BY <3>1, StillMoves DEF Collect, server, client
    <3>2. CASE Gate(l)
      BY <3>2, StillMoves DEF Gate, server, client
    <3> QED
      BY <2>2, <3>1, <3>2, SendMoves, ServeSteps, ReplyReports, FailureMoves, RestartMoves DEF Push
  <2>3. ASSUME NEW s \in orphans, ServeOrphan(s)
        PROVE  Moves \/ Decides
    BY <2>3, OrphanSteps
  <2>4. ASSUME NEW e \in Entities, NEW tombstone \in BOOLEAN, PeerEdit(e, tombstone)
        PROVE  PeersEdit
    <3>1. \E x \in Entries : x.edit = MaxOps + Len(feed) + 1 /\ feed' = Append(feed, x)
      BY <2>4, PeerEditTyped DEF Sound
    <3> QED
      BY <2>4, <3>1 DEF PeerEdit, PeersEdit, client
  <2>5. ASSUME NEW i \in DOMAIN ops,
               DelayEnds(i) \/ \E r \in {"KEEP_SERVER", "KEEP_MINE"} : Resolve(i, r)
        PROVE  Moves \/ Resolves
    BY <2>5, DelayMoves, ResolveCases DEF Sound, Resolves
  <2>6. ASSUME NEW k \in cursor + 1 .. Len(feed), Pull(k)
        PROVE  Pulls
    BY <2>6, PullSteps
  <2>7. ASSUME DeviceChanges PROVE Moves
    <3>1. UNCHANGED <<feed, decided, conflicts, records, ops>>
      BY <2>7 DEF DeviceChanges, client
    <3> QED
      BY <3>1, StillMoves
  <2> QED
    BY <1>1, <2>1, <2>2, <2>3, <2>4, <2>5, <2>6, <2>7, WindowMoves DEF Next, Steps
<1>2. CASE UNCHANGED vars
  BY <1>2, StillMoves DEF vars, server, client, Steps
<1> QED
  BY <1>1, <1>2

(* A step that leaves the batch, and the operations that are in one.          *)
LEMMA HeldKept ==
  ASSUME Requests, BatchesHeld, pc' = pc, batch' = batch,
         \A i \in DOMAIN ops :
           ops[i].status \in {"PENDING", "SYNCING"} => ops'[i].status = ops[i].status
  PROVE  BatchesHeld'
<1>1. SUFFICES ASSUME NEW l \in Loops
               PROVE  /\ pc[l] = "collected" => \A i \in InBatch(l) : ops'[i].status = "PENDING"
                      /\ InFlight(l) => \A i \in InBatch(l) : ops'[i].status = "SYNCING"
  BY DEF BatchesHeld, InFlight, InBatch
<1>2. InBatch(l) \subseteq DOMAIN ops
  BY DEF Requests, Request
<1> QED
  BY <1>2 DEF BatchesHeld

LEMMA FinishHolds ==
  ASSUME OneLoop, Typed, NEW l \in Loops, Finish(l)
  PROVE  BatchesHeld'
<1>1. Loops = {l} /\ pc'[l] = "idle"
  BY DEF OneLoop, Finish, Typed
<1> QED
  BY <1>1 DEF BatchesHeld, InFlight

LEMMA BatchStepHolds ==
  ASSUME OneLoop, Sound, BatchesHeld, NEW l \in Loops, Push(l)
  PROVE  BatchesHeld'
<1>1. Loops = {l} /\ pc \in [Loops -> Places] /\ batch \in [Loops -> Seq(1 .. MaxOps)]
      /\ ops \in Seq(Operations) /\ Len(ops) <= MaxOps /\ Typed /\ Requests
  BY DEF OneLoop, Sound, Typed
<1>2. CASE Collect(l)
  <2>1. PICK seq \in NextBatch : batch' = [batch EXCEPT ![l] = seq]
    BY <1>2 DEF Collect
  <2>2. \A n \in DOMAIN seq : seq[n] \in Eligible
    BY <1>1, BatchFits
  <2>3. batch'[l] = seq /\ pc'[l] = "collected" /\ ops' = ops
    BY <1>1, <1>2, <2>1 DEF Collect, client
  <2>4. \A n \in DOMAIN batch'[l] : ops'[batch'[l][n]].status = "PENDING"
    BY <2>2, <2>3 DEF Eligible
  <2> QED
    BY <1>1, <2>3, <2>4 DEF BatchesHeld, InFlight, InBatch
<1>3. CASE Send(l)
  <2>1. /\ ops' = Set(InBatch(l), "SYNCING") /\ pc'[l] = "sent" /\ batch' = batch
    BY <1>1, <1>3 DEF Send
  <2>2. InBatch(l) \subseteq DOMAIN ops /\ "SYNCING" \in Statuses
    BY <1>1, BatchMember DEF Statuses
  <2>3. \A i \in InBatch(l) : ops'[i].status = "SYNCING"
    BY <1>1, <2>1, <2>2, MarkRestamps
  <2> QED
    BY <1>1, <2>1, <2>3 DEF BatchesHeld, InBatch
<1>4. CASE Gate(l) \/ Serve(l)
  <2>1. InFlight(l) /\ ops' = ops /\ batch' = batch /\ pc'[l] \in {"served", "answered"}
    BY <1>1, <1>4 DEF Gate, Serve, InFlight, client
  <2> QED
    BY <1>1, <2>1 DEF BatchesHeld, InFlight, InBatch
<1>5. CASE Reply(l)
  <2>1. Finish(l)
    BY <1>5, ReplyCases
  <2> QED
    BY <1>1, <2>1, FinishHolds
<1> QED
  BY <1>2, <1>3, <1>4, <1>5 DEF Push

LEMMA BatchesStayHeld ==
  ASSUME OneLoop, Sound, BatchesHeld, ConflictsMatchQueue, [Next]_vars
  PROVE  BatchesHeld'
<1>1. /\ Typed /\ Requests /\ ops \in Seq(Operations)
      /\ \A i \in DOMAIN ops : ops[i] \in Operations
  BY DEF Sound, Typed
<1>2. CASE Next
  <2>1. ASSUME NEW e \in Entities,
               CreateProject(e) \/ CreateBelow(e) \/ Update(e) \/ Delete(e)
        PROVE  BatchesHeld'
    <3>1. Grows /\ UNCHANGED loop
      BY <2>1, GrowsSteps
    <3> QED
      BY <1>1, <3>1, HeldKept DEF Grows, loop
  <2>2. ASSUME NEW l \in Loops, Push(l) \/ TransportFails(l) \/ Restart(l)
        PROVE  BatchesHeld'
    BY <1>1, <2>2, BatchStepHolds, FinishHolds DEF TransportFails, Restart
  <2>3. ASSUME NEW s \in orphans, ServeOrphan(s)
        PROVE  BatchesHeld'
    BY <1>1, <2>3, HeldKept DEF ServeOrphan, client, loop
  <2>4. ASSUME NEW e \in Entities, NEW tombstone \in BOOLEAN, PeerEdit(e, tombstone)
        PROVE  BatchesHeld'
    BY <1>1, <2>4, HeldKept DEF PeerEdit, client, loop
  <2>5. ASSUME NEW i \in DOMAIN ops, DelayEnds(i) \/ \E r \in {"KEEP_SERVER", "KEEP_MINE"} : Resolve(i, r)
        PROVE  BatchesHeld'
    <3>1. CASE DelayEnds(i)
      <4>1. \A j \in DOMAIN ops : ops'[j].status = ops[j].status
        BY <1>1, <3>1, DelayRestamps DEF DelayEnds
      <4> QED
        BY <1>1, <3>1, <4>1, HeldKept DEF DelayEnds, loop
    <3>2. CASE \E r \in {"KEEP_SERVER", "KEEP_MINE"} : Resolve(i, r)
      <4>1. Settles(i)
        BY <1>1, <3>2, ResolveCases
      <4>2. ops[i].status = "CONFLICT"
        BY <4>1 DEF Settles, ConflictsMatchQueue
      <4> QED
        BY <1>1, <4>1, <4>2, HeldKept DEF Settles, loop
    <3> QED
      BY <2>5, <3>1, <3>2
  <2>6. ASSUME NEW k \in cursor + 1 .. Len(feed), Pull(k)
        PROVE  BatchesHeld'
    BY <1>1, <2>6, HeldKept DEF Pull, loop
  <2>7. CASE DeviceChanges
    <3>1. pc' = pc /\ batch' = batch /\ ops' = ops
      BY <2>7 DEF DeviceChanges, client, loop
    <3> QED
      BY <1>1, <3>1, HeldKept
  <2>8. CASE Revalidated
    <3>1. PICK held : held = {i \in DOMAIN ops : ops[i].status = "REQUIRES_REVALIDATION"}
      OBVIOUS
    <3>2. ops' = Requeue(held, FALSE) /\ pc' = pc /\ batch' = batch
      BY <2>8, <3>1, Zenon DEF Revalidated, loop
    <3>3. \A i \in DOMAIN ops : i \notin held => ops'[i] = ops[i]
      BY <1>1, <3>2, RequeueRestamps
    <3> QED
      BY <1>1, <3>1, <3>2, <3>3, HeldKept
  <2> QED
    BY <1>2, <2>1, <2>2, <2>3, <2>4, <2>5, <2>6, <2>7, <2>8 DEF Next
<1>3. CASE UNCHANGED vars
  <2>1. pc' = pc /\ batch' = batch /\ ops' = ops
    BY <1>3 DEF vars, client, loop
  <2> QED
    BY <1>1, <2>1, HeldKept
<1> QED
  BY <1>2, <1>3

(* The new operation of a step has no conflict.                              *)
LEMMA FreshOperation ==
  ASSUME Sound, NEW x \in Operations, Extends(x)
  PROVE  /\ Len(ops) + 1 \in 1 .. MaxOps /\ Len(ops) \in Nat /\ DOMAIN ops = 1 .. Len(ops)
         /\ decided[Len(ops) + 1] = NoAnswer /\ conflicts[Len(ops) + 1].status = "NONE"
<1>1. ops \in Seq(Operations) /\ Len(ops) <= MaxOps /\ \A i \in 1 .. MaxOps : Decision(i)
  BY DEF Sound, Typed, Decisions
<1>2. Len(ops) \in Nat /\ DOMAIN ops = 1 .. Len(ops) /\ MaxOps \in Nat
  BY <1>1, QueueDomain, DeviceAssumption
<1>3. Len(ops') = Len(ops) + 1 /\ Len(ops') <= MaxOps /\ Len(ops) + 1 \notin DOMAIN ops
  BY DEF Extends
<1>4. Len(ops) + 1 \in 1 .. MaxOps
  BY <1>2, <1>3
<1> QED
  BY <1>1, <1>2, <1>3, <1>4 DEF Decision

LEMMA ConflictsStayMatched ==
  ASSUME Sound, ConflictsMatchQueue, Steps
  PROVE  ConflictsMatchQueue'
<1> DEFINE Matched(i) == /\ conflicts[i].status = "PENDING" <=> ops[i].status = "CONFLICT"
                         /\ conflicts[i].status = "RESOLVED" => ops[i].status = "REJECTED"
<1>1. \A i \in DOMAIN ops : Matched(i)
  BY DEF ConflictsMatchQueue
<1>2. /\ Typed /\ DOMAIN ops \subseteq 1 .. MaxOps
      /\ \A i \in DOMAIN ops : ops[i] \in Operations /\ conflicts[i] \in ConflictRecords
  BY QueueDomain DEF Sound, Typed
<1>3. SUFFICES ASSUME NEW i \in DOMAIN ops' PROVE Matched(i)'
  BY DEF ConflictsMatchQueue
<1>4. CASE Grows
  <2>1. PICK x \in Operations :
          /\ Extends(x) /\ \A j \in DOMAIN ops : ops'[j] = ops[j]
          /\ x.status = "PENDING" /\ conflicts' = conflicts
    BY <1>4 DEF Grows
  <2>2. CASE i \in DOMAIN ops
    BY <1>1, <2>1, <2>2
  <2>3. CASE i = Len(ops) + 1
    BY <2>1, <2>3, FreshOperation DEF Extends
  <2> QED
    BY <2>1, <2>2, <2>3 DEF Extends
<1>5. CASE Moves
  BY <1>1, <1>2, <1>5 DEF Moves, Restamped
<1>6. CASE Reports
  <2>1. i \in DOMAIN ops /\ ((ops'[i].status = ops[i].status /\ conflicts'[i] = conflicts[i]) \/ Noted(i))
    BY <1>6 DEF Reports, Restamped
  <2> QED
    BY <1>1, <1>2, <2>1 DEF Noted
<1>7. CASE Decides \/ Pulls \/ PeersEdit
  BY <1>1, <1>7 DEF Decides, Pulls, PeersEdit
<1>8. CASE Resolves
  <2>1. PICK o \in DOMAIN ops : Settles(o) /\ (KeepsServer(o) \/ KeepsMine(o))
    BY <1>8 DEF Resolves
  <2>2. CASE i \in DOMAIN ops
    BY <1>1, <1>2, <2>1, <2>2 DEF Settles
  <2>3. ASSUME i \notin DOMAIN ops PROVE Matched(i)'
    <3>1. PICK x \in Operations : Extends(x) /\ x.status = "PENDING"
      BY <2>1, <2>3 DEF KeepsServer, Restamped, KeepsMine
    <3>2. i = Len(ops) + 1 /\ ops'[i] = x
      BY <2>3, <3>1 DEF Extends
    <3>3. conflicts'[i] = conflicts[i]
      BY <2>1, <2>3, <3>1, <3>2, FreshOperation DEF Settles
    <3> QED
      BY <3>1, <3>2, <3>3, FreshOperation
  <2> QED
    BY <2>2, <2>3
<1> QED
  BY <1>4, <1>5, <1>6, <1>7, <1>8 DEF Steps

Held == Sound /\ BatchesHeld /\ ConflictsMatchQueue

LEMMA HeldAtFirst ==
  ASSUME Init
  PROVE  Held
<1>1. Sound
  BY SoundAtFirst
<1>2. BatchesHeld /\ ConflictsMatchQueue
  BY DEF Init, BatchesHeld, ConflictsMatchQueue, InFlight
<1> QED
  BY <1>1, <1>2 DEF Held

LEMMA HeldStays ==
  ASSUME OneLoop, Held, [Next]_vars
  PROVE  Held' /\ Steps
  BY SoundStays, BatchesStayHeld, ConflictsStayMatched, StepKinds DEF Held

LEMMA AlwaysHeld ==
  ASSUME OneLoop
  PROVE  Spec => []Held
<1>1. Init => Held
  BY HeldAtFirst
<1>2. Held /\ [Next]_vars => Held'
  BY HeldStays
<1> QED
  BY <1>1, <1>2, PTL DEF Spec

(* An unresolved conflict locks a record as long as its operation waits in    *)
(* the queue, and no longer.                                                *)
THEOREM TheConflictsMatchTheQueue ==
  ASSUME OneLoop
  PROVE  Spec => []ConflictsMatchQueue
<1>1. Held => ConflictsMatchQueue
  BY DEF Held
<1> QED
  BY <1>1, AlwaysHeld, PTL

-----------------------------------------------------------------------------
(* The table of transitions.                                                *)

LEMMA TableAllows ==
  /\ \A s, t : isValidSyncStatusTransition(s, s, t, "KEEP_SERVER")
  /\ \A t : /\ isValidSyncStatusTransition("PENDING", "SYNCING", t, "KEEP_SERVER")
            /\ isValidSyncStatusTransition("REQUIRES_REVALIDATION", "PENDING", t, "KEEP_SERVER")
            /\ \A s \in {"SYNCED", "CONFLICT", "REJECTED", "REQUIRES_REVALIDATION",
                         "DEVICE_REVOKED", "PENDING"} :
                 isValidSyncStatusTransition("SYNCING", s, t, "KEEP_SERVER")
  /\ isValidSyncStatusTransition("CONFLICT", "REJECTED", "EDIT_EDIT", "KEEP_SERVER")
  /\ isValidSyncStatusTransition("CONFLICT", "PENDING", "EDIT_EDIT", "KEEP_MINE")
  BY DEF isValidSyncStatusTransition, ALLOWED_SYNC_STATUS_TRANSITIONS, resolveConflictOperationStatus

(* What StatusesFollowTable asks of an operation.                            *)
AsTableHas(i) ==
  IF Resolved(i) /\ Resolution = "KEEP_MINE"
  THEN /\ ops'[i].status = "REJECTED"
       /\ CarriesOn(Len(ops'), i)
       /\ isValidSyncStatusTransition("CONFLICT", ops'[Len(ops')].status,
                                      decided[i].type, "KEEP_MINE")
  ELSE isValidSyncStatusTransition(ops[i].status, ops'[i].status, decided[i].type, "KEEP_SERVER")

(* The fresh operation that KEEP_MINE queues is the last of the queue.        *)
LEMMA KeepMineFollows ==
  ASSUME Held, NEW o \in DOMAIN ops, Settles(o), KeepsMine(o), decided[o].type = "EDIT_EDIT"
  PROVE  /\ Resolution = "KEEP_MINE" /\ ops'[o].status = "REJECTED"
         /\ CarriesOn(Len(ops'), o)
         /\ isValidSyncStatusTransition("CONFLICT", ops'[Len(ops')].status,
                                        decided[o].type, "KEEP_MINE")
<1>1. PICK x \in Operations :
        /\ Extends(x) /\ x.entity = ops[o].entity /\ x.kind = ops[o].kind
        /\ x.edit = ops[o].edit /\ x.status = "PENDING"
  BY DEF KeepsMine
<1>2. Len(ops) \in Nat
  BY QueueDomain DEF Held, Sound, Typed
<1>3. Len(ops') = Len(ops) + 1 /\ ops'[Len(ops')] = x
  BY <1>1, <1>2 DEF Extends
<1>4. Resolution = "KEEP_MINE" /\ CarriesOn(Len(ops'), o)
  BY <1>1, <1>2, <1>3 DEF Resolution, CarriesOn
<1>5. isValidSyncStatusTransition("CONFLICT", "PENDING", decided[o].type, "KEEP_MINE")
  BY TableAllows
<1> QED
  BY <1>1, <1>3, <1>4, <1>5 DEF Settles

LEMMA StepsFollowTable ==
  ASSUME Held, Steps, NEW i \in DOMAIN ops
  PROVE  AsTableHas(i) /\ (ops[i].status = "REJECTED" => ops'[i].status = "REJECTED")
<1> DEFINE Fine == isValidSyncStatusTransition(ops[i].status, ops'[i].status, decided[i].type,
                                               "KEEP_SERVER")
<1>0. ASSUME Fine, ~Resolved(i) \/ Resolution # "KEEP_MINE"
      PROVE  AsTableHas(i)
  BY <1>0 DEF AsTableHas
<1>1. /\ Typed /\ ConflictsMatchQueue /\ DOMAIN ops \subseteq 1 .. MaxOps
      /\ \A j \in 1 .. MaxOps : Decision(j)
  BY QueueDomain DEF Held, Sound, Typed, Decisions
<1>2. ASSUME ops'[i].status = ops[i].status
      PROVE  AsTableHas(i) /\ (ops[i].status = "REJECTED" => ops'[i].status = "REJECTED")
  BY <1>0, <1>2, TableAllows DEF Resolved
<1>3. CASE Grows
  BY <1>2, <1>3 DEF Grows
<1>4. CASE Moves
  <2>1. CASE ops[i].status = "PENDING" /\ ops'[i].status = "SYNCING"
    BY <1>0, <2>1, TableAllows DEF Resolved
  <2>2. CASE ops[i].status \in {"SYNCING", "REQUIRES_REVALIDATION"} /\ ops'[i].status = "PENDING"
    <3>1. CASE ops[i].status = "SYNCING"
      BY <1>0, <2>2, <3>1, TableAllows DEF Resolved
    <3>2. CASE ops[i].status = "REQUIRES_REVALIDATION"
      BY <1>0, <2>2, <3>2, TableAllows DEF Resolved
    <3> QED
      BY <2>2, <3>1, <3>2
  <2> QED
    BY <1>2, <1>4, <2>1, <2>2 DEF Moves
<1>5. CASE Reports
  <2>1. CASE Noted(i)
    <3>1. ops[i].status = "SYNCING"
          /\ ops'[i].status \in {"SYNCED", "CONFLICT", "REJECTED", "REQUIRES_REVALIDATION",
                                 "DEVICE_REVOKED", "PENDING"}
      BY <2>1 DEF Noted
    <3> QED
      BY <1>0, <3>1, TableAllows DEF Resolved
  <2> QED
    BY <1>2, <1>5, <2>1 DEF Reports
<1>6. CASE Decides \/ Pulls \/ PeersEdit
  BY <1>2, <1>6 DEF Decides, Pulls, PeersEdit
<1>7. CASE Resolves
  <2>1. PICK o \in DOMAIN ops : Settles(o) /\ (KeepsServer(o) \/ KeepsMine(o))
    BY <1>7 DEF Resolves
  <2>2. CASE i = o
    <3>1. ops[i].status = "CONFLICT" /\ ops'[i].status = "REJECTED"
      BY <1>1, <2>1, <2>2 DEF Settles, ConflictsMatchQueue
    <3>2. decided[i].type = "EDIT_EDIT"
      BY <1>1, <2>1, <2>2 DEF Settles, Decision
    <3>3. CASE KeepsServer(o)
      <4>1. Len(ops') = Len(ops) /\ Len(ops) \in Nat
        BY <1>1, <3>3, QueueDomain DEF KeepsServer, Restamped, Typed
      <4>2. Resolution = "KEEP_SERVER"
        BY <4>1 DEF Resolution
      <4> QED
        BY <1>0, <3>1, <3>2, <4>2, TableAllows
    <3>4. CASE KeepsMine(o)
      <4>1. /\ Resolution = "KEEP_MINE" /\ ops'[i].status = "REJECTED"
            /\ CarriesOn(Len(ops'), i)
            /\ isValidSyncStatusTransition("CONFLICT", ops'[Len(ops')].status,
                                           decided[i].type, "KEEP_MINE")
        BY <2>1, <2>2, <3>2, <3>4, KeepMineFollows
      <4>2. Resolved(i)
        BY <3>1 DEF Resolved
      <4> QED
        BY <3>1, <4>1, <4>2 DEF AsTableHas
    <3> QED
      BY <2>1, <3>3, <3>4
  <2>3. CASE i # o
    BY <1>2, <2>1, <2>3 DEF Settles
  <2> QED
    BY <2>2, <2>3
<1> QED
  BY <1>3, <1>4, <1>5, <1>6, <1>7 DEF Steps

(* No late answer, failure, sweep or resolution takes an edit along a         *)
(* transition that is not allowed with the resolution the user chose, where  *)
(* KEEP_MINE's step to PENDING is taken by a fresh operation with the edit   *)
(* and the operation itself ends REJECTED (conflict-resolution.ts:237-267);  *)
(* REJECTED is final.                                                       *)
THEOREM TheStatusesFollowTheTable ==
  ASSUME OneLoop
  PROVE  Spec => StatusesFollowTable
<1> DEFINE Follows ==
      \A i \in DOMAIN ops :
        /\ IF Resolved(i) /\ Resolution = "KEEP_MINE"
           THEN /\ ops'[i].status = "REJECTED"
                /\ CarriesOn(Len(ops'), i)
                /\ isValidSyncStatusTransition("CONFLICT", ops'[Len(ops')].status,
                                               decided[i].type, "KEEP_MINE")
           ELSE isValidSyncStatusTransition(ops[i].status, ops'[i].status,
                                            decided[i].type, "KEEP_SERVER")
        /\ ops[i].status = "REJECTED" => ops'[i].status = "REJECTED"
<1>1. Held /\ [Next]_vars => [Follows]_vars
  BY HeldStays, StepsFollowTable DEF AsTableHas
<1> QED
  BY <1>1, AlwaysHeld, PTL DEF Spec, StatusesFollowTable

-----------------------------------------------------------------------------
(* An edit is applied once.  It is named after its first operation; a later   *)
(* one of it is there only because the user kept an edit that was turned     *)
(* down, and decisions stand.                                               *)

Named == \A i \in DOMAIN ops : ops[i].edit <= i

KeptOnce ==
  \A i, j \in DOMAIN ops :
    i < j /\ ops[i].edit = ops[j].edit =>
      /\ decided[i].status = "CONFLICT" /\ decided[i].type = "EDIT_EDIT"
      /\ conflicts[i].status = "RESOLVED"

FromQueue ==
  \A n \in DOMAIN feed :
    /\ feed[n].edit > MaxOps => feed[n].edit = MaxOps + n
    /\ feed[n].edit <= MaxOps =>
         \E i \in DOMAIN ops : decided[i].status = "APPLIED" /\ ops[i].edit = feed[n].edit

EditsOnce == Named /\ KeptOnce /\ FromQueue /\ EditsApplyOnce

(* What no step undoes.                                                     *)
LEMMA HistoryStands ==
  ASSUME Held, Steps, NEW i \in DOMAIN ops
  PROVE  /\ i \in DOMAIN ops' /\ Same(ops'[i], ops[i]) /\ i \in 1 .. MaxOps
         /\ decided[i] # NoAnswer => decided'[i] = decided[i]
         /\ conflicts[i].status = "RESOLVED" => conflicts'[i].status = "RESOLVED"
<1>1. /\ Typed /\ ConflictsMatchQueue /\ i \in 1 .. MaxOps /\ decided \in [1 .. MaxOps -> Answers]
      /\ ops[i] \in Operations
  BY QueueDomain DEF Held, Sound, Typed
<1>2. CASE Grows
  BY <1>1, <1>2 DEF Grows, Extends
<1>3. CASE Moves
  BY <1>1, <1>3 DEF Moves, Restamped
<1>4. CASE Reports
  <2>1. conflicts[i].status = "RESOLVED" => ops[i].status = "REJECTED"
    BY <1>1 DEF ConflictsMatchQueue
  <2> QED
    BY <1>1, <1>4, <2>1 DEF Reports, Restamped, Noted
<1>5. CASE Decides
  <2>1. PICK o \in DOMAIN ops : Applies(o) \/ TurnsDown(o)
    BY <1>5 DEF Decides
  <2>2. decided[o] = NoAnswer /\ \A j \in 1 .. MaxOps : j # o => decided'[j] = decided[j]
    BY <1>1, <2>1 DEF Applies, TurnsDown
  <2> QED
    BY <1>1, <1>5, <2>2 DEF Decides, Same
<1>6. CASE Pulls \/ PeersEdit
  BY <1>1, <1>6 DEF Pulls, PeersEdit, Same
<1>7. CASE Resolves
  <2>1. PICK o \in DOMAIN ops : Settles(o) /\ (KeepsServer(o) \/ KeepsMine(o))
    BY <1>7 DEF Resolves
  <2>2. decided' = decided /\ (conflicts[i].status = "RESOLVED" => conflicts'[i].status = "RESOLVED")
    BY <1>1, <2>1 DEF Settles, server
  <2> QED
    BY <1>1, <2>1, <2>2 DEF KeepsServer, KeepsMine, Restamped, Extends
<1> QED
  BY <1>2, <1>3, <1>4, <1>5, <1>6, <1>7 DEF Steps

(* How the queue grows: by a new edit, or by one that the user keeps.         *)
LEMMA QueueGrows ==
  ASSUME Held, Steps, DOMAIN ops' # DOMAIN ops
  PROVE  \E x \in Operations :
           /\ Extends(x) /\ feed' = feed /\ decided' = decided /\ x.status = "PENDING"
           /\ \/ /\ x.edit = Len(ops) + 1 /\ x.base = records[x.entity].version
                 /\ records'[x.entity].version = x.base + 1
                 /\ \A d \in Entities : d # x.entity => records'[d] = records[d]
              \/ \E o \in DOMAIN ops :
                   /\ Settles(o) /\ x.entity = ops[o].entity /\ x.edit = ops[o].edit
                   /\ x.base \in {records[ops[o].entity].version, conflicts[o].version}
                   /\ x.base >= conflicts[o].version /\ x.base >= records[ops[o].entity].version
                   /\ records' = records
<1>1. Grows \/ Resolves
  BY DEF Steps, Moves, Reports, Decides, Pulls, PeersEdit, Restamped
<1>2. CASE Grows
  BY <1>2 DEF Grows
<1>3. CASE Resolves
  <2>1. PICK o \in DOMAIN ops : Settles(o) /\ KeepsMine(o)
    BY <1>3 DEF Resolves, KeepsServer, Restamped
  <2>2. feed' = feed /\ decided' = decided
    BY <2>1 DEF Settles, server
  <2> QED
    BY <2>1, <2>2 DEF KeepsMine
<1> QED
  BY <1>1, <1>2, <1>3

LEMMA NamedStays ==
  ASSUME Held, Steps, Named
  PROVE  Named'
<1>1. SUFFICES ASSUME NEW i \in DOMAIN ops' PROVE ops'[i].edit <= i
  BY DEF Named
<1>2. CASE i \in DOMAIN ops
  BY <1>2, HistoryStands DEF Named, Same
<1>3. CASE i \notin DOMAIN ops
  <2>1. PICK x \in Operations :
          /\ Extends(x)
          /\ x.edit = Len(ops) + 1 \/ \E o \in DOMAIN ops : x.edit = ops[o].edit
    BY <1>3, QueueGrows
  <2>2. i = Len(ops) + 1 /\ ops'[i] = x
    BY <1>3, <2>1 DEF Extends
  <2>3. Len(ops) \in Nat /\ DOMAIN ops = 1 .. Len(ops)
    BY <2>1, FreshOperation DEF Held
  <2>4. CASE x.edit = Len(ops) + 1
    BY <2>2, <2>3, <2>4
  <2>5. CASE \E o \in DOMAIN ops : x.edit = ops[o].edit
    <3>1. PICK o \in DOMAIN ops : x.edit = ops[o].edit
      BY <2>5
    <3>2. ops[o].edit <= o /\ o \in Nat /\ o <= Len(ops) /\ x.edit \in Nat
      BY <2>3, <3>1, OperationTyped DEF Named, Held, Sound, Operations
    <3> QED
      BY <2>2, <2>3, <3>1, <3>2
  <2> QED
    BY <2>1, <2>4, <2>5
<1> QED
  BY <1>2, <1>3

LEMMA KeptOnceStays ==
  ASSUME Held, Steps, Named, KeptOnce
  PROVE  KeptOnce'
<1>1. SUFFICES ASSUME NEW i \in DOMAIN ops', NEW j \in DOMAIN ops', i < j,
                      ops'[i].edit = ops'[j].edit
               PROVE  /\ decided'[i].status = "CONFLICT" /\ decided'[i].type = "EDIT_EDIT"
                      /\ conflicts'[i].status = "RESOLVED"
  BY DEF KeptOnce
<1>2. CASE i \in DOMAIN ops /\ j \in DOMAIN ops
  <2>1. ops[i].edit = ops[j].edit
    BY <1>1, <1>2, HistoryStands DEF Same
  <2>2. /\ decided[i].status = "CONFLICT" /\ decided[i].type = "EDIT_EDIT"
        /\ conflicts[i].status = "RESOLVED"
    BY <1>1, <1>2, <2>1 DEF KeptOnce
  <2>3. decided[i] # NoAnswer
    BY <2>2, PlainAnswers
  <2> QED
    BY <1>2, <2>2, <2>3, HistoryStands
<1>3. CASE ~(i \in DOMAIN ops /\ j \in DOMAIN ops)
  <2>1. DOMAIN ops' # DOMAIN ops
    BY <1>3
  <2>2. PICK x \in Operations :
          /\ Extends(x) /\ decided' = decided
          /\ x.edit = Len(ops) + 1 \/ \E o \in DOMAIN ops : Settles(o) /\ x.edit = ops[o].edit
    BY <2>1, QueueGrows
  <2>3. /\ Len(ops) \in Nat /\ DOMAIN ops = 1 .. Len(ops)
        /\ DOMAIN ops' = DOMAIN ops \cup {Len(ops) + 1} /\ ops'[Len(ops) + 1] = x
    BY <2>2, FreshOperation DEF Held, Extends
  <2>4. j = Len(ops) + 1 /\ i \in DOMAIN ops /\ ops[i].edit = x.edit
    BY <1>1, <1>3, <2>3, HistoryStands DEF Same
  <2>5. i \in Nat /\ ops[i].edit \in Nat /\ ops[i].edit <= i /\ i <= Len(ops)
    BY <2>3, <2>4, OperationTyped DEF Held, Sound, Operations, Named
  <2>6. x.edit # Len(ops) + 1
    BY <2>3, <2>4, <2>5
  <2>7. PICK o \in DOMAIN ops : Settles(o) /\ x.edit = ops[o].edit
    BY <2>2, <2>6
  <2>8. /\ o \in 1 .. MaxOps /\ Decision(o) /\ conflicts[o].status = "PENDING"
        /\ conflicts'[o].status = "RESOLVED" /\ o \in Nat
    BY <2>3, <2>7, HistoryStands DEF Settles, Held, Sound, Decisions
  <2>9. ~(o < i)
    BY <2>4, <2>7, <2>8 DEF KeptOnce
  <2>10. CASE i = o
    BY <2>2, <2>8, <2>10 DEF Decision
  <2>11. CASE i < o
    <3>1. /\ conflicts[i].status = "RESOLVED"
          /\ decided[i].status = "CONFLICT" /\ decided[i].type = "EDIT_EDIT"
      BY <2>4, <2>7, <2>11 DEF KeptOnce
    <3> QED
      BY <2>2, <2>4, <3>1, HistoryStands
  <2> QED
    BY <2>5, <2>8, <2>9, <2>10, <2>11
<1> QED
  BY <1>2, <1>3


(* A step that leaves the feed as it is.                                    *)
LEMMA FromQueueKept ==
  ASSUME Held, Steps, FromQueue, EditsApplyOnce, feed' = feed
  PROVE  FromQueue' /\ EditsApplyOnce'
<1>1. ASSUME NEW n \in DOMAIN feed, feed[n].edit <= MaxOps
      PROVE  \E i \in DOMAIN ops' : decided'[i].status = "APPLIED" /\ ops'[i].edit = feed[n].edit
  <2>1. PICK i \in DOMAIN ops : decided[i].status = "APPLIED" /\ ops[i].edit = feed[n].edit
    BY <1>1 DEF FromQueue
  <2>2. decided[i] # NoAnswer
    BY <2>1, PlainAnswers
  <2> QED
    BY <2>1, <2>2, HistoryStands DEF Same
<1> QED
  BY <1>1 DEF FromQueue, EditsApplyOnce

LEMMA FromQueueStays ==
  ASSUME Held, Steps, KeptOnce, FromQueue, EditsApplyOnce
  PROVE  FromQueue' /\ EditsApplyOnce'
<1>1. /\ Typed /\ feed \in Seq(Entries) /\ DOMAIN feed = 1 .. Len(feed) /\ Len(feed) \in Nat
      /\ MaxOps \in Nat /\ decided \in [1 .. MaxOps -> Answers]
      /\ \A n \in DOMAIN feed : feed[n].edit \in Nat
  <2>1. feed \in Seq(Entries) /\ MaxOps \in Nat /\ Typed /\ decided \in [1 .. MaxOps -> Answers]
    BY DeviceAssumption DEF Held, Sound, Typed
  <2>2. \A x \in Entries : x.edit \in Nat
    BY DEF Entries, Edits
  <2> QED
    BY <2>1, <2>2
<1>2. ASSUME NEW x \in Entries, feed' = Append(feed, x),
             x.edit > MaxOps => x.edit = MaxOps + Len(feed) + 1,
             x.edit <= MaxOps =>
               /\ \E i \in DOMAIN ops' : decided'[i].status = "APPLIED" /\ ops'[i].edit = x.edit
               /\ \A n \in DOMAIN feed : feed[n].edit # x.edit
      PROVE  FromQueue' /\ EditsApplyOnce'
  <2>1. PICK new : new = Len(feed) + 1
    OBVIOUS
  <2>2. /\ DOMAIN feed' = DOMAIN feed \cup {new} /\ new \notin DOMAIN feed
        /\ feed'[new] = x /\ \A n \in DOMAIN feed : feed'[n] = feed[n] /\ n < new
    BY <1>1, <1>2, <2>1, FeedGrows
  <2>3. ASSUME NEW n \in DOMAIN feed, feed[n].edit <= MaxOps
        PROVE  \E i \in DOMAIN ops' : decided'[i].status = "APPLIED" /\ ops'[i].edit = feed[n].edit
    <3>1. PICK i \in DOMAIN ops : decided[i].status = "APPLIED" /\ ops[i].edit = feed[n].edit
      BY <2>3 DEF FromQueue
    <3>2. decided[i] # NoAnswer
      BY <3>1, PlainAnswers
    <3> QED
      BY <3>1, <3>2, HistoryStands DEF Same
  <2>4. \A n \in DOMAIN feed : feed[n].edit > MaxOps => feed[n].edit = MaxOps + n
    BY DEF FromQueue
  <2>5. x.edit \in Nat /\ MaxOps + Len(feed) + 1 = MaxOps + new
    BY <1>1, <2>1 DEF Entries, Edits
  <2>6. FromQueue'
    BY <1>1, <1>2, <2>2, <2>3, <2>4, <2>5 DEF FromQueue
  <2>7. \A n \in DOMAIN feed : feed[n].edit # x.edit
    <3>1. CASE x.edit <= MaxOps
      BY <1>2, <3>1
    <3>2. CASE x.edit > MaxOps
      BY <1>1, <1>2, <2>1, <2>2, <2>4, <3>2
    <3> QED
      BY <1>1, <2>5, <3>1, <3>2
  <2>8. EditsApplyOnce'
    BY <2>2, <2>7 DEF EditsApplyOnce
  <2> QED
    BY <2>6, <2>8
<1>3. CASE Decides
  <2>1. PICK o \in DOMAIN ops : Applies(o) \/ TurnsDown(o)
    BY <1>3 DEF Decides
  <2>2. CASE TurnsDown(o)
    BY <2>2, FromQueueKept DEF TurnsDown
  <2>3. CASE Applies(o)
    <3>1. PICK x \in Entries : x.edit = ops[o].edit /\ feed' = Append(feed, x)
      BY <2>3 DEF Applies
    <3>2. /\ o \in 1 .. MaxOps /\ ops[o].edit <= MaxOps /\ ops[o].edit \in Nat
          /\ decided[o].status = "NONE"
      BY <1>1, <2>3, OperationTyped, PlainAnswers DEF Applies
    <3>3. decided'[o].status = "APPLIED" /\ ops' = ops
      BY <1>1, <1>3, <2>3, <3>2, PlainTyped DEF Applies, Decides
    <3>4. ASSUME NEW n \in DOMAIN feed, feed[n].edit = x.edit PROVE FALSE
      <4>1. PICK i \in DOMAIN ops : decided[i].status = "APPLIED" /\ ops[i].edit = ops[o].edit
        BY <3>1, <3>2, <3>4 DEF FromQueue
      <4>2. i \in Nat /\ o \in Nat /\ i # o
        BY <1>1, <3>2, <4>1, OperationTyped
      <4> QED
        BY <3>2, <4>1, <4>2 DEF KeptOnce
    <3>5. /\ ~(x.edit > MaxOps) /\ o \in DOMAIN ops' /\ ops'[o].edit = x.edit
          /\ \A n \in DOMAIN feed : feed[n].edit # x.edit
      BY <1>1, <3>1, <3>2, <3>3, <3>4
    <3> QED
      BY <1>2, <3>1, <3>3, <3>5
  <2> QED
    BY <2>1, <2>2, <2>3
<1>4. CASE PeersEdit
  <2>1. PICK x \in Entries : x.edit = MaxOps + Len(feed) + 1 /\ feed' = Append(feed, x)
    BY <1>4 DEF PeersEdit
  <2>2. ~(x.edit <= MaxOps)
    BY <1>1, <2>1
  <2> QED
    BY <1>2, <2>1, <2>2
<1>5. CASE Grows \/ Moves \/ Reports \/ Pulls \/ Resolves
  <2>1. feed' = feed
    BY <1>5 DEF Grows, Moves, Reports, Pulls, Resolves, Settles, server
  <2> QED
    BY <2>1, FromQueueKept
<1> QED
  BY <1>3, <1>4, <1>5 DEF Steps

LEMMA AlwaysOnce ==
  ASSUME OneLoop
  PROVE  Spec => []EditsOnce
<1>1. Init => EditsOnce
  BY DEF Init, EditsOnce, Named, KeptOnce, FromQueue, EditsApplyOnce
<1>2. Held /\ EditsOnce /\ [Next]_vars => EditsOnce'
  BY HeldStays, NamedStays, KeptOnceStays, FromQueueStays DEF EditsOnce
<1> QED
  BY <1>1, <1>2, AlwaysHeld, PTL DEF Spec

(* An edit is in the feed at most once, as the operation that queued it or as  *)
(* one that KEEP_MINE made of it.                                           *)
THEOREM EditsAreAppliedOnce ==
  ASSUME OneLoop
  PROVE  Spec => []EditsApplyOnce
<1>1. EditsOnce => EditsApplyOnce
  BY DEF EditsOnce
<1> QED
  BY <1>1, AlwaysOnce, PTL

-----------------------------------------------------------------------------
(* The queue implements EditQueue.                                          *)

(* What EditQueue sees of an operation, of the queue, of the decisions and of  *)
(* the statuses.                                                            *)
Handed(x) == [entity |-> x.entity, kind |-> x.kind, base |-> x.base, edit |-> x.edit]
HandedOps == [entity : Entities, kind : {"CREATE", "UPDATE", "DELETE"}, base : Nat,
              edit : 1 .. MaxOps]
TheQueue == [i \in DOMAIN ops |-> [entity |-> ops[i].entity, kind |-> ops[i].kind,
                                   base |-> ops[i].base, edit |-> ops[i].edit]]
Verdict(d) == IF d.status = "CONFLICT" THEN "TURNED_DOWN" ELSE d.status
Verdicts == [i \in DOMAIN decided |->
               IF decided[i].status = "CONFLICT" THEN "TURNED_DOWN" ELSE decided[i].status]
TheReports == [i \in DOMAIN decided |->
                 IF i \in DOMAIN ops THEN Reported(ops[i].status) ELSE "WAITING"]

LEMMA HandedTyped ==
  /\ \A x \in Operations : /\ Handed(x) \in HandedOps
                           /\ Handed(x).entity = x.entity /\ Handed(x).kind = x.kind
                           /\ Handed(x).base = x.base /\ Handed(x).edit = x.edit
  /\ \A x, y : Same(x, y) => Handed(x) = Handed(y)
<1>1. ASSUME NEW x \in Operations
      PROVE  /\ Handed(x) \in HandedOps
             /\ Handed(x).entity = x.entity /\ Handed(x).kind = x.kind
             /\ Handed(x).base = x.base /\ Handed(x).edit = x.edit
  BY DEF Operations, Handed, HandedOps
<1>2. ASSUME NEW x, NEW y, Same(x, y) PROVE Handed(x) = Handed(y)
  BY <1>2 DEF Same, Handed
<1> QED
  BY <1>1, <1>2

LEMMA QueueSeen ==
  ASSUME Typed
  PROVE  /\ TheQueue \in Seq(HandedOps) /\ Len(TheQueue) = Len(ops)
         /\ DOMAIN TheQueue = DOMAIN ops /\ TheQueue = [i \in DOMAIN ops |-> TheQueue[i]]
         /\ \A i \in DOMAIN ops : TheQueue[i] = Handed(ops[i])
         /\ Verdicts \in [1 .. MaxOps -> {Verdict(decided[i]) : i \in 1 .. MaxOps}]
         /\ \A i \in 1 .. MaxOps : Verdicts[i] = Verdict(decided[i])
         /\ DOMAIN TheReports = 1 .. MaxOps /\ TheReports = [i \in 1 .. MaxOps |-> TheReports[i]]
         /\ \A i \in 1 .. MaxOps :
              TheReports[i] = IF i \in DOMAIN ops THEN Reported(ops[i].status) ELSE "WAITING"
<1>1. /\ DOMAIN ops = 1 .. Len(ops) /\ Len(ops) \in Nat /\ DOMAIN decided = 1 .. MaxOps
      /\ \A i \in DOMAIN ops : ops[i] \in Operations
  BY QueueDomain DEF Typed
<1>2. /\ DOMAIN TheQueue = DOMAIN ops /\ TheQueue = [i \in DOMAIN ops |-> TheQueue[i]]
      /\ \A i \in DOMAIN ops : TheQueue[i] = Handed(ops[i])
  BY Zenon DEF TheQueue, Handed
<1>3. \A i \in DOMAIN ops : TheQueue[i] \in HandedOps
  BY <1>1, <1>2, HandedTyped
<1>4. TheQueue \in [1 .. Len(ops) -> HandedOps]
  <2>1. PICK q : q = TheQueue
    OBVIOUS
  <2>2. q = [i \in 1 .. Len(ops) |-> q[i]] /\ \A i \in 1 .. Len(ops) : q[i] \in HandedOps
    BY <1>1, <1>2, <1>3, <2>1
  <2> QED
    BY <2>1, <2>2
<1>5. TheQueue \in Seq(HandedOps) /\ Len(TheQueue) = Len(ops)
  BY <1>1, <1>4, FunctionIsSequence
<1>6. /\ Verdicts \in [1 .. MaxOps -> {Verdict(decided[i]) : i \in 1 .. MaxOps}]
      /\ \A i \in 1 .. MaxOps : Verdicts[i] = Verdict(decided[i])
  BY <1>1, Zenon DEF Verdicts, Verdict
<1>7. /\ DOMAIN TheReports = 1 .. MaxOps /\ TheReports = [i \in 1 .. MaxOps |-> TheReports[i]]
      /\ \A i \in 1 .. MaxOps :
           TheReports[i] = IF i \in DOMAIN ops THEN Reported(ops[i].status) ELSE "WAITING"
  BY <1>1, Zenon DEF TheReports
<1> QED
  BY <1>2, <1>5, <1>6, <1>7

(* What a step leaves of the view.                                           *)
LEMMA QueueViewStays ==
  ASSUME Typed, Restamped
  PROVE  TheQueue' = TheQueue
<1>1. TheQueue' = [i \in DOMAIN ops' |-> Handed(ops'[i])]
  BY Zenon DEF TheQueue, Handed
<1>2. TheQueue = [i \in DOMAIN ops |-> Handed(ops[i])]
  BY Zenon DEF TheQueue, Handed
<1>3. DOMAIN ops' = DOMAIN ops /\ \A i \in DOMAIN ops : Handed(ops'[i]) = Handed(ops[i])
  BY HandedTyped DEF Restamped
<1> QED
  BY <1>1, <1>2, <1>3, Zenon

LEMMA QueueViewGrows ==
  ASSUME Typed, NEW x \in Operations, Extends(x)
  PROVE  /\ Len(TheQueue) < MaxOps /\ Len(TheQueue') = Len(TheQueue) + 1
         /\ SubSeq(TheQueue', 1, Len(TheQueue)) = TheQueue
         /\ TheQueue'[Len(TheQueue')] = Handed(x) /\ Len(TheQueue') = Len(ops) + 1
<1>1. /\ TheQueue \in Seq(HandedOps) /\ Len(TheQueue) = Len(ops) /\ Len(ops) \in Nat
      /\ DOMAIN ops = 1 .. Len(ops) /\ \A i \in DOMAIN ops : TheQueue[i] = Handed(ops[i])
  BY QueueSeen, QueueDomain DEF Typed
<1>2. /\ ops' \in Seq(Operations) /\ Len(ops') = Len(ops) + 1 /\ Len(ops') <= MaxOps
      /\ \A i \in DOMAIN ops : Same(ops'[i], ops[i])
      /\ ops'[Len(ops) + 1] = x
  BY DEF Extends
<1>3. DOMAIN ops' = 1 .. Len(ops) + 1 /\ \A i \in DOMAIN ops' : ops'[i] \in Operations
  BY <1>1, <1>2
<1>4. TheQueue' = [i \in DOMAIN ops' |-> Handed(ops'[i])]
  BY Zenon DEF TheQueue, Handed
<1>5. PICK q : q = TheQueue'
  OBVIOUS
<1>6. q \in [1 .. Len(ops) + 1 -> HandedOps]
  BY <1>3, <1>4, <1>5, HandedTyped
<1>7. q \in Seq(HandedOps) /\ Len(q) = Len(ops) + 1
  BY <1>1, <1>6, FunctionIsSequence
<1>8. q[Len(ops) + 1] = Handed(x) /\ \A i \in 1 .. Len(ops) : q[i] = TheQueue[i]
  <2>1. \A i \in DOMAIN ops' : q[i] = Handed(ops'[i])
    BY <1>4, <1>5, Zenon
  <2>2. Len(ops) + 1 \in DOMAIN ops' /\ DOMAIN ops \subseteq DOMAIN ops'
    BY <1>1, <1>3
  <2>3. \A i \in DOMAIN ops : Handed(ops'[i]) = Handed(ops[i])
    BY <1>2, HandedTyped
  <2> QED
    BY <1>1, <1>2, <2>1, <2>2, <2>3
<1>9. PICK r : r = SubSeq(q, 1, Len(ops))
  OBVIOUS
<1>10. r \in Seq(HandedOps) /\ Len(r) = Len(ops) /\ \A i \in 1 .. Len(ops) : r[i] = q[i]
  BY <1>1, <1>7, <1>9
<1>11. r = TheQueue
  BY <1>1, <1>8, <1>10
<1>12. Len(q) = Len(TheQueue) + 1 /\ Len(TheQueue) < MaxOps /\ q[Len(q)] = Handed(x)
       /\ SubSeq(q, 1, Len(TheQueue)) = TheQueue
  <2>1. MaxOps \in Nat
    BY DeviceAssumption
  <2> QED
    BY <1>1, <1>2, <1>7, <1>8, <1>9, <1>11, <2>1
<1> QED
  BY <1>1, <1>5, <1>7, <1>12

LEMMA VerdictsStay ==
  ASSUME decided' = decided
  PROVE  Verdicts' = Verdicts
  BY Zenon DEF Verdicts

(* The reports change where the reported status does, and a new operation      *)
(* waits.                                                                   *)
LEMMA ReportsStay ==
  ASSUME Typed, DOMAIN decided' = DOMAIN decided,
         DOMAIN ops \subseteq DOMAIN ops',
         \A i \in DOMAIN ops : Reported(ops'[i].status) = Reported(ops[i].status),
         \A i \in DOMAIN ops' : i \notin DOMAIN ops => Reported(ops'[i].status) = "WAITING"
  PROVE  TheReports' = TheReports
<1>1. TheReports' = [i \in DOMAIN decided' |->
                       IF i \in DOMAIN ops' THEN Reported(ops'[i].status) ELSE "WAITING"]
  BY Zenon DEF TheReports, Reported
<1>2. TheReports = [i \in DOMAIN decided |->
                      IF i \in DOMAIN ops THEN Reported(ops[i].status) ELSE "WAITING"]
  BY Zenon DEF TheReports
<1>3. ASSUME NEW i
      PROVE  (IF i \in DOMAIN ops' THEN Reported(ops'[i].status) ELSE "WAITING")
             = (IF i \in DOMAIN ops THEN Reported(ops[i].status) ELSE "WAITING")
  <2>1. CASE i \in DOMAIN ops
    BY <2>1
  <2>2. CASE i \notin DOMAIN ops
    BY <2>2
  <2> QED
    BY <2>1, <2>2
<1> QED
  BY <1>1, <1>2, <1>3, Zenon

LEMMA StatusesReported ==
  /\ \A s \in {"PENDING", "SYNCING", "REQUIRES_REVALIDATION"} : Reported(s) = "WAITING"
  /\ Reported("SYNCED") = "SYNCED" /\ Reported("CONFLICT") = "CONFLICT"
  /\ Reported("REJECTED") = "GIVEN_UP" /\ Reported("DEVICE_REVOKED") = "GIVEN_UP"
  BY DEF Reported

(* The actions of EditQueue, over what it sees.                              *)
LEMMA QueueActions ==
  /\ Queue!Grows <=> /\ Len(TheQueue) < MaxOps
                     /\ Len(TheQueue') = Len(TheQueue) + 1
                     /\ SubSeq(TheQueue', 1, Len(TheQueue)) = TheQueue
  /\ Queue!Newest = TheQueue'[Len(TheQueue')]
  /\ Queue!HandOver <=> /\ feed' = feed /\ Verdicts' = Verdicts /\ TheReports' = TheReports
                        /\ Queue!Grows
                        /\ Queue!Newest.entity \in Entities /\ Queue!Newest.edit = Len(TheQueue')
  /\ Queue!Report <=>
       /\ TheQueue' = TheQueue /\ feed' = feed /\ Verdicts' = Verdicts
       /\ \A i \in DOMAIN TheReports :
            TheReports'[i] # TheReports[i] =>
              /\ i \in DOMAIN TheQueue /\ TheReports[i] = "WAITING"
              /\ Queue!Truthful(i, TheReports'[i])
  /\ \A i, news : Queue!Truthful(i, news) <=>
       CASE news = "SYNCED" -> Verdicts[i] = "APPLIED"
         [] news = "CONFLICT" -> Verdicts[i] = "TURNED_DOWN"
         [] OTHER -> news = "GIVEN_UP"
  /\ \A i : Queue!Settle(i) <=>
       /\ feed' = feed /\ Verdicts' = Verdicts
       /\ TheReports[i] = "CONFLICT"
       /\ TheReports' = [TheReports EXCEPT ![i] = "GIVEN_UP"]
       /\ \/ TheQueue' = TheQueue
          \/ /\ Queue!Grows
             /\ Queue!Newest = [TheQueue[i] EXCEPT !.base = Queue!Newest.base]
             /\ Queue!Newest.base > 0
  /\ Queue!Elsewhere <=>
       /\ TheQueue' = TheQueue /\ Verdicts' = Verdicts /\ TheReports' = TheReports
       /\ Len(feed') = Len(feed) + 1 /\ SubSeq(feed', 1, Len(feed)) = feed
       /\ feed'[Len(feed')].edit > MaxOps
  /\ \A i : Queue!Apply(i) <=>
       /\ TheQueue' = TheQueue /\ TheReports' = TheReports
       /\ Verdicts[i] = "NONE" /\ Queue!Fits(TheQueue[i])
       /\ Verdicts' = [Verdicts EXCEPT ![i] = "APPLIED"]
       /\ feed' = Append(feed, [entity |-> TheQueue[i].entity, edit |-> TheQueue[i].edit,
                                tombstone |-> TheQueue[i].kind = "DELETE"])
  /\ \A i : Queue!TurnDown(i) <=>
       /\ TheQueue' = TheQueue /\ feed' = feed /\ TheReports' = TheReports
       /\ Verdicts[i] = "NONE" /\ ~Queue!Fits(TheQueue[i])
       /\ Verdicts' = [Verdicts EXCEPT ![i] = "TURNED_DOWN"]
  /\ Queue!Next <=>
       \/ Queue!HandOver \/ Queue!Report \/ Queue!Elsewhere
       \/ \E i \in DOMAIN TheQueue : Queue!Apply(i) \/ Queue!TurnDown(i) \/ Queue!Settle(i)
  /\ UNCHANGED Queue!vars <=>
       /\ TheQueue' = TheQueue /\ feed' = feed /\ Verdicts' = Verdicts
       /\ TheReports' = TheReports
<1>1. /\ Queue!Grows <=> /\ Len(TheQueue) < MaxOps
                         /\ Len(TheQueue') = Len(TheQueue) + 1
                         /\ SubSeq(TheQueue', 1, Len(TheQueue)) = TheQueue
      /\ Queue!Newest = TheQueue'[Len(TheQueue')]
  BY Zenon DEF Queue!Grows, Queue!Newest, TheQueue
<1>2. Queue!HandOver <=> /\ feed' = feed /\ Verdicts' = Verdicts /\ TheReports' = TheReports
                         /\ Queue!Grows
                         /\ Queue!Newest.entity \in Entities /\ Queue!Newest.edit = Len(TheQueue')
  BY Zenon DEF Queue!HandOver, TheQueue, Verdicts, TheReports
<1>3. Queue!Report <=>
       /\ TheQueue' = TheQueue /\ feed' = feed /\ Verdicts' = Verdicts
       /\ \A i \in DOMAIN TheReports :
            TheReports'[i] # TheReports[i] =>
              /\ i \in DOMAIN TheQueue /\ TheReports[i] = "WAITING"
              /\ Queue!Truthful(i, TheReports'[i])
  BY Zenon DEF Queue!Report, TheQueue, Verdicts, TheReports
<1>4. \A i, news : Queue!Truthful(i, news) <=>
       CASE news = "SYNCED" -> Verdicts[i] = "APPLIED"
         [] news = "CONFLICT" -> Verdicts[i] = "TURNED_DOWN"
         [] OTHER -> news = "GIVEN_UP"
  BY Zenon DEF Queue!Truthful, Verdicts
<1>5. \A i : Queue!Settle(i) <=>
       /\ feed' = feed /\ Verdicts' = Verdicts
       /\ TheReports[i] = "CONFLICT"
       /\ TheReports' = [TheReports EXCEPT ![i] = "GIVEN_UP"]
       /\ \/ TheQueue' = TheQueue
          \/ /\ Queue!Grows
             /\ Queue!Newest = [TheQueue[i] EXCEPT !.base = Queue!Newest.base]
             /\ Queue!Newest.base > 0
  BY Zenon DEF Queue!Settle, TheQueue, Verdicts, TheReports
<1>6. Queue!Elsewhere <=>
       /\ TheQueue' = TheQueue /\ Verdicts' = Verdicts /\ TheReports' = TheReports
       /\ Len(feed') = Len(feed) + 1 /\ SubSeq(feed', 1, Len(feed)) = feed
       /\ feed'[Len(feed')].edit > MaxOps
  BY Zenon DEF Queue!Elsewhere, TheQueue, Verdicts, TheReports
<1>7. \A i : Queue!Apply(i) <=>
       /\ TheQueue' = TheQueue /\ TheReports' = TheReports
       /\ Verdicts[i] = "NONE" /\ Queue!Fits(TheQueue[i])
       /\ Verdicts' = [Verdicts EXCEPT ![i] = "APPLIED"]
       /\ feed' = Append(feed, [entity |-> TheQueue[i].entity, edit |-> TheQueue[i].edit,
                                tombstone |-> TheQueue[i].kind = "DELETE"])
  BY Zenon DEF Queue!Apply, TheQueue, Verdicts, TheReports
<1>8. \A i : Queue!TurnDown(i) <=>
       /\ TheQueue' = TheQueue /\ feed' = feed /\ TheReports' = TheReports
       /\ Verdicts[i] = "NONE" /\ ~Queue!Fits(TheQueue[i])
       /\ Verdicts' = [Verdicts EXCEPT ![i] = "TURNED_DOWN"]
  BY Zenon DEF Queue!TurnDown, TheQueue, Verdicts, TheReports
<1>9. Queue!Next <=>
       \/ Queue!HandOver \/ Queue!Report \/ Queue!Elsewhere
       \/ \E i \in DOMAIN TheQueue : Queue!Apply(i) \/ Queue!TurnDown(i) \/ Queue!Settle(i)
  BY Zenon DEF Queue!Next, TheQueue
<1>10. UNCHANGED Queue!vars <=>
         /\ TheQueue' = TheQueue /\ feed' = feed /\ Verdicts' = Verdicts
         /\ TheReports' = TheReports
  BY Zenon DEF Queue!vars, TheQueue, Verdicts, TheReports
<1> QED
  BY <1>1, <1>2, <1>3, <1>4, <1>5, <1>6, <1>7, <1>8, <1>9, <1>10, Zenon

(* An operation is applied when it fits: ConflictOf and the abstract Fits      *)
(* agree on what the server may be asked.                                    *)
LEMMA FitsWhenAuthorized ==
  ASSUME Sound, NEW o \in DOMAIN ops, Authorized(o)
  PROVE  Queue!Fits(TheQueue[o]) <=> ConflictOf(o) = "NONE"
<1>1. /\ Typed /\ ops[o].entity \in Entities /\ ops[o] \in Operations
      /\ Creation(o) /\ ops[o].base \in Nat /\ feed \in Seq(Entries)
  BY OperationTyped DEF Sound, Creations, Typed
<1>2. PICK e : e = ops[o].entity
  OBVIOUS
<1>3. PICK x : x = TheQueue[o]
  OBVIOUS
<1>4. x = Handed(ops[o])
  BY <1>1, <1>3, QueueSeen
<1>5. x.entity = e /\ x.kind = ops[o].kind /\ x.base = ops[o].base
  BY <1>1, <1>2, <1>4, HandedTyped
<1>6. Queue!Changes(e) = Changes(e)
  BY Zenon DEF Queue!Changes, Changes
<1>7. Queue!Version(e) = Row(e).version
  <2>1. Queue!Version(e) = Cardinality(Changes(e)) + FirstVersion(e)
    <3>1. Queue!Version(e) = Queue!Cardinality(Changes(e)) + FirstVersion(e)
      BY <1>6 DEF Queue!Version, FirstVersion
    <3>2. Queue!Cardinality(Changes(e)) = Cardinality(Changes(e))
      BY DEF Queue!Cardinality, Cardinality
    <3> QED
      BY <3>1, <3>2
  <2>2. /\ Row(e).version = FirstVersion(e) + Cardinality(Changes(e))
        /\ FirstVersion(e) \in Nat /\ Cardinality(Changes(e)) \in Nat
    BY <1>1, <1>2, RowTyped, ChangesCounted
  <2> QED
    BY <2>1, <2>2
<1>8. Queue!Deleted(e) <=> Row(e).deleted
  <2>1. Queue!Deleted(e) <=> \E n \in Changes(e) : feed[n].tombstone
    BY <1>6, Zenon DEF Queue!Deleted
  <2> QED
    BY <1>1, <1>2, <2>1, RowTyped
<1>9. Queue!Fits(x) <=>
        IF x.kind = "CREATE" THEN Queue!Version(x.entity) = 0
        ELSE Queue!Version(x.entity) = x.base /\ x.base > 0 /\ ~Queue!Deleted(x.entity)
  BY Zenon DEF Queue!Fits
<1>10. Row(e).version \in Nat /\ (Exists(Row(e)) <=> Row(e).version # 0)
  <2>1. Row(e).version \in Nat
    BY <1>1, <1>2, RowTyped
  <2> QED
    BY <2>1 DEF Exists
<1>11. CASE ops[o].kind = "CREATE"
  <2>1. ConflictOf(o) = IF Exists(Row(e)) THEN "EDIT_EDIT" ELSE "NONE"
    BY <1>1, <1>2, <1>11, ConflictCases
  <2> QED
    BY <1>3, <1>5, <1>7, <1>9, <1>10, <1>11, <2>1
<1>12. CASE ops[o].kind # "CREATE"
  <2>1. ConflictOf(o) = "NONE" <=> ~Row(e).deleted /\ Row(e).version = ops[o].base
    BY <1>1, <1>2, <1>12, ConflictCases
  <2>2. ops[o].base > 0
    BY <1>1, <1>12 DEF Creation, Creates
  <2> QED
    BY <1>3, <1>5, <1>7, <1>8, <1>9, <1>12, <2>1, <2>2
<1> QED
  BY <1>11, <1>12

LEMMA GrowsHandsOver ==
  ASSUME Held, Grows
  PROVE  Queue!HandOver
<1>1. Typed /\ DOMAIN ops \subseteq 1 .. MaxOps
  BY QueueDomain DEF Held, Sound, Typed
<1>2. PICK x \in Operations :
        /\ Extends(x) /\ \A i \in DOMAIN ops : ops'[i] = ops[i]
        /\ x.edit = Len(ops) + 1 /\ x.status = "PENDING"
        /\ UNCHANGED <<feed, decided, conflicts>>
  BY DEF Grows
<1>3. /\ Queue!Grows /\ Queue!Newest = Handed(x) /\ Len(TheQueue') = Len(ops) + 1
  BY <1>1, <1>2, QueueViewGrows, QueueActions
<1>4. Handed(x).entity \in Entities /\ Handed(x).edit = x.edit
  BY <1>2, HandedTyped DEF Operations
<1>5. Verdicts' = Verdicts
  BY <1>2, VerdictsStay
<1>6. TheReports' = TheReports
  <2>1. \A i \in DOMAIN ops' : i \notin DOMAIN ops => ops'[i] = x
    BY <1>2 DEF Extends
  <2>2. Reported(x.status) = "WAITING"
    BY <1>2, StatusesReported
  <2>3. DOMAIN ops \subseteq DOMAIN ops' /\ DOMAIN decided' = DOMAIN decided
    BY <1>2 DEF Extends
  <2>4. \A i \in DOMAIN ops : Reported(ops'[i].status) = Reported(ops[i].status)
    BY <1>2
  <2> QED
    BY <1>1, <2>1, <2>2, <2>3, <2>4, ReportsStay
<1> QED
  BY <1>2, <1>3, <1>4, <1>5, <1>6, QueueActions

LEMMA MovesStutter ==
  ASSUME Held, Moves \/ Pulls
  PROVE  UNCHANGED Queue!vars
<1>1. Typed /\ ops \in Seq(Operations)
  BY DEF Held, Sound, Typed
<1>2. feed' = feed /\ decided' = decided
  BY DEF Moves, Pulls
<1>3. Restamped
  BY <1>1, StillRestamps DEF Moves, Pulls
<1>4. \A i \in DOMAIN ops : Reported(ops'[i].status) = Reported(ops[i].status)
  <2>1. CASE Pulls
    BY <2>1 DEF Pulls
  <2>2. CASE Moves
    <3> SUFFICES ASSUME NEW i \in DOMAIN ops
                 PROVE  Reported(ops'[i].status) = Reported(ops[i].status)
      OBVIOUS
    <3>1. \/ ops'[i].status = ops[i].status
          \/ /\ ops'[i].status \in {"PENDING", "SYNCING", "REQUIRES_REVALIDATION"}
             /\ ops[i].status \in {"PENDING", "SYNCING", "REQUIRES_REVALIDATION"}
      BY <2>2 DEF Moves
    <3> QED
      BY <3>1, StatusesReported
  <2> QED
    BY <2>1, <2>2
<1>5. DOMAIN ops' = DOMAIN ops
  BY <1>3 DEF Restamped
<1>6. TheReports' = TheReports
  BY <1>1, <1>2, <1>4, <1>5, ReportsStay
<1> QED
  BY <1>1, <1>2, <1>3, <1>6, QueueViewStays, VerdictsStay, QueueActions

LEMMA PeersEditElsewhere ==
  ASSUME Held, PeersEdit
  PROVE  Queue!Elsewhere
<1>1. Typed /\ feed \in Seq(Entries) /\ ops \in Seq(Operations)
  BY DEF Held, Sound, Typed
<1>2. PICK x \in Entries : x.edit = MaxOps + Len(feed) + 1 /\ feed' = Append(feed, x)
  BY DEF PeersEdit
<1>3. decided' = decided /\ ops' = ops
  BY DEF PeersEdit
<1>4. Len(feed') = Len(feed) + 1 /\ Len(feed) \in Nat /\ feed'[Len(feed')] = x
  BY <1>1, <1>2, FeedGrows, ChangesCounted
<1>5. SubSeq(feed', 1, Len(feed)) = feed
  <2>1. PICK s : s = SubSeq(feed', 1, Len(feed))
    OBVIOUS
  <2>2. feed' \in Seq(Entries) /\ \A n \in 1 .. Len(feed) : feed'[n] = feed[n]
    BY <1>1, <1>2, Extended
  <2>3. s \in Seq(Entries) /\ Len(s) = Len(feed) /\ \A n \in 1 .. Len(feed) : s[n] = feed'[n]
    BY <1>4, <2>1, <2>2
  <2> QED
    BY <1>1, <2>1, <2>2, <2>3
<1>6. x.edit > MaxOps
  BY <1>2, <1>4, DeviceAssumption
<1>7. Restamped
  BY <1>1, <1>3, StillRestamps
<1>8. TheReports' = TheReports
  BY <1>1, <1>3, ReportsStay
<1> QED
  BY <1>1, <1>3, <1>4, <1>5, <1>6, <1>7, <1>8, QueueViewStays, VerdictsStay, QueueActions

LEMMA ReportsReport ==
  ASSUME Held, Reports
  PROVE  Queue!Report
<1>1. /\ Typed /\ ops \in Seq(Operations) /\ DOMAIN ops \subseteq 1 .. MaxOps
      /\ \A i \in 1 .. MaxOps : Decision(i)
  BY QueueDomain DEF Held, Sound, Typed, Decisions
<1>2. Restamped /\ feed' = feed /\ decided' = decided
  BY DEF Reports
<1>3. TheQueue' = TheQueue /\ Verdicts' = Verdicts
  BY <1>1, <1>2, QueueViewStays, VerdictsStay
<1>4. DOMAIN TheReports = 1 .. MaxOps /\ DOMAIN TheQueue = DOMAIN ops
  BY <1>1, QueueSeen
<1>5. \A i \in 1 .. MaxOps :
        /\ TheReports[i] = IF i \in DOMAIN ops THEN Reported(ops[i].status) ELSE "WAITING"
        /\ TheReports'[i] = IF i \in DOMAIN ops THEN Reported(ops'[i].status) ELSE "WAITING"
  <2>1. TheReports' = [i \in DOMAIN decided' |->
                         IF i \in DOMAIN ops' THEN Reported(ops'[i].status) ELSE "WAITING"]
    BY Zenon DEF TheReports, Reported
  <2>2. DOMAIN ops' = DOMAIN ops /\ DOMAIN decided' = 1 .. MaxOps
    BY <1>1, <1>2 DEF Restamped, Typed
  <2> QED
    BY <1>1, <2>1, <2>2, QueueSeen
<1>6. ASSUME NEW i \in 1 .. MaxOps, TheReports'[i] # TheReports[i]
      PROVE  /\ i \in DOMAIN ops /\ TheReports[i] = "WAITING"
             /\ Queue!Truthful(i, TheReports'[i])
  <2>1. i \in DOMAIN ops
    BY <1>5, <1>6
  <2>2. TheReports[i] = Reported(ops[i].status) /\ TheReports'[i] = Reported(ops'[i].status)
    BY <1>5, <2>1
  <2>3. Noted(i)
    BY <1>6, <2>1, <2>2 DEF Reports
  <2>4. TheReports[i] = "WAITING"
    BY <2>2, <2>3, StatusesReported DEF Noted
  <2>5. Verdicts[i] = Verdict(decided[i])
    BY <1>1, QueueSeen
  <2>6. Queue!Truthful(i, TheReports'[i]) <=>
          CASE TheReports'[i] = "SYNCED" -> Verdicts[i] = "APPLIED"
            [] TheReports'[i] = "CONFLICT" -> Verdicts[i] = "TURNED_DOWN"
            [] OTHER -> TheReports'[i] = "GIVEN_UP"
    BY QueueActions
  <2>7. CASE decided[i].status = "APPLIED" /\ ops'[i].status = "SYNCED"
    <3>1. TheReports'[i] = "SYNCED" /\ Verdicts[i] = "APPLIED"
      BY <2>2, <2>5, <2>7, StatusesReported DEF Verdict
    <3> QED
      BY <2>1, <2>4, <2>6, <3>1
  <2>8. CASE decided[i].status = "CONFLICT" /\ ops'[i].status = "CONFLICT"
    <3>1. TheReports'[i] = "CONFLICT" /\ Verdicts[i] = "TURNED_DOWN"
      BY <2>2, <2>5, <2>8, StatusesReported DEF Verdict
    <3> QED
      BY <2>1, <2>4, <2>6, <3>1
  <2>9. CASE ops'[i].status \in {"REJECTED", "DEVICE_REVOKED", "REQUIRES_REVALIDATION"}
    <3>1. TheReports'[i] = "GIVEN_UP"
      BY <1>6, <2>2, <2>4, <2>9, StatusesReported
    <3> QED
      BY <2>1, <2>4, <2>6, <3>1
  <2> QED
    BY <2>3, <2>7, <2>8, <2>9 DEF Noted
<1> QED
  BY <1>2, <1>3, <1>4, <1>6, QueueActions

LEMMA DecidesOnce ==
  ASSUME Held, Decides
  PROVE  \E o \in DOMAIN TheQueue : Queue!Apply(o) \/ Queue!TurnDown(o)
<1>1. /\ Typed /\ ops \in Seq(Operations) /\ decided \in [1 .. MaxOps -> Answers]
      /\ \A i \in DOMAIN ops : i \in 1 .. MaxOps /\ ops[i] \in Operations
  BY QueueDomain DEF Held, Sound, Typed
<1>2. PICK o \in DOMAIN ops : Applies(o) \/ TurnsDown(o)
  BY DEF Decides
<1>3. ops' = ops /\ decided[o] = NoAnswer /\ Authorized(o)
  BY <1>2 DEF Decides, Applies, TurnsDown
<1>4. Restamped
  BY <1>1, <1>3, StillRestamps
<1>5. PICK d \in Answers :
        /\ decided' = [decided EXCEPT ![o] = d]
        /\ Applies(o) => d.status = "APPLIED"
        /\ TurnsDown(o) => d.status = "CONFLICT"
  <2>1. CASE Applies(o)
    <3>1. ConflictOf(o) = "NONE" /\ decided' = [decided EXCEPT ![o] = Plain("APPLIED")]
      BY <2>1 DEF Applies
    <3>2. Plain("APPLIED") \in Answers /\ Plain("APPLIED").status = "APPLIED" /\ ~TurnsDown(o)
      BY <3>1, PlainTyped DEF TurnsDown
    <3> QED
      BY <3>1, <3>2
  <2>2. CASE TurnsDown(o) /\ ~Applies(o)
    BY <2>2 DEF TurnsDown
  <2> QED
    BY <1>2, <2>1, <2>2
<1>6. /\ DOMAIN decided' = DOMAIN decided /\ decided'[o] = d
      /\ \A i \in 1 .. MaxOps : i # o => decided'[i] = decided[i]
      /\ DOMAIN decided = 1 .. MaxOps
  BY <1>1, <1>5
<1>7. TheQueue' = TheQueue /\ TheReports' = TheReports
  BY <1>1, <1>3, <1>4, <1>6, QueueViewStays, ReportsStay
<1>8. Verdicts[o] = "NONE"
  <2>1. decided[o].status = "NONE"
    BY <1>3, PlainAnswers
  <2>2. Verdicts[o] = Verdict(decided[o])
    BY <1>1, QueueSeen
  <2> QED
    BY <2>1, <2>2 DEF Verdict
<1>9. Verdicts' = [Verdicts EXCEPT ![o] = Verdict(d)]
  <2>1. Verdicts' = [i \in 1 .. MaxOps |-> Verdict(decided'[i])]
    <3>1. Verdicts' = [i \in DOMAIN decided' |-> Verdict(decided'[i])]
      BY Zenon DEF Verdicts, Verdict
    <3> QED
      BY <1>6, <3>1
  <2>2. /\ Verdicts = [i \in 1 .. MaxOps |-> Verdicts[i]]
        /\ \A i \in 1 .. MaxOps : Verdicts[i] = Verdict(decided[i])
    BY <1>1, QueueSeen
  <2>3. PICK v : v = Verdicts
    OBVIOUS
  <2>4. [v EXCEPT ![o] = Verdict(d)] = [i \in 1 .. MaxOps |-> IF i = o THEN Verdict(d) ELSE v[i]]
    BY <2>2, <2>3
  <2>5. \A i \in 1 .. MaxOps : Verdict(decided'[i]) = IF i = o THEN Verdict(d) ELSE v[i]
    BY <1>6, <2>2, <2>3
  <2> QED
    BY <2>1, <2>3, <2>4, <2>5
<1>10. DOMAIN TheQueue = DOMAIN ops /\ TheQueue[o] = Handed(ops[o])
  BY <1>1, QueueSeen
<1>11. Queue!Fits(TheQueue[o]) <=> ConflictOf(o) = "NONE"
  BY <1>3, FitsWhenAuthorized DEF Held
<1>12. CASE Applies(o)
  <2>1. Verdict(d) = "APPLIED" /\ ConflictOf(o) = "NONE"
    BY <1>5, <1>12 DEF Verdict, Applies
  <2>2. feed' = Append(feed, Entry(o))
    BY <1>12 DEF Applies
  <2>3. Entry(o) = [entity |-> TheQueue[o].entity, edit |-> TheQueue[o].edit,
                    tombstone |-> TheQueue[o].kind = "DELETE"]
    BY <1>1, <1>10, HandedTyped DEF Entry
  <2>4. Queue!Apply(o)
    BY <1>7, <1>8, <1>9, <1>11, <2>1, <2>2, <2>3, QueueActions
  <2> QED
    BY <1>10, <2>4
<1>13. CASE TurnsDown(o)
  <2>1. Verdict(d) = "TURNED_DOWN" /\ ConflictOf(o) # "NONE" /\ feed' = feed
    BY <1>5, <1>13 DEF Verdict, TurnsDown
  <2>2. Queue!TurnDown(o)
    BY <1>7, <1>8, <1>9, <1>11, <2>1, QueueActions
  <2> QED
    BY <1>10, <2>2
<1> QED
  BY <1>2, <1>12, <1>13

LEMMA ResolvesSettles ==
  ASSUME Held, Resolves
  PROVE  \E o \in DOMAIN TheQueue : Queue!Settle(o)
<1>1. /\ Typed /\ ops \in Seq(Operations) /\ DOMAIN decided = 1 .. MaxOps
      /\ \A i \in DOMAIN ops : i \in 1 .. MaxOps /\ ops[i] \in Operations
      /\ \A i \in 1 .. MaxOps : Decision(i)
      /\ ConflictsMatchQueue
  BY QueueDomain DEF Held, Sound, Typed, Decisions
<1>2. PICK o \in DOMAIN ops : Settles(o) /\ (KeepsServer(o) \/ KeepsMine(o))
  BY DEF Resolves
<1>3. feed' = feed /\ decided' = decided
  BY <1>2 DEF Settles, server
<1>4. ops[o].status = "CONFLICT" /\ ops'[o].status = "REJECTED"
  BY <1>1, <1>2 DEF Settles, ConflictsMatchQueue
<1>5. conflicts[o].version >= 1
  BY <1>1, <1>2 DEF Settles, Decision
<1>6. /\ DOMAIN TheQueue = DOMAIN ops /\ TheQueue[o] = Handed(ops[o])
      /\ TheReports = [i \in 1 .. MaxOps |-> TheReports[i]]
      /\ \A i \in 1 .. MaxOps :
           TheReports[i] = IF i \in DOMAIN ops THEN Reported(ops[i].status) ELSE "WAITING"
  BY <1>1, QueueSeen
<1>7. TheReports[o] = "CONFLICT"
  BY <1>1, <1>4, <1>6, StatusesReported
<1>8. /\ DOMAIN ops \subseteq DOMAIN ops'
      /\ \A i \in DOMAIN ops' : i \notin DOMAIN ops => ops'[i].status = "PENDING"
  BY <1>2 DEF KeepsServer, KeepsMine, Restamped, Extends
<1>9. TheReports' = [TheReports EXCEPT ![o] = "GIVEN_UP"]
  <2>1. TheReports' = [i \in 1 .. MaxOps |->
                         IF i \in DOMAIN ops' THEN Reported(ops'[i].status) ELSE "WAITING"]
    <3>1. TheReports' = [i \in DOMAIN decided' |->
                           IF i \in DOMAIN ops' THEN Reported(ops'[i].status) ELSE "WAITING"]
      BY Zenon DEF TheReports, Reported
    <3> QED
      BY <1>1, <1>3, <3>1
  <2>2. ASSUME NEW i \in 1 .. MaxOps
        PROVE  (IF i \in DOMAIN ops' THEN Reported(ops'[i].status) ELSE "WAITING")
               = IF i = o THEN "GIVEN_UP" ELSE TheReports[i]
    <3>1. CASE i = o
      BY <1>4, <1>8, <3>1, StatusesReported
    <3>2. CASE i # o /\ i \in DOMAIN ops
      <4>1. ops'[i] = ops[i]
        BY <1>2, <3>2 DEF Settles
      <4> QED
        BY <1>6, <1>8, <3>2, <4>1
    <3>3. CASE i \notin DOMAIN ops
      <4>1. i # o /\ (i \in DOMAIN ops' => Reported(ops'[i].status) = "WAITING")
        BY <1>8, <3>3, StatusesReported
      <4> QED
        BY <1>6, <3>3, <4>1
    <3> QED
      BY <3>1, <3>2, <3>3
  <2>3. PICK t : t = TheReports
    OBVIOUS
  <2>4. [t EXCEPT ![o] = "GIVEN_UP"] = [i \in 1 .. MaxOps |-> IF i = o THEN "GIVEN_UP" ELSE t[i]]
    BY <1>6, <2>3
  <2> QED
    BY <2>1, <2>2, <2>3, <2>4
<1>10. Verdicts' = Verdicts
  BY <1>3, VerdictsStay
<1>11. CASE KeepsServer(o)
  <2>1. TheQueue' = TheQueue
    BY <1>1, <1>11, QueueViewStays DEF KeepsServer
  <2>2. Queue!Settle(o)
    BY <1>3, <1>7, <1>9, <1>10, <2>1, QueueActions
  <2> QED
    BY <1>6, <2>2
<1>12. CASE KeepsMine(o)
  <2>1. PICK x \in Operations :
          /\ Extends(x)
          /\ x.entity = ops[o].entity /\ x.kind = ops[o].kind /\ x.edit = ops[o].edit
          /\ x.base >= conflicts[o].version
    BY <1>12 DEF KeepsMine
  <2>2. Queue!Grows /\ Queue!Newest = Handed(x)
    BY <1>1, <2>1, QueueViewGrows, QueueActions
  <2>3. Handed(x) = [TheQueue[o] EXCEPT !.base = Handed(x).base]
    <3>1. Handed(ops[o]) \in HandedOps /\ Handed(x) \in HandedOps
      BY <1>1, HandedTyped
    <3>2. /\ Handed(x).entity = Handed(ops[o]).entity /\ Handed(x).kind = Handed(ops[o]).kind
          /\ Handed(x).edit = Handed(ops[o]).edit
      BY <1>1, <2>1, HandedTyped
    <3> QED
      BY <1>6, <3>1, <3>2 DEF HandedOps
  <2>4. Handed(x).base > 0
    <3>1. Handed(x).base = x.base /\ x.base \in Nat
      BY HandedTyped DEF Operations
    <3>2. conflicts[o].version \in Nat
      BY <1>1, OperationTyped DEF ConflictRecords
    <3> QED
      BY <1>5, <2>1, <3>1, <3>2
  <2>5. Queue!Newest = [TheQueue[o] EXCEPT !.base = Queue!Newest.base] /\ Queue!Newest.base > 0
    BY <2>2, <2>3, <2>4
  <2>6. Queue!Settle(o)
    BY <1>3, <1>7, <1>9, <1>10, <2>2, <2>5, QueueActions
  <2> QED
    BY <1>6, <2>6
<1> QED
  BY <1>2, <1>11, <1>12

(* The queue, with its batches, lost answers, duplicates, backoff, sweeps and  *)
(* revocations, implements one that hands each edit over, has it decided once *)
(* and reports the verdict once.                                            *)
THEOREM TheQueueIsImplemented ==
  ASSUME OneLoop
  PROVE  Spec => ImplementsQueue
<1>1. Init => Queue!Init
  <2> SUFFICES ASSUME Init PROVE Queue!Init
    OBVIOUS
  <2>1. /\ feed = <<>> /\ ops = <<>> /\ decided = [i \in 1 .. MaxOps |-> NoAnswer]
    BY DEF Init
  <2>2. Queue!Init <=> /\ TheQueue = <<>> /\ feed = <<>>
                       /\ Verdicts = [i \in 1 .. MaxOps |-> "NONE"]
                       /\ TheReports = [i \in 1 .. MaxOps |-> "WAITING"]
    BY Zenon DEF Queue!Init, TheQueue, Verdicts, TheReports
  <2>3. Typed
    BY HeldAtFirst DEF Held, Sound
  <2>4. TheQueue = <<>>
    <3>1. TheQueue \in Seq(HandedOps) /\ Len(TheQueue) = Len(ops)
      BY <2>3, QueueSeen
    <3> QED
      BY <2>1, <3>1
  <2>5. Verdicts = [i \in 1 .. MaxOps |-> "NONE"]
    <3>1. Verdicts = [i \in 1 .. MaxOps |-> Verdicts[i]]
      BY <2>3, QueueSeen
    <3>2. \A i \in 1 .. MaxOps : Verdicts[i] = Verdict(NoAnswer)
      BY <2>1, <2>3, QueueSeen
    <3>3. Verdict(NoAnswer) = "NONE"
      BY PlainAnswers DEF Verdict
    <3> QED
      BY <3>1, <3>2, <3>3
  <2>6. TheReports = [i \in 1 .. MaxOps |-> "WAITING"]
    <3>1. /\ TheReports = [i \in 1 .. MaxOps |-> TheReports[i]]
          /\ \A i \in 1 .. MaxOps :
               TheReports[i] = IF i \in DOMAIN ops THEN Reported(ops[i].status) ELSE "WAITING"
      BY <2>3, QueueSeen
    <3>2. DOMAIN ops = {}
      BY <2>1
    <3>3. \A i \in 1 .. MaxOps : TheReports[i] = "WAITING"
      BY <3>1, <3>2
    <3> QED
      BY <3>1, <3>3
  <2> QED
    BY <2>1, <2>2, <2>4, <2>5, <2>6
<1>2. ASSUME Held, [Next]_vars PROVE [Queue!Next]_(Queue!vars)
  <2>1. Steps
    BY <1>2, HeldStays
  <2>2. CASE Grows
    BY <1>2, <2>2, GrowsHandsOver, QueueActions
  <2>3. CASE Moves \/ Pulls
    BY <1>2, <2>3, MovesStutter
  <2>4. CASE Reports
    BY <1>2, <2>4, ReportsReport, QueueActions
  <2>5. CASE Decides
    BY <1>2, <2>5, DecidesOnce, QueueActions
  <2>6. CASE Resolves
    BY <1>2, <2>6, ResolvesSettles, QueueActions
  <2>7. CASE PeersEdit
    BY <1>2, <2>7, PeersEditElsewhere, QueueActions
  <2> QED
    BY <2>1, <2>2, <2>3, <2>4, <2>5, <2>6, <2>7 DEF Steps
<1> QED
  BY <1>1, <1>2, AlwaysHeld, PTL DEF Spec, ImplementsQueue, Queue!Spec

-----------------------------------------------------------------------------
(* A conflict has a cause.  The record and the bases of its operations follow  *)
(* each other until a resolution takes the record elsewhere; what is ahead of  *)
(* the server is ahead by operations that wait; and every version of the       *)
(* server was made by a peer or from an operation on the one before.          *)

Settled(e) ==
  \E j \in Of(e) : decided[j].type = "EDIT_EDIT" /\ conflicts[j].status = "RESOLVED"

Bases(e) ==
  \/ Settled(e)
  \/ /\ \A i \in Of(e) : ops[i].base < records[e].version
     /\ \A i, j \in Of(e) : i < j => ops[i].base < ops[j].base

Ahead(e) ==
  /\ records[e].version > Row(e).version =>
       \E j \in Of(e) : Waits(j) /\ ops[j].base + 1 = records[e].version
  /\ \A i \in Of(e) : ops[i].base > Row(e).version =>
       \E j \in Of(e) : j < i /\ Waits(j) /\ ops[j].base + 1 = ops[i].base

ByPeer(e, v) == \E n \in Changes(e) : feed[n].edit > MaxOps /\ VersionAt(n) = v + 1
ByOperation(e, v) == \E j \in Of(e) : decided[j].status = "APPLIED" /\ ops[j].base = v

History(e) ==
  \A v \in Nat : FirstVersion(e) <= v /\ v < Row(e).version => ByPeer(e, v) \/ ByOperation(e, v)

Turned(e) ==
  \A i \in Of(e) : decided[i].type = "EDIT_EDIT" =>
    decided[i].version # ops[i].base /\ decided[i].version <= Row(e).version

Caused(e) == Turned(e) /\ Bases(e) /\ Ahead(e) /\ History(e)
Causes == \A e \in Entities : Caused(e)

(* What a step leaves, whatever it is.                                       *)
LEMMA OperationsStand ==
  ASSUME Held, Steps, NEW e \in Entities, NEW i \in Of(e)
  PROVE  /\ i \in Of(e)' /\ i \in DOMAIN ops /\ i \in Nat /\ i \in 1 .. MaxOps
         /\ ops'[i].base = ops[i].base /\ ops'[i].edit = ops[i].edit /\ ops[i].base \in Nat
         /\ ops[i].entity = e /\ decided[i] \in Answers
         /\ decided[i] # NoAnswer => decided'[i] = decided[i]
         /\ conflicts[i].status = "RESOLVED" => conflicts'[i].status = "RESOLVED"
<1>1. i \in DOMAIN ops /\ ops[i].entity = e
  BY DEF Of
<1>2. /\ i \in 1 .. MaxOps /\ ops[i].base \in Nat /\ decided[i] \in Answers
  BY <1>1, OperationTyped DEF Held, Sound
<1>3. /\ i \in DOMAIN ops' /\ Same(ops'[i], ops[i])
      /\ decided[i] # NoAnswer => decided'[i] = decided[i]
      /\ conflicts[i].status = "RESOLVED" => conflicts'[i].status = "RESOLVED"
  BY <1>1, HistoryStands
<1> QED
  BY <1>1, <1>2, <1>3 DEF Of, Same

LEMMA SettledStays ==
  ASSUME Held, Steps, NEW e \in Entities, Settled(e)
  PROVE  Settled(e)'
<1>1. PICK j \in Of(e) : decided[j].type = "EDIT_EDIT" /\ conflicts[j].status = "RESOLVED"
  BY DEF Settled
<1>2. decided[j] # NoAnswer
  BY <1>1, PlainAnswers
<1> QED
  BY <1>1, <1>2, OperationsStand DEF Settled

(* The operations of an entity stay, or one is added for it.                  *)
LEMMA OperationsOf ==
  ASSUME Held, Steps, NEW e \in Entities
  PROVE  \/ Of(e)' = Of(e)
         \/ \E x \in Operations :
              /\ Extends(x) /\ x.entity = e
              /\ Of(e)' = Of(e) \cup {Len(ops) + 1} /\ Len(ops) + 1 \notin Of(e)
              /\ ops'[Len(ops) + 1].base = x.base /\ Len(ops) \in Nat /\ x.base \in Nat
              /\ decided'[Len(ops) + 1] = NoAnswer
              /\ \A i \in Of(e) : i < Len(ops) + 1
              /\ feed' = feed /\ decided' = decided
              /\ \/ /\ x.base = records[e].version /\ records'[e].version = x.base + 1
                 \/ \E o \in Of(e) :
                      /\ Settles(o) /\ records' = records
                      /\ x.base \in {records[e].version, conflicts[o].version}
<1>1. \A i \in DOMAIN ops : i \in DOMAIN ops' /\ ops'[i].entity = ops[i].entity
  BY HistoryStands DEF Same
<1>2. CASE DOMAIN ops' = DOMAIN ops
  BY <1>1, <1>2 DEF Of
<1>3. CASE DOMAIN ops' # DOMAIN ops
  <2>1. PICK x \in Operations :
          /\ Extends(x) /\ feed' = feed /\ decided' = decided /\ x.status = "PENDING"
          /\ \/ /\ x.edit = Len(ops) + 1 /\ x.base = records[x.entity].version
                /\ records'[x.entity].version = x.base + 1
                /\ \A d \in Entities : d # x.entity => records'[d] = records[d]
             \/ \E o \in DOMAIN ops :
                  /\ Settles(o) /\ x.entity = ops[o].entity /\ x.edit = ops[o].edit
                  /\ x.base \in {records[ops[o].entity].version, conflicts[o].version}
                  /\ x.base >= conflicts[o].version /\ x.base >= records[ops[o].entity].version
                  /\ records' = records
    BY <1>3, QueueGrows
  <2>2. /\ Len(ops) \in Nat /\ DOMAIN ops = 1 .. Len(ops) /\ decided[Len(ops) + 1] = NoAnswer
    BY <2>1, FreshOperation DEF Held
  <2>3. /\ DOMAIN ops' = DOMAIN ops \cup {Len(ops) + 1} /\ Len(ops) + 1 \notin DOMAIN ops
        /\ ops'[Len(ops) + 1] = x
    BY <2>1 DEF Extends
  <2>4. CASE x.entity = e
    <3>1. Of(e)' = Of(e) \cup {Len(ops) + 1} /\ Len(ops) + 1 \notin Of(e)
      BY <1>1, <2>3, <2>4 DEF Of
    <3>2. \A i \in Of(e) : i < Len(ops) + 1
      BY <2>2 DEF Of
    <3>3. x.base \in Nat
      BY DEF Operations
    <3>4. \/ x.base = records[e].version /\ records'[e].version = x.base + 1
          \/ \E o \in Of(e) :
               /\ Settles(o) /\ records' = records
               /\ x.base \in {records[e].version, conflicts[o].version}
      BY <2>1, <2>4 DEF Of
    <3> QED
      BY <2>1, <2>2, <2>3, <2>4, <3>1, <3>2, <3>3, <3>4
  <2>5. CASE x.entity # e
    <3>1. Of(e)' = Of(e)
      BY <1>1, <2>3, <2>5 DEF Of
    <3> QED
      BY <3>1
  <2> QED
    BY <2>4, <2>5
<1> QED
  BY <1>2, <1>3

(* How the record of an entity changes.                                      *)
LEMMA RecordMoves ==
  ASSUME Held, Steps, NEW e \in Entities
  PROVE  \/ records'[e].version = records[e].version
         \/ /\ records[e].version < records'[e].version /\ records'[e].version <= Row(e).version
            /\ feed' = feed
         \/ /\ records'[e].version = records[e].version + 1 /\ Of(e)' # Of(e)
         \/ \E o \in Of(e) :
              /\ Settles(o) /\ feed' = feed /\ decided' = decided
              /\ records'[e].version = conflicts[o].version
<1>1. CASE Grows
  <2>1. PICK x \in Operations :
          /\ Extends(x) /\ x.base = records[x.entity].version
          /\ records'[x.entity].version = x.base + 1
          /\ \A d \in Entities : d # x.entity => records'[d] = records[d]
    BY <1>1 DEF Grows
  <2>2. CASE x.entity = e
    <3>1. Len(ops) + 1 \in Of(e)' /\ Len(ops) + 1 \notin Of(e)
      BY <2>1, <2>2 DEF Extends, Of
    <3> QED
      BY <2>1, <2>2, <3>1
  <2>3. CASE x.entity # e
    BY <2>1, <2>3
  <2> QED
    BY <2>2, <2>3
<1>2. CASE Moves \/ Reports \/ Decides \/ PeersEdit
  BY <1>2 DEF Moves, Reports, Decides, PeersEdit
<1>3. CASE Pulls
  BY <1>3 DEF Pulls
<1>4. CASE Resolves
  <2>1. PICK o \in DOMAIN ops : Settles(o) /\ (KeepsServer(o) \/ KeepsMine(o))
    BY <1>4 DEF Resolves
  <2>2. feed' = feed /\ decided' = decided
    BY <2>1 DEF Settles, server
  <2>3. \/ records'[e].version = records[e].version
        \/ ops[o].entity = e /\ records'[e].version = conflicts[o].version
    BY <2>1 DEF KeepsServer, KeepsMine
  <2> QED
    BY <2>1, <2>2, <2>3 DEF Of
<1> QED
  BY <1>1, <1>2, <1>3, <1>4 DEF Steps

LEMMA AppliedBase ==
  ASSUME Sound, NEW o \in DOMAIN ops, Applies(o)
  PROVE  ops[o].base = Row(ops[o].entity).version
<1>1. /\ Typed /\ ops[o].entity \in Entities /\ feed \in Seq(Entries)
      /\ Creation(o) /\ ConflictOf(o) = "NONE"
  BY OperationTyped DEF Sound, Typed, Creations, Applies
<1>2. Row(ops[o].entity).version \in Nat
  BY <1>1, RowTyped
<1>3. CASE ops[o].kind = "CREATE"
  <2>1. ~Exists(Row(ops[o].entity))
    BY <1>1, <1>3, ConflictCases
  <2>2. Row(ops[o].entity).version = 0
    BY <1>2, <2>1 DEF Exists
  <2> QED
    BY <1>1, <1>3, <2>2 DEF Creation, Creates
<1>4. CASE ops[o].kind # "CREATE"
  BY <1>1, <1>4, ConflictCases
<1> QED
  BY <1>3, <1>4

(* How the row of an entity changes.                                         *)
LEMMA RowMoves ==
  ASSUME Held, Steps, NEW e \in Entities
  PROVE  /\ \A n \in Changes(e) : /\ n \in Changes(e)' /\ feed'[n] = feed[n]
                                  /\ VersionAt(n)' = VersionAt(n)
         /\ Row(e).version \in Nat
         /\ \/ Row(e).version' = Row(e).version
            \/ /\ Row(e).version' = Row(e).version + 1
               /\ \/ \E n \in Changes(e)' : feed'[n].edit > MaxOps
                                            /\ VersionAt(n)' = Row(e).version + 1
                  \/ \E o \in Of(e) : Applies(o) /\ ops[o].base = Row(e).version
<1>1. /\ Sound /\ Typed /\ feed \in Seq(Entries) /\ Row(e).version \in Nat
      /\ \A n \in Changes(e) : n \in DOMAIN feed /\ feed[n].entity = e
      /\ Len(feed) \in Nat /\ MaxOps \in Nat
  BY CurrentTyped, DeviceAssumption DEF Held, Sound
<1>2. CASE feed' = feed
  <2>1. Changes(e)' = Changes(e) /\ Row(e)' = Row(e) /\ \A n : VersionAt(n)' = VersionAt(n)
    BY <1>2 DEF Changes, Row, VersionAt, Older, FirstVersion
  <2> QED
    BY <1>1, <1>2, <2>1
<1>3. ASSUME NEW x \in Entries, feed' = Append(feed, x),
             x.entity = e =>
               \/ x.edit > MaxOps
               \/ \E o \in Of(e) : Applies(o) /\ ops[o].base = Row(e).version
      PROVE  /\ \A n \in Changes(e) : /\ n \in Changes(e)' /\ feed'[n] = feed[n]
                                      /\ VersionAt(n)' = VersionAt(n)
             /\ \/ Row(e).version' = Row(e).version
                \/ /\ Row(e).version' = Row(e).version + 1
                   /\ \/ \E n \in Changes(e)' : feed'[n].edit > MaxOps
                                                /\ VersionAt(n)' = Row(e).version + 1
                      \/ \E o \in Of(e) : Applies(o) /\ ops[o].base = Row(e).version
  <2>1. PICK new : new = Len(feed) + 1
    OBVIOUS
  <2>2. /\ DOMAIN feed' = DOMAIN feed \cup {new} /\ feed'[new] = x
        /\ \A n \in DOMAIN feed : feed'[n] = feed[n]
    BY <1>1, <1>3, <2>1, FeedGrows
  <2>3. \A n \in DOMAIN feed : VersionAt(n)' = VersionAt(n)
    BY <1>1, <1>3, <2>1, VersionsStay
  <2>4. VersionAt(new)' = Row(x.entity).version + 1
    BY <1>1, <1>3, <2>1, VersionsStay
  <2>5. \A n \in Changes(e) : /\ n \in Changes(e)' /\ feed'[n] = feed[n]
                              /\ VersionAt(n)' = VersionAt(n)
    BY <1>1, <2>2, <2>3 DEF Changes
  <2>6. CASE x.entity = e
    <3>1. Row(e).version' = Row(e).version + 1
      BY <1>1, <1>3, <2>6, RowGrows
    <3>2. new \in Changes(e)' /\ VersionAt(new)' = Row(e).version + 1 /\ feed'[new] = x
      BY <2>2, <2>4, <2>6 DEF Changes
    <3> QED
      BY <1>3, <2>5, <2>6, <3>1, <3>2
  <2>7. CASE x.entity # e
    <3>1. Row(e)' = Row(e)
      BY <1>1, <1>3, <2>7, RowGrows
    <3> QED
      BY <2>5, <3>1
  <2> QED
    BY <2>6, <2>7
<1>4. CASE Decides
  <2>1. PICK o \in DOMAIN ops : Applies(o) \/ TurnsDown(o)
    BY <1>4 DEF Decides
  <2>2. CASE TurnsDown(o)
    BY <1>2, <2>2 DEF TurnsDown
  <2>3. CASE Applies(o)
    <3>1. PICK x \in Entries : x.entity = ops[o].entity /\ feed' = Append(feed, x)
      BY <2>3 DEF Applies
    <3>2. ops[o].base = Row(ops[o].entity).version
      BY <1>1, <2>3, AppliedBase
    <3>3. x.entity = e => \E q \in Of(e) : Applies(q) /\ ops[q].base = Row(e).version
      BY <2>3, <3>1, <3>2 DEF Of
    <3> QED
      BY <1>1, <1>3, <3>1, <3>3
  <2> QED
    BY <2>1, <2>2, <2>3
<1>5. CASE PeersEdit
  <2>1. PICK x \in Entries : x.edit = MaxOps + Len(feed) + 1 /\ feed' = Append(feed, x)
    BY <1>5 DEF PeersEdit
  <2>2. x.edit > MaxOps
    BY <1>1, <2>1
  <2> QED
    BY <1>1, <1>3, <2>1, <2>2
<1>6. CASE Grows \/ Moves \/ Reports \/ Pulls \/ Resolves
  <2>1. feed' = feed
    BY <1>6 DEF Grows, Moves, Reports, Pulls, Resolves, Settles, server
  <2> QED
    BY <1>2, <2>1
<1> QED
  BY <1>4, <1>5, <1>6 DEF Steps

(* An operation waits until it is applied, on the version it is based on.      *)
LEMMA WaitsUntil ==
  ASSUME Held, Steps, NEW e \in Entities, NEW j \in Of(e), Waits(j)
  PROVE  Waits(j)' \/ (ops[j].base = Row(e).version /\ Row(e).version' = Row(e).version + 1)
<1>1. j \in DOMAIN ops /\ ops[j].entity = e /\ j \in 1 .. MaxOps /\ decided[j] \in Answers
      /\ (decided[j] # NoAnswer => decided'[j] = decided[j])
  BY OperationsStand
<1>2. CASE decided'[j] = decided[j]
  BY <1>2 DEF Waits
<1>3. CASE decided'[j] # decided[j]
  <2>1. Decides
    BY <1>3 DEF Steps, Grows, Moves, Reports, Pulls, PeersEdit, Resolves, Settles, server
  <2>2. PICK o \in DOMAIN ops : Applies(o) \/ TurnsDown(o)
    BY <2>1 DEF Decides
  <2>3. decided \in [1 .. MaxOps -> Answers] /\ feed \in Seq(Entries) /\ Sound
    BY DEF Held, Sound, Typed
  <2>4. o = j
    BY <1>1, <1>3, <2>2, <2>3 DEF Applies, TurnsDown
  <2>5. CASE TurnsDown(j)
    <3>1. decided'[j].status = "CONFLICT"
      BY <1>1, <2>3, <2>5 DEF TurnsDown
    <3> QED
      BY <3>1 DEF Waits
  <2>6. CASE Applies(j)
    <3>1. ops[j].base = Row(e).version
      BY <1>1, <2>3, <2>6, AppliedBase
    <3>2. PICK x \in Entries : x.entity = e /\ feed' = Append(feed, x)
      BY <1>1, <2>6 DEF Applies
    <3>3. Row(e).version' = Row(e).version + 1
      BY <2>3, <3>2, RowGrows
    <3> QED
      BY <3>1, <3>3
  <2> QED
    BY <2>2, <2>4, <2>5, <2>6
<1> QED
  BY <1>2, <1>3

LEMMA SettlesSettled ==
  ASSUME Held, Steps, NEW e \in Entities, NEW o \in Of(e), Settles(o)
  PROVE  Settled(e)'
<1>1. o \in Of(e)' /\ o \in 1 .. MaxOps
  BY OperationsStand
<1>2. Decision(o) /\ conflicts[o].status = "PENDING"
  BY <1>1 DEF Held, Sound, Decisions, Settles
<1>3. decided[o].type = "EDIT_EDIT" /\ decided' = decided /\ conflicts'[o].status = "RESOLVED"
  BY <1>2 DEF Decision, Settles, server
<1> QED
  BY <1>1, <1>3 DEF Settled

LEMMA BasesStay ==
  ASSUME Held, Steps, Typed', NEW e \in Entities, Bases(e)
  PROVE  Bases(e)'
<1>1. CASE Settled(e) \/ Settled(e)'
  BY <1>1, SettledStays DEF Bases
<1>2. CASE ~Settled(e) /\ ~Settled(e)'
  <2>1. /\ \A i \in Of(e) : ops[i].base < records[e].version
        /\ \A i, j \in Of(e) : i < j => ops[i].base < ops[j].base
    BY <1>2 DEF Bases
  <2>2. \A o \in Of(e) : ~Settles(o)
    BY <1>2, SettlesSettled
  <2>3. records[e].version \in Nat /\ records'[e].version \in Nat
    BY DEF Held, Sound, Typed, Records
  <2>4. records[e].version <= records'[e].version
    BY <2>2, <2>3, RecordMoves
  <2>5. \A i \in Of(e) : ops'[i].base = ops[i].base /\ ops[i].base \in Nat /\ i \in Nat
    BY OperationsStand
  <2>6. CASE Of(e)' = Of(e)
    <3>1. \A i \in Of(e)' : ops'[i].base < records'[e].version
      BY <2>1, <2>3, <2>4, <2>5, <2>6
    <3>2. \A i, j \in Of(e)' : i < j => ops'[i].base < ops'[j].base
      BY <2>1, <2>5, <2>6
    <3> QED
      BY <3>1, <3>2 DEF Bases
  <2>7. ASSUME NEW x \in Operations, NEW new, new = Len(ops) + 1,
               Of(e)' = Of(e) \cup {new}, new \notin Of(e),
               ops'[new].base = x.base, new \in Nat, x.base \in Nat,
               \A i \in Of(e) : i < new,
               x.base = records[e].version, records'[e].version = x.base + 1
        PROVE  Bases(e)'
    <3>1. \A i \in Of(e)' : ops'[i].base < records'[e].version
      BY <2>1, <2>3, <2>4, <2>5, <2>7
    <3>2. ASSUME NEW i \in Of(e)', NEW j \in Of(e)', i < j
          PROVE  ops'[i].base < ops'[j].base
      <4>1. i # new
        BY <2>5, <2>7, <3>2
      <4>2. i \in Of(e)
        BY <2>7, <4>1
      <4>3. CASE j = new
        BY <2>1, <2>5, <2>7, <4>2, <4>3
      <4>4. CASE j \in Of(e)
        BY <2>1, <2>5, <3>2, <4>2, <4>4
      <4> QED
        BY <2>7, <4>3, <4>4
    <3> QED
      BY <3>1, <3>2 DEF Bases
  <2>8. Of(e)' = Of(e) \/
          \E x \in Operations :
            /\ Of(e)' = Of(e) \cup {Len(ops) + 1} /\ Len(ops) + 1 \notin Of(e)
            /\ ops'[Len(ops) + 1].base = x.base /\ Len(ops) \in Nat /\ x.base \in Nat
            /\ \A i \in Of(e) : i < Len(ops) + 1
            /\ x.base = records[e].version /\ records'[e].version = x.base + 1
    BY <2>2, OperationsOf
  <2> QED
    BY <2>6, <2>7, <2>8
<1> QED
  BY <1>1, <1>2

LEMMA AheadStays ==
  ASSUME Held, Steps, Typed', NEW e \in Entities, Turned(e), Ahead(e)
  PROVE  Ahead(e)'
<1>1. /\ records[e].version > Row(e).version =>
           \E j \in Of(e) : Waits(j) /\ ops[j].base + 1 = records[e].version
      /\ \A i \in Of(e) : ops[i].base > Row(e).version =>
           \E j \in Of(e) : j < i /\ Waits(j) /\ ops[j].base + 1 = ops[i].base
  BY DEF Ahead
<1>2. /\ records[e].version \in Nat /\ records'[e].version \in Nat /\ Row(e).version \in Nat
      /\ Row(e).version' \in Nat /\ Row(e).version' >= Row(e).version
      /\ Row(e).version' = Row(e).version \/ Row(e).version' = Row(e).version + 1
  <2>1. records[e].version \in Nat /\ records'[e].version \in Nat
    BY DEF Held, Sound, Typed, Records
  <2>2. Row(e).version \in Nat
        /\ (Row(e).version' = Row(e).version \/ Row(e).version' = Row(e).version + 1)
    BY RowMoves
  <2> QED
    BY <2>1, <2>2
<1>3. \A i \in Of(e) : /\ ops'[i].base = ops[i].base /\ ops[i].base \in Nat /\ i \in Nat
                       /\ i \in Of(e)'
  BY OperationsStand
<1>4. ASSUME NEW j \in Of(e), Waits(j), NEW v \in Nat, ops[j].base + 1 = v, v > Row(e).version'
      PROVE  j \in Of(e)' /\ Waits(j)' /\ ops'[j].base + 1 = v
  <2>1. ops[j].base # Row(e).version \/ Row(e).version' # Row(e).version + 1
    BY <1>2, <1>3, <1>4
  <2> QED
    BY <1>3, <1>4, <2>1, WaitsUntil
<1>5. records[e].version > Row(e).version' =>
        \E j \in Of(e)' : Waits(j)' /\ ops'[j].base + 1 = records[e].version
  BY <1>1, <1>2, <1>4
<1>6. ASSUME NEW i \in Of(e), ops[i].base > Row(e).version'
      PROVE  \E j \in Of(e)' : j < i /\ Waits(j)' /\ ops'[j].base + 1 = ops'[i].base
  <2>1. ops[i].base > Row(e).version
    BY <1>2, <1>3, <1>6
  <2>2. PICK j \in Of(e) : j < i /\ Waits(j) /\ ops[j].base + 1 = ops[i].base
    BY <1>1, <2>1
  <2> QED
    BY <1>3, <1>4, <1>6, <2>2
<1>7. ASSUME NEW o \in Of(e), Settles(o)
      PROVE  conflicts[o].version \in Nat /\ conflicts[o].version <= Row(e).version
  <2>1. o \in DOMAIN ops /\ o \in 1 .. MaxOps /\ ops[o].entity = e
    BY OperationsStand
  <2>2. Decision(o) /\ conflicts[o].status = "PENDING"
    BY <1>7, <2>1 DEF Held, Sound, Decisions, Settles
  <2>3. decided[o].type = "EDIT_EDIT" /\ conflicts[o].version = decided[o].version
    BY <2>2 DEF Decision
  <2>4. conflicts[o].version \in Nat
    BY <2>1, OperationTyped DEF Held, Sound, ConflictRecords
  <2> QED
    BY <2>1, <2>3, <2>4 DEF Turned
<1>8. CASE Of(e)' = Of(e)
  <2>1. \/ records'[e].version = records[e].version
        \/ records'[e].version <= Row(e).version
    BY <1>7, <1>8, RecordMoves
  <2>2. records'[e].version > Row(e).version' =>
          \E j \in Of(e)' : Waits(j)' /\ ops'[j].base + 1 = records'[e].version
    BY <1>2, <1>5, <2>1
  <2>3. \A i \in Of(e)' : ops'[i].base > Row(e).version' =>
          \E j \in Of(e)' : j < i /\ Waits(j)' /\ ops'[j].base + 1 = ops'[i].base
    BY <1>3, <1>6, <1>8
  <2> QED
    BY <2>2, <2>3 DEF Ahead
<1>9. ASSUME NEW x \in Operations, NEW new, new = Len(ops) + 1, new \in Nat,
             Of(e)' = Of(e) \cup {new}, new \notin Of(e),
             ops'[new].base = x.base, x.base \in Nat, decided'[new] = NoAnswer,
             \A i \in Of(e) : i < new, feed' = feed,
             \/ x.base = records[e].version /\ records'[e].version = x.base + 1
             \/ \E o \in Of(e) :
                  /\ Settles(o) /\ records' = records
                  /\ x.base \in {records[e].version, conflicts[o].version}
      PROVE  Ahead(e)'
  <2>1. Waits(new)'
    BY <1>9, PlainAnswers DEF Waits
  <2>2. records'[e].version > Row(e).version' =>
          \E j \in Of(e)' : Waits(j)' /\ ops'[j].base + 1 = records'[e].version
    BY <1>5, <1>9, <2>1
  <2>3. x.base > Row(e).version' => x.base = records[e].version
    BY <1>2, <1>7, <1>9
  <2>4. x.base > Row(e).version' =>
          \E j \in Of(e)' : j < new /\ Waits(j)' /\ ops'[j].base + 1 = x.base
    <3> SUFFICES ASSUME x.base > Row(e).version'
                 PROVE  \E j \in Of(e)' : j < new /\ Waits(j)' /\ ops'[j].base + 1 = x.base
      OBVIOUS
    <3>1. records[e].version > Row(e).version /\ x.base = records[e].version
      BY <1>2, <2>3
    <3>2. PICK j \in Of(e) : Waits(j) /\ ops[j].base + 1 = records[e].version
      BY <1>1, <3>1
    <3>3. j \in Of(e)' /\ Waits(j)' /\ ops'[j].base + 1 = x.base
      BY <1>4, <1>9, <3>1, <3>2
    <3> QED
      BY <1>9, <3>3
  <2>5. \A i \in Of(e)' : ops'[i].base > Row(e).version' =>
          \E j \in Of(e)' : j < i /\ Waits(j)' /\ ops'[j].base + 1 = ops'[i].base
    BY <1>3, <1>6, <1>9, <2>4
  <2> QED
    BY <2>2, <2>5 DEF Ahead
<1>10. Of(e)' = Of(e) \/
         \E x \in Operations :
           /\ Of(e)' = Of(e) \cup {Len(ops) + 1} /\ Len(ops) + 1 \notin Of(e)
           /\ ops'[Len(ops) + 1].base = x.base /\ Len(ops) \in Nat /\ x.base \in Nat
           /\ decided'[Len(ops) + 1] = NoAnswer
           /\ \A i \in Of(e) : i < Len(ops) + 1
           /\ feed' = feed
           /\ \/ x.base = records[e].version /\ records'[e].version = x.base + 1
              \/ \E o \in Of(e) :
                   /\ Settles(o) /\ records' = records
                   /\ x.base \in {records[e].version, conflicts[o].version}
  BY OperationsOf
<1> QED
  BY <1>8, <1>9, <1>10

LEMMA HistoryGrows ==
  ASSUME Held, Steps, NEW e \in Entities, History(e)
  PROVE  History(e)'
<1>1. /\ \A n \in Changes(e) : /\ n \in Changes(e)' /\ feed'[n] = feed[n]
                               /\ VersionAt(n)' = VersionAt(n)
      /\ Row(e).version \in Nat
      /\ \/ Row(e).version' = Row(e).version
         \/ /\ Row(e).version' = Row(e).version + 1
            /\ \/ \E n \in Changes(e)' : feed'[n].edit > MaxOps
                                         /\ VersionAt(n)' = Row(e).version + 1
               \/ \E o \in Of(e) : Applies(o) /\ ops[o].base = Row(e).version
  BY RowMoves
<1>2. ASSUME NEW v, ByPeer(e, v) PROVE ByPeer(e, v)'
  BY <1>1, <1>2 DEF ByPeer
<1>3. ASSUME NEW v, ByOperation(e, v) PROVE ByOperation(e, v)'
  <2>1. PICK j \in Of(e) : decided[j].status = "APPLIED" /\ ops[j].base = v
    BY <1>3 DEF ByOperation
  <2>2. decided[j] # NoAnswer
    BY <2>1, PlainAnswers
  <2> QED
    BY <2>1, <2>2, OperationsStand DEF ByOperation
<1>4. PICK last \in Nat : last = Row(e).version
  BY <1>1
<1>5. ASSUME Row(e).version' = last + 1
      PROVE  ByPeer(e, last)' \/ ByOperation(e, last)'
  <2>1. CASE \E n \in Changes(e)' : feed'[n].edit > MaxOps /\ VersionAt(n)' = last + 1
    BY <2>1 DEF ByPeer
  <2>2. CASE \E o \in Of(e) : Applies(o) /\ ops[o].base = last
    <3>1. PICK o \in Of(e) : Applies(o) /\ ops[o].base = last
      BY <2>2
    <3>2. decided \in [1 .. MaxOps -> Answers] /\ o \in 1 .. MaxOps
      BY OperationsStand DEF Held, Sound, Typed
    <3>3. decided'[o].status = "APPLIED"
      BY <3>1, <3>2, PlainTyped DEF Applies
    <3>4. o \in Of(e)' /\ ops'[o].base = last
      BY <3>1, OperationsStand
    <3> QED
      BY <3>3, <3>4 DEF ByOperation
  <2>3. \/ \E n \in Changes(e)' : feed'[n].edit > MaxOps /\ VersionAt(n)' = last + 1
        \/ \E o \in Of(e) : Applies(o) /\ ops[o].base = last
    BY <1>1, <1>4, <1>5
  <2> QED
    BY <2>1, <2>2, <2>3
<1>6. ASSUME NEW v \in Nat, FirstVersion(e) <= v, v < Row(e).version'
      PROVE  ByPeer(e, v)' \/ ByOperation(e, v)'
  <2>1. CASE v < last
    BY <1>2, <1>3, <1>4, <1>6, <2>1 DEF History
  <2>2. CASE ~(v < last)
    <3>1. v = last /\ Row(e).version' = last + 1
      BY <1>1, <1>4, <1>6, <2>2
    <3> QED
      BY <1>5, <3>1
  <2> QED
    BY <2>1, <2>2
<1> QED
  BY <1>6 DEF History, FirstVersion

LEMMA TurnedStays ==
  ASSUME Held, Steps, Sound', NEW e \in Entities, Turned(e)
  PROVE  Turned(e)'
<1>1. SUFFICES ASSUME NEW i \in Of(e)', decided'[i].type = "EDIT_EDIT"
               PROVE  /\ decided'[i].version # ops'[i].base
                      /\ decided'[i].version <= Row(e).version'
  BY DEF Turned
<1>2. i \in Of(e)
  <2>1. SUFFICES ASSUME i \notin Of(e) PROVE FALSE
    OBVIOUS
  <2>2. i = Len(ops) + 1 /\ decided'[Len(ops) + 1] = NoAnswer
    BY <2>1, OperationsOf
  <2> QED
    BY <1>1, <2>2, PlainAnswers
<1>3. i \in DOMAIN ops /\ e = ops[i].entity
  BY <1>2, OperationsStand
<1>4. ops'[i].base = ops[i].base /\ ops[i].base \in Nat /\ i \in 1 .. MaxOps
  BY <1>2, OperationsStand
<1>5. /\ Row(e).version \in Nat /\ Row(e).version' >= Row(e).version /\ Row(e).version' \in Nat
  BY RowMoves
<1>6. CASE decided'[i] = decided[i]
  <2>1. decided[i].version \in Nat
    BY <1>4 DEF Held, Sound, Typed, Answers
  <2> QED
    BY <1>1, <1>2, <1>3, <1>4, <1>5, <1>6, <2>1 DEF Turned
<1>7. CASE decided'[i] # decided[i]
  <2>1. Decides
    BY <1>7 DEF Steps, Grows, Moves, Reports, Pulls, PeersEdit, Resolves, Settles, server
  <2>2. PICK o \in DOMAIN ops : Applies(o) \/ TurnsDown(o)
    BY <2>1 DEF Decides
  <2>3. decided \in [1 .. MaxOps -> Answers] /\ Typed /\ feed \in Seq(Entries)
    BY DEF Held, Sound, Typed
  <2>4. o = i
    BY <1>4, <1>7, <2>2, <2>3 DEF Applies, TurnsDown
  <2>5. ~Applies(i)
    <3>1. Applies(i) => decided'[i] = Plain("APPLIED")
      BY <1>4, <2>3 DEF Applies
    <3>2. Plain("APPLIED").type = "NONE"
      BY PlainTyped
    <3> QED
      BY <1>1, <3>1, <3>2
  <2>6. TurnsDown(i)
    BY <2>2, <2>4, <2>5
  <2>7. /\ decided'[i].status = "CONFLICT" /\ decided'[i].type = ConflictOf(i)
        /\ decided'[i].version = Row(e).version
    BY <1>3, <1>4, <2>3, <2>6 DEF TurnsDown
  <2>8. ops[i].kind # "CREATE"
    <3>1. Creation(i)'
      BY <1>1 DEF Sound, Creations, Of
    <3>2. ~(Creates(i)')
      BY <2>7, <3>1 DEF Creation
    <3>3. ops' = ops
      BY <2>1 DEF Decides
    <3> QED
      BY <3>2, <3>3 DEF Creates
  <2>9. Row(e).version # ops[i].base
    BY <1>1, <1>3, <2>3, <2>7, <2>8, ConflictCases
  <2> QED
    BY <1>3, <1>4, <1>5, <2>7, <2>9
<1> QED
  BY <1>6, <1>7

LEMMA AlwaysCauses ==
  ASSUME OneLoop
  PROVE  Spec => []Causes
<1>1. Init => Causes
  <2> SUFFICES ASSUME Init PROVE Causes
    OBVIOUS
  <2>1. /\ ops = <<>> /\ feed = <<>>
        /\ records = [e \in Entities |-> IF e \in Existing THEN FirstRecord ELSE NoRecord]
    BY DEF Init
  <2>2. DOMAIN ops = {} /\ Typed
    BY <2>1, HeldAtFirst DEF Held, Sound
  <2>3. ASSUME NEW e \in Entities PROVE Caused(e)
    <3>1. Of(e) = {}
      BY <2>2 DEF Of
    <3>2. Changes(e) = {}
      BY <2>1 DEF Changes
    <3>3. Row(e).version = FirstVersion(e) /\ FirstVersion(e) \in Nat
      <4>1. /\ Row(e).version = FirstVersion(e) + Cardinality(Changes(e))
            /\ FirstVersion(e) \in Nat
        BY <2>2, RowTyped DEF Typed
      <4> QED
        BY <3>2, <4>1, FS_EmptySet
    <3>4. records[e].version = FirstVersion(e)
      BY <2>1 DEF FirstRecord, NoRecord, FirstVersion
    <3>5. Ahead(e)
      BY <3>1, <3>3, <3>4 DEF Ahead
    <3>6. History(e)
      BY <3>3 DEF History
    <3> QED
      BY <3>1, <3>5, <3>6 DEF Bases, Turned, Caused
  <2> QED
    BY <2>3 DEF Causes
<1>2. ASSUME Held, Causes, [Next]_vars PROVE Causes'
  <2>1. Steps /\ Sound' /\ Typed'
    BY <1>2, HeldStays DEF Held, Sound
  <2>2. ASSUME NEW e \in Entities PROVE Caused(e)'
    <3>1. Turned(e) /\ Bases(e) /\ Ahead(e) /\ History(e)
      BY <1>2 DEF Causes, Caused
    <3> QED
      BY <1>2, <2>1, <3>1, TurnedStays, BasesStay, AheadStays, HistoryGrows DEF Caused
  <2> QED
    BY <2>2 DEF Causes
<1> QED
  BY <1>1, <1>2, AlwaysHeld, PTL DEF Spec

LEMMA ConflictCaused ==
  ASSUME Held, KeptOnce, Causes, Steps, Sound', NEW i \in DOMAIN ops,
         decided[i] = NoAnswer, decided'[i].type = "EDIT_EDIT"
  PROVE  LET e == ops[i].entity
             others == {j \in DOMAIN ops : ops[j].entity = e}
         IN \/ \E n \in Changes(e) : feed[n].edit > MaxOps /\ VersionAt(n) > ops[i].base
            \/ /\ Row(e).version > ops[i].base
               /\ \E j \in others : decided[j].type = "EDIT_EDIT" /\ conflicts[j].status = "RESOLVED"
            \/ /\ Row(e).version < ops[i].base
               /\ \E j \in others :
                    /\ j < i /\ decided[j].status # "APPLIED"
                    /\ ops[j].edit = ops[i].edit => decided[j].version < ops[j].base
<1>1. PICK e \in Entities : e = ops[i].entity
  BY OperationTyped DEF Held, Sound
<1>2. i \in Of(e) /\ Of(e) = {j \in DOMAIN ops : ops[j].entity = e} /\ i \in Nat
      /\ ops[i].base \in Nat /\ Typed /\ feed \in Seq(Entries)
  BY <1>1, OperationTyped DEF Of, Held, Sound, Typed
<1>3. Bases(e) /\ Ahead(e) /\ History(e) /\ Turned(e)
  BY DEF Causes, Caused
<1>4. Row(e).version \in Nat /\ FirstVersion(e) \in {0, 1}
  BY <1>2, RowTyped, FirstVersions
<1>5. ops[i].kind # "CREATE" /\ ops[i].base # 0
  <2>1. decided'[i].status = "CONFLICT"
    <3>1. i \in 1 .. MaxOps
      BY OperationTyped DEF Held, Sound
    <3>2. Decision(i)'
      BY <3>1 DEF Sound, Decisions
    <3>3. decided'[i].status # "CONFLICT" => decided'[i] = Plain(decided'[i].status)
      BY <3>2 DEF Decision, Plain, NoAnswer
    <3>4. decided'[i].status \in {"NONE", "APPLIED", "CONFLICT"}
      BY <3>2 DEF Decision
    <3> QED
      BY <3>3, <3>4, PlainTyped DEF Statuses
  <2>2. i \in DOMAIN ops' /\ ops'[i].kind = ops[i].kind
    BY HistoryStands DEF Same
  <2>3. Creation(i)'
    BY <2>2 DEF Sound, Creations
  <2>4. ops[i].kind # "CREATE"
    BY <2>1, <2>2, <2>3 DEF Creation, Creates
  <2> QED
    BY <2>4 DEF Held, Sound, Creations, Creation, Creates
<1>6. Row(e).version # ops[i].base
  <2>1. decided'[i] # decided[i]
    BY PlainAnswers
  <2>2. Decides
    BY <2>1 DEF Steps, Grows, Moves, Reports, Pulls, PeersEdit, Resolves, Settles, server
  <2>3. PICK o \in DOMAIN ops : Applies(o) \/ TurnsDown(o)
    BY <2>2 DEF Decides
  <2>4. decided \in [1 .. MaxOps -> Answers] /\ i \in 1 .. MaxOps
    BY <1>2, OperationTyped DEF Typed
  <2>5. o = i
    BY <2>1, <2>3, <2>4 DEF Applies, TurnsDown
  <2>6. TurnsDown(i)
    <3>1. Applies(i) => decided'[i] = Plain("APPLIED")
      BY <2>4 DEF Applies
    <3> QED
      BY <2>3, <2>5, <3>1, PlainTyped
  <2>7. ConflictOf(i) = "EDIT_EDIT"
    BY <2>4, <2>6 DEF TurnsDown
  <2> QED
    BY <1>1, <1>2, <1>5, <2>7, ConflictCases
<1>7. CASE Row(e).version > ops[i].base
  <2>1. FirstVersion(e) <= ops[i].base
    BY <1>2, <1>4, <1>5
  <2>2. ByPeer(e, ops[i].base) \/ ByOperation(e, ops[i].base)
    BY <1>2, <1>3, <1>7, <2>1 DEF History
  <2>3. CASE ByPeer(e, ops[i].base)
    <3>1. PICK n \in Changes(e) : feed[n].edit > MaxOps /\ VersionAt(n) = ops[i].base + 1
      BY <2>3 DEF ByPeer
    <3>2. VersionAt(n) > ops[i].base
      BY <1>2, <3>1
    <3> QED
      BY <1>1, <3>1, <3>2
  <2>4. CASE ByOperation(e, ops[i].base)
    <3>1. PICK j \in Of(e) : decided[j].status = "APPLIED" /\ ops[j].base = ops[i].base
      BY <2>4 DEF ByOperation
    <3>2. j # i /\ j \in Nat
      BY <3>1, PlainAnswers, OperationTyped DEF Of, Held, Sound
    <3>3. Settled(e)
      <4>1. Settled(e) \/ \A k, l \in Of(e) : k < l => ops[k].base < ops[l].base
        BY <1>3 DEF Bases
      <4>2. j < i \/ i < j
        BY <1>2, <3>2
      <4> QED
        BY <1>2, <3>1, <4>1, <4>2
    <3> QED
      BY <1>1, <1>2, <1>7, <3>3 DEF Settled
  <2> QED
    BY <2>2, <2>3, <2>4
<1>8. CASE Row(e).version < ops[i].base
  <2>1. PICK j \in Of(e) : j < i /\ Waits(j) /\ ops[j].base + 1 = ops[i].base
    BY <1>2, <1>3, <1>8 DEF Ahead
  <2>2. j \in DOMAIN ops /\ ops[j].entity = e /\ ops[j].base \in Nat /\ decided[j] \in Answers
    BY <1>2, <2>1, OperationTyped DEF Of
  <2>3. ASSUME ops[j].edit = ops[i].edit PROVE decided[j].version < ops[j].base
    <3>1. decided[j].type = "EDIT_EDIT"
      BY <2>1, <2>2, <2>3 DEF KeptOnce
    <3>2. decided[j].version # ops[j].base /\ decided[j].version <= Row(e).version
      BY <1>3, <2>1, <3>1 DEF Turned
    <3>3. decided[j].version \in Nat
      BY <2>2 DEF Answers
    <3> QED
      BY <1>2, <1>4, <1>8, <2>1, <2>2, <3>2, <3>3
  <2>4. decided[j].status # "APPLIED"
    BY <2>1 DEF Waits
  <2> QED
    BY <1>1, <1>2, <1>8, <2>1, <2>3, <2>4
<1> QED
  BY <1>2, <1>4, <1>6, <1>7, <1>8

(* An edit conflicts for a reason: another device changed the record, or a     *)
(* resolution took it off the versions of the queue, or an earlier edit was    *)
(* not applied.  Edits made in a row that all go through never conflict.      *)
THEOREM ConflictsAreCaused ==
  ASSUME OneLoop
  PROVE  Spec => ConflictsHaveCause
<1> DEFINE AnyCause ==
      \A i \in DOMAIN ops :
        LET e == ops[i].entity
            others == {j \in DOMAIN ops : ops[j].entity = e}
        IN decided[i] = NoAnswer /\ decided'[i].type = "EDIT_EDIT" =>
          \/ \E n \in Changes(e) : feed[n].edit > MaxOps /\ VersionAt(n) > ops[i].base
          \/ /\ Row(e).version > ops[i].base
             /\ \E j \in others : decided[j].type = "EDIT_EDIT" /\ conflicts[j].status = "RESOLVED"
          \/ /\ Row(e).version < ops[i].base
             /\ \E j \in others :
                  /\ j < i /\ decided[j].status # "APPLIED"
                  /\ ops[j].edit = ops[i].edit => decided[j].version < ops[j].base
<1>1. ASSUME Held, EditsOnce, Causes, [Next]_vars PROVE [AnyCause]_vars
  <2>1. Steps /\ Sound' /\ KeptOnce
    BY <1>1, HeldStays DEF Held, EditsOnce
  <2>2. AnyCause
    BY <1>1, <2>1, ConflictCaused
  <2> QED
    BY <2>2
<1> QED
  BY <1>1, AlwaysHeld, AlwaysOnce, AlwaysCauses, PTL DEF Spec, ConflictsHaveCause
=============================================================================
