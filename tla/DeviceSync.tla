----------------------------- MODULE DeviceSync -----------------------------
(***************************************************************************)
(* One device of FieldCore from the edit to the server and back: the        *)
(* repositories that change a record and queue an operation in one Dexie    *)
(* transaction (packages/sync/src/repository), the push service with its    *)
(* batches, backoff and recovery, the conflicts and their resolution        *)
(* (services/push-sync.ts, conflict-resolution.ts), and the pull service.   *)
(*                                                                         *)
(* The server decides an operation in one step, at most once: PushServer    *)
(* shows that its transactions do.  Other devices are peers whose changes   *)
(* just appear.  A pull is one step, PullFeed has its interleavings.  A     *)
(* loop is one pushBatch; its steps are the awaits on Dexie and on the      *)
(* transport, and the user edits, resolves and reloads between any two.     *)
(* Indexes into ops are localSeq, and stand for operationIds.               *)
(***************************************************************************)
EXTENDS Naturals, Sequences, FiniteSets, FiniteSetsExt

CONSTANTS
  Entities,
  Parent,       \* the project of an entity; a project is its own
  Existing,     \* entities both sides have, at version 1, when the model starts
  Loops,        \* the tabs of the app: each runs one pushBatch at a time
  BatchSize,    \* operations of a batch (25 in push-sync.ts)
  Sweeps,       \* whether the start of the app runs recoverDanglingSyncingOperations:
                \* FALSE in it as it is wired, which has no call; both are possible
                \* if it holds TRUE and FALSE
  Watched,      \* whether the device may be revoked or run out of its window
  MaxOps,       \* bound on the operations queued
  MaxPeerEdits, \* bound on the changes of other devices
  MaxFaults     \* bound on lost answers, failed transactions, restarts and device changes

ASSUME DeviceAssumption ==
  /\ Parent \in [Entities -> Entities]
  /\ Existing \subseteq Entities
  /\ BatchSize \in Nat \ {0}
  /\ Sweeps \in SUBSET BOOLEAN \ {{}} /\ Watched \in BOOLEAN
  /\ MaxOps \in Nat /\ MaxPeerEdits \in Nat /\ MaxFaults \in Nat

VARIABLES
  feed,      \* change_log of the server: [entity, edit, tombstone], in sequence
  decided,   \* idempotency_records: the stored answer for an operation
  window,    \* devices row: "active", "expired" or "revoked"
  orphans,   \* rests of requests whose client is gone
  records,   \* local records: [version, deleted, edits], version 0: none;
             \* edits: whose payload is in the record
  ops,       \* sync_operations, by localSeq
  conflicts, \* local conflicts, by operation
  cursor,    \* pull cursor: entries of feed passed
  pc,        \* where each pushBatch is
  batch,     \* its operations
  answers,   \* what the server has answered to them so far
  faults     \* faults so far: for each, the operations it left SYNCING

server == <<feed, decided, window, orphans>>
client == <<records, ops, conflicts, cursor>>
loop == <<pc, batch, answers>>
vars == <<server, client, loop, faults>>

-----------------------------------------------------------------------------
(* Data.                                                                   *)

NoAnswer == [status |-> "NONE", type |-> "NONE", version |-> 0, edits |-> {}]
Plain(status) == [NoAnswer EXCEPT !.status = status]
NoConflict == [status |-> "NONE", version |-> 0, edits |-> {}]
NoRecord == [version |-> 0, deleted |-> FALSE, edits |-> {}]
FirstRecord == [NoRecord EXCEPT !.version = 1]

Changes(e) == {i \in DOMAIN feed : feed[i].entity = e}
Older(i) == {j \in Changes(feed[i].entity) : j <= i}
FirstVersion(e) == IF e \in Existing THEN 1 ELSE 0
VersionAt(i) == FirstVersion(feed[i].entity) + Cardinality(Older(i))

(* The row of an entity on the server.                                      *)
Row(e) ==
  [version |-> FirstVersion(e) + Cardinality(Changes(e)),
   deleted |-> \E i \in Changes(e) : feed[i].tombstone,
   edits |-> {feed[i].edit : i \in Changes(e)}]

Exists(r) == r.version > 0
Alive(r) == Exists(r) /\ ~r.deleted

(* assertNotConflictLocked.                                                 *)
Locked(e) == \E i \in DOMAIN ops : ops[i].entity = e /\ conflicts[i].status = "PENDING"

(* Operations with their status set.                                        *)
Set(S, status) ==
  [i \in DOMAIN ops |-> IF i \in S THEN [ops[i] EXCEPT !.status = status] ELSE ops[i]]
Requeue(S, delayed) ==
  [i \in DOMAIN ops |->
     IF i \in S THEN [ops[i] EXCEPT !.status = "PENDING", !.delayed = delayed] ELSE ops[i]]

InBatch(l) == {batch[l][n] : n \in DOMAIN batch[l]}
Rest(l) == SubSeq(batch[l], Len(answers[l]) + 1, Len(batch[l]))

Init ==
  /\ feed = <<>>
  /\ decided = [i \in 1 .. MaxOps |-> NoAnswer]
  /\ window = "active"
  /\ orphans = {}
  /\ records = [e \in Entities |-> IF e \in Existing THEN FirstRecord ELSE NoRecord]
  /\ ops = <<>>
  /\ conflicts = [i \in 1 .. MaxOps |-> NoConflict]
  /\ cursor = 0
  /\ pc = [l \in Loops |-> "idle"]
  /\ batch = [l \in Loops |-> <<>>]
  /\ answers = [l \in Loops |-> <<>>]
  /\ faults = <<>>

-----------------------------------------------------------------------------
(* The contracts of packages/types and packages/validation.                 *)

ALLOWED_SYNC_STATUS_TRANSITIONS ==
  [PENDING |-> {"SYNCING", "REQUIRES_REVALIDATION"},
   SYNCING |-> {"SYNCED", "CONFLICT", "REJECTED", "REQUIRES_REVALIDATION",
                "DEVICE_REVOKED", "PENDING"},
   SYNCED |-> {},
   CONFLICT |-> {"PENDING", "REJECTED"},
   REJECTED |-> {"PENDING"},
   REQUIRES_REVALIDATION |-> {"PENDING", "DEVICE_REVOKED"},
   DEVICE_REVOKED |-> {}]

resolveConflictOperationStatus(type, resolution) ==
  IF type = "EDIT_EDIT" /\ resolution = "KEEP_MINE" THEN "PENDING" ELSE "REJECTED"

(* The way out of CONFLICT depends on what was decided.                     *)
isValidSyncStatusTransition(from, to, type, resolution) ==
  \/ from = to
  \/ /\ to \in ALLOWED_SYNC_STATUS_TRANSITIONS[from]
     /\ from = "CONFLICT" =>
          /\ \/ type = "EDIT_DELETE"
             \/ type = "EDIT_EDIT" /\ resolution \in {"KEEP_SERVER", "KEEP_MINE"}
          /\ to = resolveConflictOperationStatus(type, resolution)

(* syncOperationSchema and pushRequestSchema; base 0 is baseVersion null.    *)
syncOperationSchema(op) == IF op.kind = "CREATE" THEN op.base = 0 ELSE op.base >= 1
pushRequestSchema(seq) ==
  /\ Len(seq) \in 1 .. BatchSize
  /\ \A n \in DOMAIN seq : syncOperationSchema(ops[seq[n]])

-----------------------------------------------------------------------------
(* The repositories: executeAtomicMutation.                                 *)

Enqueue(e, kind, base, edit) ==
  /\ Len(ops) < MaxOps
  /\ ops' = Append(ops, [entity |-> e, kind |-> kind, base |-> base, edit |-> edit,
                         status |-> "PENDING", delayed |-> FALSE])

(* The record and the operation that says so, in one transaction.           *)
Change(e, kind, base, version) ==
  /\ Enqueue(e, kind, base, Len(ops) + 1)
  /\ records' = [records EXCEPT ![e] =
                   [version |-> version, deleted |-> kind = "DELETE",
                    edits |-> records[e].edits \cup {Len(ops) + 1}]]
  /\ UNCHANGED <<server, conflicts, cursor, loop, faults>>

(* A new record gets a fresh id, and goes under the project that the page    *)
(* was opened for, which a pull may have deleted since.                     *)
CreateProject(e) ==
  /\ Parent[e] = e
  /\ ~Exists(records[e]) /\ ~Exists(Row(e))
  /\ Change(e, "CREATE", 0, 1)

CreateBelow(e) ==
  /\ Parent[e] # e /\ Exists(records[Parent[e]])
  /\ ~Exists(records[e]) /\ ~Exists(Row(e))
  /\ Change(e, "CREATE", 0, 1)

(* Mutant of Update: the base is the version before the one that was read.   *)
Update_OldBase_Mutant(e) ==
  /\ ~Locked(e) /\ Alive(records[e])
  /\ Change(e, "UPDATE", records[e].version - 1, records[e].version + 1)

(* Mutant of Update: the record keeps its version.                          *)
Update_SameVersion_Mutant(e) ==
  /\ ~Locked(e) /\ Alive(records[e])
  /\ Change(e, "UPDATE", records[e].version, records[e].version)

Update(e) ==
  /\ ~Locked(e) /\ Alive(records[e])
  /\ Change(e, "UPDATE", records[e].version, records[e].version + 1)

Delete(e) ==
  /\ ~Locked(e) /\ Alive(records[e])
  /\ Change(e, "DELETE", records[e].version, records[e].version + 1)

-----------------------------------------------------------------------------
(* pushBatch, up to the request.                                            *)

Eligible == {i \in DOMAIN ops : ops[i].status = "PENDING" /\ ~ops[i].delayed}

(* getEligiblePendingOperations: the first BatchSize by localSeq, and of     *)
(* these the ones whose record is not locked, in order: a sequence and no   *)
(* choice.                                                                 *)
NextBatch ==
  LET first == {i \in Eligible : Cardinality({j \in Eligible : j <= i}) <= BatchSize}
      allowed == {i \in first : ~Locked(ops[i].entity)}
  IN {seq \in [1 .. Cardinality(allowed) -> allowed] :
        \A m, n \in DOMAIN seq : m < n => seq[m] < seq[n]}

Collect(l) ==
  /\ pc[l] = "idle"
  /\ \E seq \in NextBatch : seq # <<>> /\ batch' = [batch EXCEPT ![l] = seq]
  /\ pc' = [pc EXCEPT ![l] = "collected"]
  /\ UNCHANGED <<server, client, answers, faults>>

(* The batch is SYNCING, and the request leaves.                            *)
Send(l) ==
  /\ pc[l] = "collected"
  /\ ops' = Set(InBatch(l), "SYNCING")
  /\ pc' = [pc EXCEPT ![l] = "sent"]
  /\ UNCHANGED <<server, records, conflicts, cursor, batch, answers, faults>>

-----------------------------------------------------------------------------
(* The server.                                                             *)

(* The device check, once for a batch.                                      *)
Gate(l) ==
  /\ pc[l] = "sent"
  /\ IF window = "active"
     THEN pc' = [pc EXCEPT ![l] = "served"] /\ UNCHANGED answers
     ELSE /\ pc' = [pc EXCEPT ![l] = "answered"]
          /\ answers' = [answers EXCEPT ![l] =
               [n \in DOMAIN batch[l] |->
                  Plain(IF window = "revoked" THEN "DEVICE_REVOKED"
                                              ELSE "REQUIRES_REVALIDATION")]]
  /\ UNCHANGED <<server, client, batch, faults>>

(* The user is a member of the projects that exist: what cannot be resolved  *)
(* to a project row is not authorized.                                      *)
Authorized(o) ==
  IF ops[o].kind = "CREATE"
  THEN Parent[ops[o].entity] = ops[o].entity \/ Exists(Row(Parent[ops[o].entity]))
  ELSE Exists(Row(ops[o].entity))

(* Mutant of ConflictOf: an update of an older version is no conflict.       *)
ConflictOf_StaleBase_Mutant(o) ==
  LET row == Row(ops[o].entity)
  IN IF ops[o].kind = "CREATE" THEN IF Exists(row) THEN "EDIT_EDIT" ELSE "NONE"
     ELSE IF row.deleted THEN "EDIT_DELETE" ELSE "NONE"

ConflictOf(o) ==
  LET row == Row(ops[o].entity)
  IN IF ops[o].kind = "CREATE" THEN IF Exists(row) THEN "EDIT_EDIT" ELSE "NONE"
     ELSE IF row.deleted THEN "EDIT_DELETE"
          ELSE IF row.version # ops[o].base THEN "EDIT_EDIT" ELSE "NONE"

(* Mutant of Outcome: no fast path, an operation is decided again.          *)
Outcome_NoCache_Mutant(o) ==
  IF ~Authorized(o) THEN Plain("UNAUTHORIZED")
  ELSE IF ConflictOf(o) = "NONE" THEN Plain("APPLIED")
  ELSE LET row == Row(ops[o].entity)
       IN [status |-> "CONFLICT", type |-> ConflictOf(o),
           version |-> row.version, edits |-> row.edits]

Outcome(o) ==
  IF decided[o] # NoAnswer THEN decided[o]
  ELSE IF ~Authorized(o) THEN Plain("UNAUTHORIZED")
  ELSE IF ConflictOf(o) = "NONE" THEN Plain("APPLIED")
  ELSE LET row == Row(ops[o].entity)
       IN [status |-> "CONFLICT", type |-> ConflictOf(o),
           version |-> row.version, edits |-> row.edits]

(* One operation evaluated; a transaction that fails leaves no trace.       *)
Evaluate(o, answer) ==
  \/ /\ answer = Outcome(o)
     /\ decided' = IF answer.status = "UNAUTHORIZED" THEN decided
                   ELSE [decided EXCEPT ![o] = answer]
     /\ feed' = IF answer.status = "APPLIED" /\ decided[o] = NoAnswer
                THEN Append(feed, [entity |-> ops[o].entity, edit |-> ops[o].edit,
                                   tombstone |-> ops[o].kind = "DELETE"])
                ELSE feed
     /\ UNCHANGED faults
  \/ /\ decided[o] = NoAnswer /\ Len(faults) < MaxFaults
     /\ answer = Plain("REJECTED")
     /\ faults' = Append(faults, {})
     /\ UNCHANGED <<decided, feed>>

Serve(l) ==
  /\ pc[l] = "served"
  /\ \E answer \in {Outcome(Head(Rest(l))), Plain("REJECTED")} :
       /\ Evaluate(Head(Rest(l)), answer)
       /\ answers' = [answers EXCEPT ![l] = Append(@, answer)]
  /\ pc' = [pc EXCEPT ![l] = IF Len(Rest(l)) = 1 THEN "answered" ELSE "served"]
  /\ UNCHANGED <<window, orphans, client, batch>>

(* A request goes on although its client has given up.                      *)
ServeOrphan(s) ==
  /\ \E answer \in {Outcome(Head(s)), Plain("REJECTED")} : Evaluate(Head(s), answer)
  /\ orphans' = (orphans \ {s}) \cup (IF Len(s) = 1 THEN {} ELSE {Tail(s)})
  /\ UNCHANGED <<window, client, loop>>

PeerEdit(e, tombstone) ==
  /\ Alive(Row(e))
  /\ Cardinality({i \in DOMAIN feed : feed[i].edit > MaxOps}) < MaxPeerEdits
  /\ feed' = Append(feed, [entity |-> e, edit |-> MaxOps + Len(feed) + 1,
                           tombstone |-> tombstone])
  /\ UNCHANGED <<decided, window, orphans, client, loop, faults>>

DeviceChanges ==
  /\ Watched
  /\ \/ /\ window # "revoked"
        /\ window' \in {"expired", "revoked"} \ {window}
        /\ Len(faults) < MaxFaults
        /\ faults' = Append(faults, {})
     \/ /\ window = "expired"
        /\ window' = "active"
        /\ UNCHANGED faults
  /\ UNCHANGED <<feed, decided, orphans, client, loop>>

-----------------------------------------------------------------------------
(* pushBatch, from the answer on.                                           *)

Finish(l) ==
  /\ pc' = [pc EXCEPT ![l] = "idle"]
  /\ batch' = [batch EXCEPT ![l] = <<>>]
  /\ answers' = [answers EXCEPT ![l] = <<>>]

(* Mutant of StatusAfter: an edit of a deleted record waits for the user.    *)
StatusAfter_EditDelete_Mutant(answer) ==
  CASE answer.status = "APPLIED" -> "SYNCED"
    [] OTHER -> answer.status

(* The switch over the results: it has no case for UNAUTHORIZED.            *)
StatusAfter(answer) ==
  CASE answer.status = "APPLIED" -> "SYNCED"
    [] answer.status = "CONFLICT" /\ answer.type = "EDIT_DELETE" -> "REJECTED"
    [] OTHER -> answer.status

(* Mutant of ConflictFrom: an edit of a deleted record locks it.            *)
ConflictFrom_Locking_Mutant(answer) ==
  [status |-> "PENDING", version |-> answer.version, edits |-> answer.edits]

ConflictFrom(answer) ==
  [status |-> IF answer.type = "EDIT_DELETE" THEN "RESOLVED" ELSE "PENDING",
   version |-> answer.version, edits |-> answer.edits]

Reply(l) ==
  LET answer(o) == answers[l][CHOOSE n \in DOMAIN batch[l] : batch[l][n] = o]
  IN /\ pc[l] = "answered"
     /\ ops' = [o \in DOMAIN ops |->
                  IF o \notin InBatch(l) \/ answer(o).status = "UNAUTHORIZED" THEN ops[o]
                  ELSE [ops[o] EXCEPT !.status = StatusAfter(answer(o)),
                                      !.delayed = @ /\ answer(o).status # "APPLIED"]]
     /\ conflicts' = [o \in DOMAIN conflicts |->
                        IF o \in InBatch(l) /\ answer(o).status = "CONFLICT"
                        THEN ConflictFrom(answer(o)) ELSE conflicts[o]]
     /\ Finish(l)
     /\ UNCHANGED <<server, records, cursor, faults>>

(* What is left of a request may still be evaluated.                        *)
Leave(l) ==
  \/ UNCHANGED orphans
  \/ /\ \/ pc[l] = "served"
        \/ pc[l] = "sent" /\ window = "active"
     /\ orphans' = orphans \cup {Rest(l)}

InFlight(l) == pc[l] \in {"sent", "served", "answered"}

(* Mutant of TransportFails: the batch is not reset.                        *)
TransportFails_NoReset_Mutant(l) ==
  /\ InFlight(l)
  /\ Len(faults) < MaxFaults
  /\ faults' = Append(faults, {})
  /\ Leave(l)
  /\ Finish(l)
  /\ UNCHANGED <<feed, decided, window, client>>

(* The transport fails: every operation of the batch is queued again, with   *)
(* a delay of its own.                                                      *)
TransportFails(l) ==
  /\ InFlight(l)
  /\ Len(faults) < MaxFaults
  /\ faults' = Append(faults, {})
  /\ Leave(l)
  /\ ops' = Requeue(InBatch(l), TRUE)
  /\ Finish(l)
  /\ UNCHANGED <<feed, decided, window, records, conflicts, cursor>>

(* nextEligibleRetryAt of an operation has passed.                          *)
DelayEnds(i) ==
  /\ ops[i].delayed
  /\ ops' = [ops EXCEPT ![i].delayed = FALSE]
  /\ UNCHANGED <<server, records, conflicts, cursor, loop, faults>>

(* Mutant of Restart: the sweep runs beside a batch that is still under way. *)
Restart_Beside_Mutant(l) ==
  /\ Len(faults) < MaxFaults
  /\ faults' = Append(faults, {})
  /\ orphans' = orphans
  /\ \E sweep \in Sweeps :
       ops' = IF sweep THEN Requeue({i \in DOMAIN ops : ops[i].status = "SYNCING"}, FALSE)
                       ELSE ops
  /\ UNCHANGED <<feed, decided, window, records, conflicts, cursor, loop>>

(* A tab is closed or crashes, and starts again on what IndexedDB holds.     *)
Restart(l) ==
  /\ Len(faults) < MaxFaults
  /\ Leave(l)
  /\ Finish(l)
  /\ \E sweep \in Sweeps :
       /\ ops' = IF sweep THEN Requeue({i \in DOMAIN ops : ops[i].status = "SYNCING"}, FALSE)
                          ELSE ops
       /\ faults' = Append(faults, IF sweep \/ ~InFlight(l) THEN {} ELSE InBatch(l))
  /\ UNCHANGED <<feed, decided, window, records, conflicts, cursor>>

(* resolveRevalidationSuccess.                                              *)
Revalidated ==
  LET held == {i \in DOMAIN ops : ops[i].status = "REQUIRES_REVALIDATION"}
  IN /\ window = "active" /\ held # {}
     /\ ops' = Requeue(held, FALSE)
     /\ UNCHANGED <<server, records, conflicts, cursor, loop, faults>>

-----------------------------------------------------------------------------
(* Conflict resolution.                                                     *)

(* Mutant of Resolve: KEEP_MINE leaves the first operation as it is.         *)
Resolve_Keeps_Mutant(o, resolution) ==
  /\ conflicts[o].status = "PENDING"
  /\ resolution = "KEEP_MINE" /\ Len(ops) < MaxOps
  /\ conflicts' = [conflicts EXCEPT ![o].status = "RESOLVED"]
  /\ ops' = Append(ops, [ops[o] EXCEPT !.base = conflicts[o].version, !.status = "PENDING"])
  /\ UNCHANGED <<server, records, cursor, loop, faults>>

(* KEEP_SERVER, which a record that is deleted by now forces, puts the       *)
(* snapshot of the conflict over the record.  KEEP_MINE queues the edit as a *)
(* new operation.  Either way the operation ends REJECTED.                  *)
Resolve(o, resolution) ==
  LET e == ops[o].entity
      c == conflicts[o]
      keepServer == resolution = "KEEP_SERVER" \/ records[e].deleted
      newer == IF records[e].version > c.version THEN records[e].version ELSE c.version
  IN /\ c.status = "PENDING"
     /\ conflicts' = [conflicts EXCEPT ![o].status = "RESOLVED"]
     /\ IF keepServer
        THEN /\ ops' = Set({o}, "REJECTED")
             /\ records' = IF Alive(records[e])
                           THEN [records EXCEPT ![e] = [version |-> c.version, deleted |-> FALSE,
                                                        edits |-> c.edits]]
                           ELSE records
        ELSE /\ Len(ops) < MaxOps
             /\ ops' = Append(Set({o}, "REJECTED"),
                              [ops[o] EXCEPT !.base = newer, !.status = "PENDING",
                                             !.delayed = FALSE])
             /\ UNCHANGED records
     /\ UNCHANGED <<server, cursor, loop, faults>>

-----------------------------------------------------------------------------
(* The pull: the changes up to some point of the feed, each skipped when the *)
(* record is not behind it.                                                 *)

News(e, k) ==
  {i \in Changes(e) : cursor < i /\ i <= k /\ VersionAt(i) > records[e].version}

(* Mutant of Pull: the cursor is the next sequence to come.                 *)
Pull_Next_Mutant(k) ==
  /\ window = "active"
  /\ cursor' = k + 1
  /\ records' = [e \in Entities |->
       IF News(e, k) = {} THEN records[e]
       ELSE LET last == Max(News(e, k))
            IN [version |-> VersionAt(last), deleted |-> feed[last].tombstone,
                edits |-> records[e].edits \cup {feed[i].edit : i \in News(e, k)}]]
  /\ UNCHANGED <<server, ops, conflicts, loop, faults>>

Pull(k) ==
  /\ window = "active"
  /\ cursor' = k
  /\ records' = [e \in Entities |->
       IF News(e, k) = {} THEN records[e]
       ELSE LET last == Max(News(e, k))
            IN [version |-> VersionAt(last), deleted |-> feed[last].tombstone,
                edits |-> records[e].edits \cup {feed[i].edit : i \in News(e, k)}]]
  /\ UNCHANGED <<server, ops, conflicts, loop, faults>>

Push(l) == Collect(l) \/ Send(l) \/ Gate(l) \/ Serve(l) \/ Reply(l)

Next ==
  \/ \E e \in Entities : CreateProject(e) \/ CreateBelow(e) \/ Update(e) \/ Delete(e)
  \/ \E l \in Loops : Push(l) \/ TransportFails(l) \/ Restart(l)
  \/ \E s \in orphans : ServeOrphan(s)
  \/ \E e \in Entities, tombstone \in BOOLEAN : PeerEdit(e, tombstone)
  \/ DeviceChanges
  \/ \E i \in DOMAIN ops :
       DelayEnds(i) \/ \E r \in {"KEEP_SERVER", "KEEP_MINE"} : Resolve(i, r)
  \/ Revalidated
  \/ \E k \in cursor + 1 .. Len(feed) : Pull(k)

Spec == Init /\ [][Next]_vars

(* Every await of a batch comes back, a delay ends, and the user goes on     *)
(* pressing "Sync Now" (SyncContext.tsx:132-155 is the only caller).        *)
FairSpec ==
  /\ Spec
  /\ \A l \in Loops : WF_vars(Push(l))
  /\ \A i \in 1 .. MaxOps : WF_vars(i \in DOMAIN ops /\ DelayEnds(i))

-----------------------------------------------------------------------------
(* Properties.                                                             *)

Statuses == {"PENDING", "SYNCING", "SYNCED", "CONFLICT", "REJECTED",
             "REQUIRES_REVALIDATION", "DEVICE_REVOKED"}
Edits == 1 .. 2 * MaxOps + MaxPeerEdits
Answers == [status : Statuses \cup {"NONE", "APPLIED", "UNAUTHORIZED"},
            type : {"NONE", "EDIT_EDIT", "EDIT_DELETE"}, version : Nat, edits : SUBSET Edits]

TypeOK ==
  /\ feed \in Seq([entity : Entities, edit : Edits, tombstone : BOOLEAN])
  /\ decided \in [1 .. MaxOps -> Answers]
  /\ window \in {"active", "expired", "revoked"}
  /\ records \in [Entities -> [version : Nat, deleted : BOOLEAN, edits : SUBSET Edits]]
  /\ Len(ops) <= MaxOps
  /\ ops \in Seq([entity : Entities, kind : {"CREATE", "UPDATE", "DELETE"}, base : Nat,
                  edit : 1 .. MaxOps, status : Statuses, delayed : BOOLEAN])
  /\ conflicts \in [1 .. MaxOps -> [status : {"NONE", "PENDING", "RESOLVED"},
                                    version : Nat, edits : SUBSET Edits]]
  /\ cursor \in 0 .. Len(feed)
  /\ faults \in Seq(SUBSET (1 .. MaxOps))
  /\ \A l \in Loops :
       /\ pc[l] \in {"idle", "collected", "sent", "served", "answered"}
       /\ pc[l] = "idle" <=> batch[l] = <<>>
       /\ Len(answers[l]) <= Len(batch[l])
       /\ pc[l] = "answered" <=> batch[l] # <<>> /\ Len(answers[l]) = Len(batch[l])
       /\ InBatch(l) \subseteq DOMAIN ops
  /\ \A s \in orphans : s # <<>> /\ \A n \in DOMAIN s : s[n] \in DOMAIN ops

(* The queue says of an operation what the server decided, whatever was      *)
(* lost, repeated or restarted on the way: SYNCED only what was applied,    *)
(* CONFLICT only what conflicts.                                            *)
QueueMatchesServer ==
  \A i \in DOMAIN ops :
    /\ ops[i].status = "SYNCED" => decided[i].status = "APPLIED"
    /\ ops[i].status = "CONFLICT" =>
         decided[i].status = "CONFLICT" /\ decided[i].type = "EDIT_EDIT"

(* With one batch at a time, an unresolved conflict locks a record as long   *)
(* as its operation waits in the queue, and no longer.                      *)
ConflictsMatchQueue ==
  \A i \in DOMAIN ops :
    /\ conflicts[i].status = "PENDING" <=> ops[i].status = "CONFLICT"
    /\ conflicts[i].status = "RESOLVED" => ops[i].status = "REJECTED"

(* With one batch at a time, an edit is in the feed at most once, as the     *)
(* operation that queued it or as one that KEEP_MINE made of it.             *)
EditsApplyOnce ==
  \A i, j \in DOMAIN feed : feed[i].edit = feed[j].edit => i = j

(* When all operations of a record are SYNCED and the feed has been pulled,  *)
(* the record is what the server has.                                       *)
SyncedRecordsConverge ==
  cursor = Len(feed) =>
    \A e \in Entities :
      (\A i \in DOMAIN ops : ops[i].entity = e => ops[i].status = "SYNCED")
        => records[e] = Row(e)

(* With one batch at a time, no late answer, failure, sweep or resolution    *)
(* takes an edit along a transition that is not allowed, with the resolution *)
(* that the user chose.  KEEP_MINE takes it from CONFLICT to PENDING, as the  *)
(* table has it (types/src/sync.ts:75,97-98), but by a fresh operation with   *)
(* the same edit: the operation itself ends REJECTED, which the table allows *)
(* after KEEP_SERVER only, and README.md:133 has "for audit".                *)
Resolved(i) == ops[i].status = "CONFLICT" /\ ops'[i].status # "CONFLICT"

Resolution == IF Len(ops') > Len(ops) THEN "KEEP_MINE" ELSE "KEEP_SERVER"

CarriesOn(j, i) == ops'[j].entity = ops[i].entity /\ ops'[j].kind = ops[i].kind
                   /\ ops'[j].edit = ops[i].edit

StatusesFollowTable ==
  [][\A i \in DOMAIN ops :
       /\ IF Resolved(i) /\ Resolution = "KEEP_MINE"
          THEN /\ ops'[i].status = "REJECTED"
               /\ CarriesOn(Len(ops'), i)
               /\ isValidSyncStatusTransition("CONFLICT", ops'[Len(ops')].status,
                                              decided[i].type, "KEEP_MINE")
          ELSE isValidSyncStatusTransition(ops[i].status, ops'[i].status,
                                           decided[i].type, "KEEP_SERVER")
       /\ ops[i].status = "REJECTED" => ops'[i].status = "REJECTED"]_vars

(* "If an unresolved (PENDING) ConflictRecord exists for an operation's      *)
(* entityId, that entity is locked for mutation until the conflict is       *)
(* resolved by the user" (push-sync.ts:89-90): no operation is applied past *)
(* an earlier one of the record that conflicts.                             *)
NoMutationPastConflict ==
  [][\A i, j \in DOMAIN ops :
       /\ decided[i].type = "EDIT_EDIT" /\ conflicts[i].status # "RESOLVED"
       /\ ops[j].entity = ops[i].entity /\ i < j
       /\ decided[j] = NoAnswer
       => decided'[j].status # "APPLIED"]_vars

(* "Delete strictly wins" (README.md:134): when an edit was turned down      *)
(* because the server deleted the record, and the feed has been pulled, the *)
(* record is deleted here too.                                              *)
DeleteWins ==
  \A i \in DOMAIN ops :
    decided[i].type = "EDIT_DELETE" /\ ops[i].status = "REJECTED" /\ cursor = Len(feed)
      => ~Alive(records[ops[i].entity])

(* An edit conflicts for a reason.  The server is past its base: another     *)
(* device changed the record, or a resolution left the record at the version *)
(* of the server while an operation on that version was queued, so that the  *)
(* next edit shares its base.  Or the server is behind its base: an earlier  *)
(* edit of the device was not applied (rejected, turned down, or still       *)
(* waiting since its backoff is longer); and a fresh operation of KEEP_MINE   *)
(* is in that position only when the edit was from the start.  Edits made in *)
(* a row that all go through never conflict with each other.                *)
ConflictsHaveCause ==
  [][\A i \in DOMAIN ops :
       LET e == ops[i].entity
           others == {j \in DOMAIN ops : ops[j].entity = e}
       IN decided[i] = NoAnswer /\ decided'[i].type = "EDIT_EDIT" =>
         \/ \E n \in Changes(e) : feed[n].edit > MaxOps /\ VersionAt(n) > ops[i].base
         \/ /\ Row(e).version > ops[i].base
            /\ \E j \in others : decided[j].type = "EDIT_EDIT" /\ conflicts[j].status = "RESOLVED"
         \/ /\ Row(e).version < ops[i].base
            /\ \E j \in others :
                 /\ j < i /\ decided[j].status # "APPLIED"
                 /\ ops[j].edit = ops[i].edit => decided[j].version < ops[j].base]_vars

(* Every request that leaves passes the schemas of the server, which refuse  *)
(* the whole batch for one bad operation, and would do so again on every    *)
(* retry: no repository and no resolution queues a CREATE on a version or an *)
(* edit of no version.                                                      *)
RequestsAreValid == \A l \in Loops : InFlight(l) => pushRequestSchema(batch[l])

(* What the user is told of an operation.                                   *)
Reported(status) ==
  CASE status \in {"SYNCED", "CONFLICT"} -> status
    [] status \in {"REJECTED", "DEVICE_REVOKED"} -> "GIVEN_UP"
    [] OTHER -> "WAITING"

Queue == INSTANCE EditQueue WITH
  queue <- [i \in DOMAIN ops |-> [entity |-> ops[i].entity, kind |-> ops[i].kind,
                                  base |-> ops[i].base, edit |-> ops[i].edit]],
  log <- feed,
  verdict <- [i \in DOMAIN decided |->
                IF decided[i].status = "CONFLICT" THEN "TURNED_DOWN" ELSE decided[i].status],
  report <- [i \in DOMAIN decided |->
               IF i \in DOMAIN ops THEN Reported(ops[i].status) ELSE "WAITING"]

(* With one batch at a time the queue, with its batches, lost answers,       *)
(* duplicates, backoff, sweeps and revocations, implements one that hands    *)
(* each edit over, has it decided once and reports the verdict once.        *)
ImplementsQueue == Queue!Spec

Open(i) == i \in DOMAIN ops /\ ops[i].status \in {"PENDING", "SYNCING"}

(* An edit of a record the server has is settled in the end, or waits for    *)
(* the user to resolve a conflict of the record: failures and the other tab  *)
(* only delay it.  The exception is an edit that was under way when its tab  *)
(* was closed, in an app that does not sweep at its start, as this one: it    *)
(* may stay SYNCING (SyncingEnds), and holds up no other edit.              *)
EditsSettle ==
  \A i \in 1 .. MaxOps :
    Open(i) ~> \/ ~Open(i)
               \/ Locked(ops[i].entity)
               \/ \E n \in DOMAIN faults : i \in faults[n]

(* "Startup routine sweeps dangling SYNCING operations back to PENDING"      *)
(* (README.md:135): an operation does not stay SYNCING for ever.            *)
Syncing(i) == i \in DOMAIN ops /\ ops[i].status = "SYNCING"

SyncingEnds == \A i \in 1 .. MaxOps : Syncing(i) ~> ~Syncing(i)
=============================================================================
