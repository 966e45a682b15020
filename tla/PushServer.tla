----------------------------- MODULE PushServer -----------------------------
(***************************************************************************)
(* The push half of the FieldCore server (packages/server/src/             *)
(* push-handler.ts): requests that evaluate batches of queued client       *)
(* operations, each operation in a PostgreSQL transaction of its own       *)
(* (READ COMMITTED), against the domain rows, project_members, change_log, *)
(* idempotency_records and conflicts tables.                               *)
(*                                                                         *)
(* A worker is one POST /sync/push being served.  Its steps are the        *)
(* database round trips of the handler, so two workers interleave at every *)
(* await: after the fast-path SELECT, after SELECT ... FOR UPDATE, and     *)
(* between the writes of a transaction and its COMMIT.  Nothing a          *)
(* transaction wrote is visible before its Commit step, with one           *)
(* exception the database makes: a BIGSERIAL value is taken at the INSERT. *)
(***************************************************************************)
EXTENDS Naturals, Sequences, FiniteSets

CONSTANTS
  Workers,       \* push requests that can be in flight at the same time
  OpIds,         \* operation identifiers (the idempotency keys)
  Contents,      \* what an operation can say: [device, entity, kind, base]
  Devices,       \* registered devices
  Users,
  UserOf,        \* the user each device is bound to (devices.user_id)
  Entities,
  Level,         \* "PROJECT", "SITE", "INSPECTION" or "MEASUREMENT"
  Parent,        \* the row an entity refers to (a project refers to itself)
  Existing,      \* rows that exist, at version 1, before the model starts
  Enrolled,      \* their memberships, pairs <<user, project>>
  Watched,       \* devices that may be revoked or run out of their window
  MaxBatch,      \* operations of one request (25 in pushRequestSchema)
  MaxRequests    \* bound on the requests of a behaviour

Levels == {"PROJECT", "SITE", "INSPECTION", "MEASUREMENT"}
Kinds == {"CREATE", "UPDATE", "DELETE"}

ASSUME ContentsAssumption ==
  \A c \in Contents : /\ c.device \in Devices
                      /\ c.entity \in Entities
                      /\ c.kind \in Kinds
                      /\ c.base \in Nat

ASSUME TreeAssumption ==
  /\ UserOf \in [Devices -> Users]
  /\ Level \in [Entities -> Levels]
  /\ Parent \in [Entities -> Entities]
  /\ Existing \subseteq Entities
  /\ Enrolled \subseteq Users \X Entities
  /\ Watched \subseteq Devices
  /\ MaxBatch \in Nat /\ MaxRequests \in Nat

VARIABLES
  content,   \* what each operation says; fixed when its device queued it
  row,       \* domain rows: version 0 is no row
  members,   \* project_members
  log,       \* change_log
  nextSeq,   \* next value of the change_log sequence
  idem,      \* idempotency_records: the answer stored for an operation
  conflicts, \* conflicts table
  device,    \* devices: "active", "expired" (revalidation window) or "revoked"
  pc,        \* where each worker is in the handler
  batch,     \* the operations of the request a worker serves
  snap,      \* the row SELECT ... FOR UPDATE returned
  plan,      \* the result the open transaction will commit
  results,   \* its results so far, in the order of the batch
  requests   \* requests received

tables == <<row, members, log, nextSeq, idem, conflicts>>
vars == <<content, tables, device, pc, batch, snap, plan, results, requests>>

-----------------------------------------------------------------------------
(* Results of an operation.                                                *)

NoAnswer == [status |-> "NONE", version |-> 0, sequence |-> 0, conflict |-> "NONE"]
Plain(status) == [NoAnswer EXCEPT !.status = status]
Applied(v, s) == [NoAnswer EXCEPT !.status = "APPLIED", !.version = v, !.sequence = s]
Conflict(type, v) == [NoAnswer EXCEPT !.status = "CONFLICT", !.conflict = type, !.version = v]

Missing == [version |-> 0, deleted |-> FALSE]
Exists(r) == r.version > 0

Op(w) == batch[w][Len(results[w]) + 1]
Client(w) == content[batch[w][1]].device
Says(w) == content[Op(w)]
Entity(w) == Says(w).entity

(* Mutant of Locks: the row is read without FOR UPDATE.                     *)
Locks_Plain_Mutant(w, e) == FALSE

(* A transaction holds the lock of the row it found, until it ends.  No     *)
(* lock is taken when the SELECT found nothing.                             *)
InTransaction(w) == pc[w] \in {"decide", "commit"}
Locks(w, e) == InTransaction(w) /\ Entity(w) = e /\ Exists(snap[w])

(* A row inserted and not yet committed: a second insert of the same key    *)
(* waits for the outcome.                                                   *)
Inserting(w, e) ==
  pc[w] = "commit" /\ Entity(w) = e /\ ~Exists(snap[w]) /\ plan[w].status = "APPLIED"

-----------------------------------------------------------------------------
(* resolveProjectId: a site names its project in its row or in the CREATE   *)
(* payload; an inspection and a measurement are resolved through the rows   *)
(* above them.  The empty set stands for null.                              *)
ProjectOf(w) ==
  LET e == Entity(w)
      up == Parent[e]
      known == Exists(snap[w]) \/ Says(w).kind = "CREATE"
  IN CASE Level[e] = "PROJECT" -> {e}
       [] Level[e] = "SITE" /\ known -> {up}
       [] Level[e] = "INSPECTION" /\ known /\ Exists(row[up]) -> {Parent[up]}
       [] Level[e] = "MEASUREMENT" /\ known /\ Exists(row[up]) /\ Exists(row[Parent[up]])
            -> {Parent[Parent[up]]}
       [] OTHER -> {}

NewProject(w) ==
  Level[Entity(w)] = "PROJECT" /\ Says(w).kind = "CREATE" /\ ~Exists(snap[w])

Authorized(w) ==
  NewProject(w) \/ \E p \in ProjectOf(w) : <<UserOf[Client(w)], p>> \in members

(* Mutant of ConflictOf: the check for a deleted row is missing.            *)
ConflictOf_NoTombstone_Mutant(w) ==
  IF Says(w).kind = "CREATE"
  THEN IF Exists(snap[w]) THEN "EDIT_EDIT" ELSE "NONE"
  ELSE IF ~Exists(snap[w]) THEN "EDIT_DELETE"
       ELSE IF snap[w].version # Says(w).base THEN "EDIT_EDIT" ELSE "NONE"

(* Mutant of ConflictOf: only a base ahead of the row is a conflict.        *)
ConflictOf_StaleBase_Mutant(w) ==
  IF Says(w).kind = "CREATE"
  THEN IF Exists(snap[w]) THEN "EDIT_EDIT" ELSE "NONE"
  ELSE IF ~Exists(snap[w]) \/ snap[w].deleted THEN "EDIT_DELETE"
       ELSE IF snap[w].version < Says(w).base THEN "EDIT_EDIT" ELSE "NONE"

(* What the branches of the handler make of the row they found.             *)
ConflictOf(w) ==
  IF Says(w).kind = "CREATE"
  THEN IF Exists(snap[w]) THEN "EDIT_EDIT" ELSE "NONE"
  ELSE IF ~Exists(snap[w]) \/ snap[w].deleted THEN "EDIT_DELETE"
       ELSE IF snap[w].version # Says(w).base THEN "EDIT_EDIT" ELSE "NONE"

-----------------------------------------------------------------------------
Init ==
  /\ content \in [OpIds -> Contents]
  /\ row = [e \in Entities |->
              [version |-> IF e \in Existing THEN 1 ELSE 0, deleted |-> FALSE]]
  /\ members = Enrolled
  /\ log = {}
  /\ nextSeq = 1
  /\ idem = [o \in OpIds |-> NoAnswer]
  /\ conflicts = {}
  /\ device = [d \in Devices |-> "active"]
  /\ pc = [w \in Workers |-> "idle"]
  /\ batch = [w \in Workers |-> <<>>]
  /\ snap = [w \in Workers |-> Missing]
  /\ plan = [w \in Workers |-> NoAnswer]
  /\ results = [w \in Workers |-> <<>>]
  /\ requests = 0

(* A request arrives.  Any operation may be in it again: the client resends *)
(* what it has no answer for, and the earlier request may still be running. *)
Batches == UNION {[1 .. n -> OpIds] : n \in 1 .. MaxBatch}

Receive(w) ==
  /\ pc[w] = "idle"
  /\ requests < MaxRequests
  /\ requests' = requests + 1
  /\ \E b \in Batches :
       /\ \A i \in DOMAIN b : content[b[i]].device = content[b[1]].device
       /\ batch' = [batch EXCEPT ![w] = b]
  /\ pc' = [pc EXCEPT ![w] = "gate"]
  /\ UNCHANGED <<content, tables, device, snap, plan, results>>

(* The device check that gates the whole batch, once.                       *)
Refusal(d) ==
  IF device[d] = "revoked" THEN "DEVICE_REVOKED" ELSE "REQUIRES_REVALIDATION"

Gate(w) ==
  /\ pc[w] = "gate"
  /\ IF device[Client(w)] = "active"
     THEN /\ pc' = [pc EXCEPT ![w] = "lookup"]
          /\ UNCHANGED results
     ELSE /\ results' = [results EXCEPT ![w] =
                           [i \in DOMAIN batch[w] |-> Plain(Refusal(Client(w)))]]
          /\ pc' = [pc EXCEPT ![w] = "reply"]
  /\ UNCHANGED <<content, tables, device, batch, snap, plan, requests>>

(* Mutant of Answer: the loop ends one operation too late.                  *)
Answer_Overrun_Mutant(w, answer) ==
  /\ results' = [results EXCEPT ![w] = Append(@, answer)]
  /\ snap' = [snap EXCEPT ![w] = Missing]
  /\ plan' = [plan EXCEPT ![w] = NoAnswer]
  /\ pc' = [pc EXCEPT ![w] = IF Len(results[w]) = Len(batch[w]) THEN "reply" ELSE "lookup"]

(* One operation answered, its transaction over; the loop goes on with the  *)
(* next one, or ends.                                                       *)
Answer(w, answer) ==
  /\ results' = [results EXCEPT ![w] = Append(@, answer)]
  /\ snap' = [snap EXCEPT ![w] = Missing]
  /\ plan' = [plan EXCEPT ![w] = NoAnswer]
  /\ pc' = [pc EXCEPT ![w] =
              IF Len(results[w]) + 1 = Len(batch[w]) THEN "reply" ELSE "lookup"]

(* Mutant of Lookup: a retry is told the stored status, not the stored      *)
(* result.                                                                  *)
Lookup_StatusOnly_Mutant(w) ==
  /\ pc[w] = "lookup"
  /\ IF idem[Op(w)] # NoAnswer
     THEN Answer(w, Plain(idem[Op(w)].status))
     ELSE pc' = [pc EXCEPT ![w] = "begin"] /\ UNCHANGED <<snap, plan, results>>
  /\ UNCHANGED <<content, tables, device, batch, requests>>

(* Fast path: the stored answer of an operation that was decided before.    *)
Lookup(w) ==
  /\ pc[w] = "lookup"
  /\ IF idem[Op(w)] # NoAnswer
     THEN Answer(w, idem[Op(w)])
     ELSE pc' = [pc EXCEPT ![w] = "begin"] /\ UNCHANGED <<snap, plan, results>>
  /\ UNCHANGED <<content, tables, device, batch, requests>>

(* SELECT ... FOR UPDATE: waits while another transaction holds the row,    *)
(* and then reads what that transaction committed.                          *)
Begin(w) ==
  /\ pc[w] = "begin"
  /\ \A v \in Workers \ {w} : ~Locks(v, Entity(w))
  /\ snap' = [snap EXCEPT ![w] = row[Entity(w)]]
  /\ pc' = [pc EXCEPT ![w] = "decide"]
  /\ UNCHANGED <<content, tables, device, batch, plan, results, requests>>

(* No membership: the transaction ends without an idempotency record.       *)
Refuse(w) ==
  /\ pc[w] = "decide"
  /\ ~Authorized(w)
  /\ Answer(w, Plain("UNAUTHORIZED"))
  /\ UNCHANGED <<content, tables, device, batch, requests>>

PlanConflict(w) ==
  /\ pc[w] = "decide"
  /\ Authorized(w)
  /\ ConflictOf(w) # "NONE"
  /\ plan' = [plan EXCEPT ![w] = Conflict(ConflictOf(w), snap[w].version)]
  /\ pc' = [pc EXCEPT ![w] = "commit"]
  /\ UNCHANGED <<content, tables, device, batch, snap, results, requests>>

(* The row and change_log writes of an operation that applies.  The insert  *)
(* of a new row waits for another insert of the same key; it fails when     *)
(* that one committed.                                                      *)
PlanApply(w) ==
  /\ pc[w] = "decide"
  /\ Authorized(w)
  /\ ConflictOf(w) = "NONE"
  /\ \A v \in Workers \ {w} : ~Inserting(v, Entity(w))
  /\ IF ~Exists(snap[w]) /\ Exists(row[Entity(w)])
     THEN pc' = [pc EXCEPT ![w] = "reread"] /\ UNCHANGED <<plan, nextSeq>>
     ELSE /\ plan' = [plan EXCEPT ![w] = Applied(snap[w].version + 1, nextSeq)]
          /\ nextSeq' = nextSeq + 1
          /\ pc' = [pc EXCEPT ![w] = "commit"]
  /\ UNCHANGED <<content, row, members, log, idem, conflicts, device, batch, snap,
                 results, requests>>

-----------------------------------------------------------------------------
(* What the tables hold once the plan of w is committed.                    *)

RowAfter(w) ==
  IF plan[w].status = "APPLIED"
  THEN [row EXCEPT ![Entity(w)] =
          [version |-> plan[w].version, deleted |-> Says(w).kind = "DELETE"]]
  ELSE row

Entry(w) == [sequence |-> plan[w].sequence, entity |-> Entity(w), op |-> Op(w),
             version |-> plan[w].version, tombstone |-> Says(w).kind = "DELETE"]

LogAfter(w) == IF plan[w].status = "APPLIED" THEN log \cup {Entry(w)} ELSE log

(* Mutant of MembersAfter: the creator of a project is not enrolled.        *)
MembersAfter_NoOwner_Mutant(w) == members

MembersAfter(w) ==
  IF plan[w].status = "APPLIED" /\ NewProject(w)
  THEN members \cup {<<UserOf[Client(w)], Entity(w)>>}
  ELSE members

ConflictRecord(w) == [op |-> Op(w), type |-> plan[w].conflict, version |-> plan[w].version]

ConflictsAfter(w) ==
  IF plan[w].status = "CONFLICT" THEN conflicts \cup {ConflictRecord(w)} ELSE conflicts

(* Mutant of KeyTaken: no primary key on idempotency_records.               *)
KeyTaken_NoKey_Mutant(w) == FALSE

(* The primary key of idempotency_records: the insert of a second record    *)
(* for the operation fails, and everything the transaction wrote goes.      *)
KeyTaken(w) == idem[Op(w)] # NoAnswer

Commit(w) ==
  /\ pc[w] = "commit"
  /\ ~KeyTaken(w)
  /\ row' = RowAfter(w)
  /\ log' = LogAfter(w)
  /\ members' = MembersAfter(w)
  /\ conflicts' = ConflictsAfter(w)
  /\ idem' = [idem EXCEPT ![Op(w)] = plan[w]]
  /\ Answer(w, plan[w])
  /\ UNCHANGED <<content, nextSeq, device, batch, requests>>

LoseRace(w) ==
  /\ pc[w] = "commit"
  /\ KeyTaken(w)
  /\ pc' = [pc EXCEPT ![w] = "reread"]
  /\ snap' = [snap EXCEPT ![w] = Missing]
  /\ plan' = [plan EXCEPT ![w] = NoAnswer]
  /\ UNCHANGED <<content, tables, device, batch, results, requests>>

(* Mutant of Reread: a unique violation is taken for a duplicate delivery.  *)
Reread_NoFallthrough_Mutant(w) ==
  /\ pc[w] = "reread"
  /\ KeyTaken(w)
  /\ Answer(w, idem[Op(w)])
  /\ UNCHANGED <<content, tables, device, batch, requests>>

(* After a unique violation: the answer the winner stored, or REJECTED when *)
(* the violated key was not that of this operation.                         *)
Reread(w) ==
  /\ pc[w] = "reread"
  /\ Answer(w, IF KeyTaken(w) THEN idem[Op(w)] ELSE Plain("REJECTED"))
  /\ UNCHANGED <<content, tables, device, batch, requests>>

(* Any other database error in the transaction: rolled back, REJECTED, and  *)
(* nothing is stored for the operation.                                     *)
Fail(w) ==
  /\ pc[w] = "begin" \/ InTransaction(w)
  /\ Answer(w, Plain("REJECTED"))
  /\ UNCHANGED <<content, tables, device, batch, requests>>

(* Last statement of the handler: the window is renewed only by a batch in  *)
(* which some operation was applied or found in conflict.  The request ends.*)
Renews(w) ==
  /\ device[Client(w)] = "expired"
  /\ \E i \in DOMAIN results[w] : results[w][i].status \in {"APPLIED", "CONFLICT"}

Reply(w) ==
  /\ pc[w] = "reply"
  /\ device' = IF Renews(w) THEN [device EXCEPT ![Client(w)] = "active"] ELSE device
  /\ pc' = [pc EXCEPT ![w] = "idle"]
  /\ batch' = [batch EXCEPT ![w] = <<>>]
  /\ results' = [results EXCEPT ![w] = <<>>]
  /\ UNCHANGED <<content, tables, snap, plan, requests>>

-----------------------------------------------------------------------------
(* The environment: a process or connection dies (an open transaction is    *)
(* rolled back, committed operations stay, the client gets no answer); time *)
(* passes; a device is revoked; a member is added to a project              *)
(* (packages/server/src/project-members.ts).                               *)

Drop(w) ==
  /\ pc[w] # "idle"
  /\ pc' = [pc EXCEPT ![w] = "idle"]
  /\ batch' = [batch EXCEPT ![w] = <<>>]
  /\ results' = [results EXCEPT ![w] = <<>>]
  /\ snap' = [snap EXCEPT ![w] = Missing]
  /\ plan' = [plan EXCEPT ![w] = NoAnswer]
  /\ UNCHANGED <<content, tables, device, requests>>

WindowExpires(d) ==
  /\ device[d] = "active"
  /\ device' = [device EXCEPT ![d] = "expired"]
  /\ UNCHANGED <<content, tables, pc, batch, snap, plan, results, requests>>

Revoke(d) ==
  /\ device[d] # "revoked"
  /\ device' = [device EXCEPT ![d] = "revoked"]
  /\ UNCHANGED <<content, tables, pc, batch, snap, plan, results, requests>>

AddMember(u, p) ==
  /\ Level[p] = "PROJECT"
  /\ \E v \in Users : <<v, p>> \in members
  /\ <<u, p>> \notin members
  /\ members' = members \cup {<<u, p>>}
  /\ UNCHANGED <<content, row, log, nextSeq, idem, conflicts, device, pc, batch, snap,
                 plan, results, requests>>

Serve(w) ==
  \/ Gate(w) \/ Lookup(w) \/ Begin(w)
  \/ Refuse(w) \/ PlanConflict(w) \/ PlanApply(w)
  \/ Commit(w) \/ LoseRace(w) \/ Reread(w)
  \/ Reply(w)

Next ==
  \/ \E w \in Workers : Receive(w) \/ Serve(w) \/ Fail(w) \/ Drop(w)
  \/ \E d \in Watched : WindowExpires(d) \/ Revoke(d)
  \/ \E u \in Users, p \in Entities : AddMember(u, p)

Spec == Init /\ [][Next]_vars

(* The event loop and the database go on with every request that is open.   *)
FairSpec == Spec /\ \A w \in Workers : WF_vars(Serve(w))
-----------------------------------------------------------------------------
(* Properties.                                                             *)

ConflictTypes == {"NONE", "EDIT_EDIT", "EDIT_DELETE"}
Answers == [status : {"NONE", "APPLIED", "CONFLICT", "REJECTED", "UNAUTHORIZED",
                      "DEVICE_REVOKED", "REQUIRES_REVALIDATION"},
            version : Nat, sequence : Nat, conflict : ConflictTypes]
Rows == [version : Nat, deleted : BOOLEAN]
Changes == [sequence : Nat, entity : Entities, op : OpIds, version : Nat, tombstone : BOOLEAN]

(* Types of the tables and of the state of a request, with the positions at *)
(* which a request has an operation at hand.                                *)
TypeOK ==
  /\ content \in [OpIds -> Contents]
  /\ row \in [Entities -> Rows]
  /\ members \subseteq Users \X Entities
  /\ log \subseteq Changes
  /\ nextSeq \in Nat /\ requests \in Nat
  /\ idem \in [OpIds -> Answers]
  /\ conflicts \subseteq [op : OpIds, type : ConflictTypes, version : Nat]
  /\ device \in [Devices -> {"active", "expired", "revoked"}]
  /\ pc \in [Workers -> {"idle", "gate", "lookup", "begin", "decide", "commit", "reread",
                         "reply"}]
  /\ batch \in [Workers -> Seq(OpIds)]
  /\ snap \in [Workers -> Rows]
  /\ plan \in [Workers -> Answers]
  /\ results \in [Workers -> Seq(Answers)]
  /\ \A w \in Workers :
       /\ pc[w] = "idle" => results[w] = <<>>
       /\ pc[w] = "reply" => Len(results[w]) = Len(batch[w])
       /\ pc[w] \notin {"idle", "reply"} => Len(results[w]) < Len(batch[w])

(* However often an operation is delivered, and however its deliveries      *)
(* overlap, its idempotency record, its change_log entry and its conflict   *)
(* record stand or fall together: a stored APPLIED has exactly one log      *)
(* entry, the one it names, a stored CONFLICT exactly one conflict record,  *)
(* and a transaction that lost the race leaves neither (push-handler.ts     *)
(* 169-180, 331-339, 571-592).                                              *)
EntryOf(o) == [sequence |-> idem[o].sequence, entity |-> content[o].entity, op |-> o,
               version |-> idem[o].version, tombstone |-> content[o].kind = "DELETE"]
ConflictRecordOf(o) == [op |-> o, type |-> idem[o].conflict, version |-> idem[o].version]

StoredAnswerMatchesTables ==
  \A o \in OpIds :
    /\ {c \in log : c.op = o} = IF idem[o].status = "APPLIED" THEN {EntryOf(o)} ELSE {}
    /\ {k \in conflicts : k.op = o} =
         IF idem[o].status = "CONFLICT" THEN {ConflictRecordOf(o)} ELSE {}

(* In particular change_log has at most one entry for an operation.         *)
AppliedOnce == \A c1, c2 \in log : c1.op = c2.op => c1 = c2

(* No lost update: the committed changes of an entity carry the versions up *)
(* to that of its row, each once, every one in the sequence order of the    *)
(* versions, and nothing follows a tombstone.                               *)
ChangesOf(e) == {c \in log : c.entity = e}
FirstVersion(e) == IF e \in Existing THEN 2 ELSE 1

NoLostUpdate ==
  \A e \in Entities :
    /\ {c.version : c \in ChangesOf(e)} = FirstVersion(e) .. row[e].version
    /\ \A c1, c2 \in ChangesOf(e) :
         /\ c1.version = c2.version => c1 = c2
         /\ c1.version < c2.version => c1.sequence < c2.sequence /\ ~c1.tombstone

(* Whatever a client is told about an operation that was decided is what    *)
(* the server stored for it: the deliveries of an operation never get two   *)
(* different APPLIED or CONFLICT answers.                                   *)
AnswersAgree ==
  \A w \in Workers : \A i \in DOMAIN results[w] :
    results[w][i].status \in {"APPLIED", "CONFLICT"} => results[w][i] = idem[batch[w][i]]

(* A stored answer, a change_log entry and a tombstone are final.           *)
KeepsDecisions ==
  /\ \A o \in OpIds : idem[o] # NoAnswer => idem'[o] = idem[o]
  /\ log \subseteq log'
  /\ \A e \in Entities : row[e].deleted => row'[e] = row[e]

DecisionsAreFinal == [][KeepsDecisions]_vars

(* A committed CREATE of a project comes with the membership of its         *)
(* creator, and no change enters the log of a project its author is not a   *)
(* member of, although the membership was read before the COMMIT.           *)
RootOf(e) == CASE Level[e] = "PROJECT" -> e
               [] Level[e] = "SITE" -> Parent[e]
               [] Level[e] = "INSPECTION" -> Parent[Parent[e]]
               [] OTHER -> Parent[Parent[Parent[e]]]

OnlyMembersWrite ==
  \A c \in log : <<UserOf[content[c.op].device], RootOf(c.entity)>> \in members

(* The abstract ledger that the server implements: the tables without       *)
(* sequence numbers, of an answer only the verdict, and of the transactions *)
(* only those that found no row, which they hold no lock of.                *)
Fact(c) == [op |-> c.op, entity |-> c.entity, version |-> c.version,
            tombstone |-> c.tombstone]
history == {Fact(c) : c \in log}
decided == [o \in OpIds |-> idem[o].status]
missed == {o \in OpIds : \E w \in Workers : /\ InTransaction(w) /\ Op(w) = o
                                           /\ ~Exists(snap[w])}

Ledger == INSTANCE OpLedger

(* Every operation is decided at most once and in one atomic step, on the   *)
(* rows and memberships of that step, although the handler read them before *)
(* it commits.                                                              *)
ImplementsLedger == Ledger!Spec

(* A request that no crash cuts off is answered: no two transactions wait   *)
(* for each other, and no branch of the handler leaves an operation without *)
(* a result.                                                                *)
RequestsAreAnswered == \A w \in Workers : pc[w] # "idle" ~> pc[w] = "idle"
=============================================================================
