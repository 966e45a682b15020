----------------------- MODULE PushServerSafety_proofs -----------------------
(***************************************************************************)
(* The safety theorems of PushServer.  They follow from one inductive      *)
(* invariant, Consistent: what every open transaction has read and planned *)
(* is still true of the tables when it commits, because of the row lock,   *)
(* the key of a row that is being inserted, and the idempotency key.       *)
(***************************************************************************)
EXTENDS PushServer_proofs

-----------------------------------------------------------------------------
(* The inductive invariant.                                                *)

(* A batch comes from one device.                                          *)
OneSender ==
  \A w \in Workers : \A i \in DOMAIN batch[w] :
    content[batch[w][i]].device = content[batch[w][1]].device

(* A row that a transaction found is locked by it and still as it was read. *)
LockedRows ==
  \A w \in Workers, e \in Entities :
    Locks(w, e) => /\ snap[w] = row[e]
                   /\ \A v \in Workers \ {w} : ~Locks(v, e)

(* A row that is being inserted is not there, and nobody else inserts it.   *)
InsertedRows ==
  \A w \in Workers, e \in Entities :
    Inserting(w, e) => /\ ~Exists(row[e])
                       /\ \A v \in Workers \ {w} : ~Inserting(v, e)

(* What a transaction is about to commit is what the row it read, its       *)
(* operation and the memberships call for.                                  *)
PlanOf(w) ==
  IF ConflictOf(w) = "NONE" THEN Applied(snap[w].version + 1, plan[w].sequence)
  ELSE Conflict(ConflictOf(w), snap[w].version)

IsMember(w) == <<UserOf[Client(w)], RootOf(Entity(w))>> \in members

SoundPlans ==
  \A w \in Workers : pc[w] = "commit" =>
    /\ plan[w] = PlanOf(w)
    /\ NewProject(w) \/ IsMember(w)
    /\ Says(w).kind # "CREATE" /\ ~Exists(snap[w]) => Level[Entity(w)] = "PROJECT"

(* A sequence number is above those of the changes its transaction follows. *)
FreshSequences ==
  /\ \A c \in log : c.sequence < nextSeq
  /\ \A w \in Workers : pc[w] = "commit" /\ plan[w].status = "APPLIED" =>
       /\ plan[w].sequence < nextSeq
       /\ \A c \in ChangesOf(Entity(w)) : c.sequence < plan[w].sequence

(* Only the last change of an entity can be a tombstone.                    *)
TombstonesLast ==
  \A c \in log : c.tombstone =>
    /\ row[c.entity].deleted
    /\ c.version = row[c.entity].version

(* A row that was there at the start is never removed, and a tombstone is a  *)
(* row.                                                                      *)
SeedsStay == \A e \in Existing : Exists(row[e])

DeadRowsExist == \A e \in Entities : row[e].deleted => Exists(row[e])

Consistent ==
  /\ TypeOK
  /\ OneSender /\ LockedRows /\ InsertedRows /\ SoundPlans /\ FreshSequences
  /\ TombstonesLast /\ SeedsStay /\ DeadRowsExist
  /\ StoredAnswerMatchesTables /\ NoLostUpdate /\ AnswersAgree /\ OnlyMembersWrite

-----------------------------------------------------------------------------
(* The steps of a request, by what they mean to the tables.                 *)

(* No other request moves.                                                  *)
Alone(w) ==
  /\ content' = content
  /\ \A v \in Workers \ {w} :
       /\ batch'[v] = batch[v] /\ results'[v] = results[v]
       /\ pc'[v] = pc[v] /\ snap'[v] = snap[v] /\ plan'[v] = plan[v]

(* No table changes, and the request is in no transaction afterwards.       *)
Quiet(w) == UNCHANGED tables /\ ~InTransaction(w)'

Planned(w) == PlanApply(w) /\ pc'[w] = "commit"

Step(w) == Receive(w) \/ Serve(w) \/ Fail(w) \/ Drop(w)

LEMMA StepKinds ==
  ASSUME TypeOK, NEW w \in Workers, Step(w)
  PROVE  /\ Alone(w)
         /\ Quiet(w) \/ Begin(w) \/ PlanConflict(w) \/ Planned(w) \/ Commit(w)
<1> USE DEF tables
<1>1. CASE Receive(w)
  <2>1. Alone(w)
    BY <1>1 DEF Receive, Alone, TypeOK
  <2>2. Quiet(w)
    BY <1>1 DEF Receive, Quiet, InTransaction, TypeOK
  <2> QED
    BY <2>1, <2>2
<1>2. CASE Gate(w)
  <2>1. Alone(w)
    BY <1>2 DEF Gate, Alone, TypeOK
  <2>2. Quiet(w)
    BY <1>2 DEF Gate, Quiet, InTransaction, TypeOK
  <2> QED
    BY <2>1, <2>2
<1>3. CASE Lookup(w)
  <2>1. Alone(w)
    BY <1>3 DEF Lookup, Answer, Alone, TypeOK
  <2>2. Quiet(w)
    BY <1>3 DEF Lookup, Answer, Quiet, InTransaction, TypeOK
  <2> QED
    BY <2>1, <2>2
<1>4. CASE Begin(w)
  BY <1>4 DEF Begin, Alone, TypeOK
<1>5. CASE PlanConflict(w)
  BY <1>5 DEF PlanConflict, Alone, TypeOK
<1>6. CASE PlanApply(w)
  <2>1. Alone(w)
    BY <1>6 DEF PlanApply, Alone, TypeOK
  <2>2. Planned(w) \/ Quiet(w)
    BY <1>6 DEF PlanApply, Planned, Quiet, InTransaction, TypeOK
  <2> QED
    BY <2>1, <2>2
<1>7. CASE Commit(w)
  BY <1>7 DEF Commit, Answer, Alone, TypeOK
<1>8. CASE Refuse(w) \/ Reread(w) \/ Fail(w)
  <2>1. Alone(w)
    BY <1>8 DEF Refuse, Reread, Fail, Answer, Alone, TypeOK
  <2>2. Quiet(w)
    BY <1>8 DEF Refuse, Reread, Fail, Answer, Quiet, InTransaction, TypeOK
  <2> QED
    BY <2>1, <2>2
<1>9. CASE LoseRace(w) \/ Reply(w) \/ Drop(w)
  <2>1. Alone(w)
    BY <1>9 DEF LoseRace, Reply, Drop, Alone, TypeOK
  <2>2. Quiet(w)
    BY <1>9 DEF LoseRace, Reply, Drop, Quiet, InTransaction, TypeOK
  <2> QED
    BY <2>1, <2>2
<1> QED
  BY <1>1, <1>2, <1>3, <1>4, <1>5, <1>6, <1>7, <1>8, <1>9 DEF Step, Serve

(* A request that does not move keeps its operation, locks and inserts.     *)
LEMMA Bystander ==
  ASSUME NEW w \in Workers, Alone(w), NEW v \in Workers \ {w}
  PROVE  /\ Op(v)' = Op(v) /\ Says(v)' = Says(v) /\ Entity(v)' = Entity(v)
         /\ Client(v)' = Client(v) /\ ConflictOf(v)' = ConflictOf(v)
         /\ NewProject(v)' = NewProject(v)
         /\ \A e \in Entities : /\ Locks(v, e)' = Locks(v, e)
                                /\ Inserting(v, e)' = Inserting(v, e)
<1>1. /\ batch'[v] = batch[v] /\ results'[v] = results[v] /\ pc'[v] = pc[v]
      /\ snap'[v] = snap[v] /\ plan'[v] = plan[v] /\ content' = content
  BY DEF Alone
<1>2. Op(v)' = Op(v) /\ Client(v)' = Client(v)
  BY <1>1 DEF Op, Client
<1>3. Says(v)' = Says(v) /\ Entity(v)' = Entity(v)
  BY <1>1, <1>2 DEF Says, Entity
<1> QED
  BY <1>1, <1>2, <1>3 DEF ConflictOf, NewProject, Locks, Inserting, InTransaction

(* Inside a transaction the operation at hand stays the same.               *)
LEMMA SameOperation ==
  ASSUME NEW w \in Workers, content' = content, batch' = batch, results' = results
  PROVE  /\ Op(w)' = Op(w) /\ Says(w)' = Says(w) /\ Entity(w)' = Entity(w)
         /\ Client(w)' = Client(w)
BY DEF Op, Says, Entity, Client

-----------------------------------------------------------------------------
(* Locks and inserts.                                                      *)

(* The transaction that commits a change is alone on the row: it has the    *)
(* row that it read, or the row is not there.                               *)
LEMMA CommitExclusive ==
  ASSUME TypeOK, LockedRows, InsertedRows, NEW w \in Workers, pc[w] = "commit",
         plan[w].status = "APPLIED"
  PROVE  /\ Entity(w) \in Entities
         /\ \A v \in Workers \ {w} : ~Locks(v, Entity(w)) /\ ~Inserting(v, Entity(w))
         /\ snap[w].version = row[Entity(w)].version
         /\ Exists(snap[w]) => snap[w] = row[Entity(w)]
<1>1. Entity(w) \in Entities
  BY OpAtHand DEF TypeOK
<1>2. row[Entity(w)].version \in Nat /\ snap[w].version \in Nat
  BY <1>1 DEF TypeOK, Rows
<1>3. CASE Exists(snap[w])
  <2>1. Locks(w, Entity(w))
    BY <1>3 DEF Locks, InTransaction
  <2>2. snap[w] = row[Entity(w)] /\ \A v \in Workers \ {w} : ~Locks(v, Entity(w))
    BY <1>1, <2>1 DEF LockedRows
  <2>3. \A v \in Workers \ {w} : ~Inserting(v, Entity(w))
    BY <1>1, <1>3, <2>2 DEF InsertedRows
  <2> QED
    BY <1>1, <2>2, <2>3
<1>4. CASE ~Exists(snap[w])
  <2>1. Inserting(w, Entity(w))
    BY <1>4 DEF Inserting
  <2>2. ~Exists(row[Entity(w)]) /\ \A v \in Workers \ {w} : ~Inserting(v, Entity(w))
    BY <1>1, <2>1 DEF InsertedRows
  <2>3. \A v \in Workers \ {w} : ~Locks(v, Entity(w))
    BY <1>1, <2>2 DEF LockedRows, Locks
  <2> QED
    BY <1>1, <1>2, <1>4, <2>2, <2>3 DEF Exists
<1> QED
  BY <1>3, <1>4

LEMMA LocksStep ==
  ASSUME TypeOK, LockedRows, InsertedRows, NEW w \in Workers, Step(w)
  PROVE  LockedRows' /\ InsertedRows'
<1> USE DEF tables
<1>1. Alone(w)
  BY StepKinds
<1>2. \A v \in Workers \ {w} :
        /\ snap'[v] = snap[v]
        /\ \A e \in Entities : /\ Locks(v, e)' = Locks(v, e)
                               /\ Inserting(v, e)' = Inserting(v, e)
  BY <1>1, Bystander DEF Alone
<1>3. ASSUME Quiet(w) PROVE LockedRows' /\ InsertedRows'
  <2>1. row' = row /\ \A e \in Entities : ~Locks(w, e)' /\ ~Inserting(w, e)'
    BY <1>3 DEF Quiet, Locks, Inserting, InTransaction
  <2> QED
    BY <1>2, <2>1 DEF LockedRows, InsertedRows
<1>4. ASSUME Begin(w) PROVE LockedRows' /\ InsertedRows'
  <2>1. Entity(w)' = Entity(w) /\ Entity(w) \in Entities
    BY <1>4, SameOperation, OpAtHand DEF Begin, TypeOK
  <2>2. row' = row /\ snap'[w] = row[Entity(w)] /\ pc'[w] = "decide"
    BY <1>4 DEF Begin, TypeOK
  <2>3. \A e \in Entities : ~Inserting(w, e)'
    BY <2>2 DEF Inserting
  <2>4. \A e \in Entities : Locks(w, e)' => /\ e = Entity(w)
                                           /\ \A v \in Workers \ {w} : ~Locks(v, e)
    BY <1>4, <2>1 DEF Begin, Locks
  <2> QED
    BY <1>2, <2>2, <2>3, <2>4 DEF LockedRows, InsertedRows
<1>5. ASSUME PlanConflict(w) PROVE LockedRows' /\ InsertedRows'
  <2>1. /\ Entity(w)' = Entity(w) /\ row' = row /\ snap' = snap /\ pc[w] = "decide"
        /\ pc'[w] = "commit" /\ plan'[w].status = "CONFLICT"
    BY <1>5, SameOperation DEF PlanConflict, TypeOK, Conflict, NoAnswer
  <2>2. \A e \in Entities : Locks(w, e)' = Locks(w, e) /\ ~Inserting(w, e)'
    BY <2>1 DEF Locks, Inserting, InTransaction
  <2> QED
    BY <1>2, <2>1, <2>2 DEF LockedRows, InsertedRows
<1>6. ASSUME Planned(w) PROVE LockedRows' /\ InsertedRows'
  <2>1. /\ Entity(w)' = Entity(w) /\ row' = row /\ snap' = snap /\ pc[w] = "decide"
        /\ pc'[w] = "commit" /\ Entity(w) \in Entities
    BY <1>6, SameOperation, OpAtHand DEF Planned, PlanApply, TypeOK
  <2>2. \A e \in Entities : Locks(w, e)' = Locks(w, e)
    BY <2>1 DEF Locks, InTransaction
  <2>3. \A e \in Entities : Inserting(w, e)' =>
          /\ ~Exists(row[e])
          /\ \A v \in Workers \ {w} : ~Inserting(v, e)
    BY <1>6, <2>1 DEF Planned, PlanApply, Inserting, TypeOK
  <2> QED
    BY <1>2, <2>1, <2>2, <2>3 DEF LockedRows, InsertedRows
<1>7. ASSUME Commit(w) PROVE LockedRows' /\ InsertedRows'
  <2>1. \A e \in Entities : ~Locks(w, e)' /\ ~Inserting(w, e)'
    BY <1>7 DEF Commit, Answer, Locks, Inserting, InTransaction, TypeOK
  <2>2. \A e \in Entities : row'[e] # row[e] => plan[w].status = "APPLIED" /\ e = Entity(w)
    BY <1>7 DEF Commit, RowAfter, TypeOK
  <2>3. \A e \in Entities, v \in Workers \ {w} :
          Locks(v, e) \/ Inserting(v, e) => row'[e] = row[e]
    BY <1>7, <2>2, CommitExclusive DEF Commit
  <2> QED
    BY <1>2, <2>1, <2>3 DEF LockedRows, InsertedRows
<1> QED
  BY <1>3, <1>4, <1>5, <1>6, <1>7, StepKinds

-----------------------------------------------------------------------------
(* Requests and plans.                                                     *)

LEMMA OneSenderStep ==
  ASSUME TypeOK, OneSender, NEW w \in Workers, Step(w)
  PROVE  OneSender'
<1>1. Alone(w)
  BY StepKinds
<1>2. batch'[w] = batch[w] \/ batch'[w] = <<>>
        \/ \A i \in DOMAIN batch'[w] : content[batch'[w][i]].device = content[batch'[w][1]].device
  BY DEF Step, Serve, Receive, Gate, Lookup, Begin, Refuse, PlanConflict, PlanApply, Commit,
         LoseRace, Reread, Reply, Fail, Drop, TypeOK
<1> QED
  BY <1>1, <1>2 DEF Alone, OneSender

(* The device of the request is that of the operation at hand.              *)
LEMMA SenderOfOp ==
  ASSUME TypeOK, OneSender, NEW w \in Workers, Len(results[w]) < Len(batch[w])
  PROVE  content[Op(w)].device = Client(w)
<1>1. Len(results[w]) + 1 \in DOMAIN batch[w]
  <2>1. batch[w] \in Seq(OpIds) /\ results[w] \in Seq(Answers)
    BY DEF TypeOK
  <2> QED
    BY <2>1
<1> QED
  BY <1>1 DEF OneSender, Op, Client

(* resolveProjectId finds the project at the root of the entity or none, and *)
(* of a row that is not there only a project can be resolved.               *)
LEMMA ProjectIsRoot ==
  ASSUME NEW w \in Workers, NEW p \in ProjectOf(w), Level[Entity(w)] \in Levels
  PROVE  /\ p = RootOf(Entity(w))
         /\ Says(w).kind # "CREATE" /\ ~Exists(snap[w]) => Level[Entity(w)] = "PROJECT"
BY DEF ProjectOf, RootOf, Levels

LEMMA PlansStep ==
  ASSUME TypeOK, SoundPlans, NEW w \in Workers, Step(w)
  PROVE  SoundPlans'
<1> USE DEF tables
<1>1. Alone(w)
  BY StepKinds
<1>2. members \subseteq members'
  BY StepKinds DEF Quiet, Begin, PlanConflict, Planned, PlanApply, Commit, MembersAfter
<1>3. ASSUME NEW v \in Workers \ {w}, pc'[v] = "commit"
      PROVE  /\ plan'[v] = PlanOf(v)'
             /\ NewProject(v)' \/ IsMember(v)'
             /\ Says(v)'.kind # "CREATE" /\ ~Exists(snap'[v]) => Level[Entity(v)'] = "PROJECT"
  <2>1. /\ pc[v] = "commit" /\ plan'[v] = plan[v] /\ snap'[v] = snap[v]
        /\ Says(v)' = Says(v) /\ Entity(v)' = Entity(v) /\ Client(v)' = Client(v)
        /\ ConflictOf(v)' = ConflictOf(v) /\ NewProject(v)' = NewProject(v)
    BY <1>1, <1>3, Bystander DEF Alone
  <2>2. PlanOf(v)' = PlanOf(v)
    BY <2>1 DEF PlanOf
  <2>3. IsMember(v) => IsMember(v)'
    BY <1>2, <2>1 DEF IsMember
  <2> QED
    BY <2>1, <2>2, <2>3 DEF SoundPlans
<1>4. ASSUME PlanConflict(w) \/ Planned(w)
      PROVE  /\ plan'[w] = PlanOf(w)'
             /\ NewProject(w)' \/ IsMember(w)'
             /\ Says(w)'.kind # "CREATE" /\ ~Exists(snap'[w]) => Level[Entity(w)'] = "PROJECT"
  <2>1. /\ Says(w)' = Says(w) /\ Entity(w)' = Entity(w) /\ Client(w)' = Client(w)
        /\ snap' = snap /\ members' = members /\ Authorized(w)
        /\ pc[w] = "decide" /\ Entity(w) \in Entities
    BY <1>4, SameOperation, OpAtHand DEF PlanConflict, Planned, PlanApply, TypeOK
  <2>2. ConflictOf(w)' = ConflictOf(w) /\ NewProject(w)' = NewProject(w)
    BY <2>1 DEF ConflictOf, NewProject
  <2>3. plan'[w] = PlanOf(w)'
    <3>1. CASE PlanConflict(w)
      BY <2>1, <2>2, <3>1 DEF PlanConflict, PlanOf, TypeOK
    <3>2. CASE Planned(w)
      <4>1. plan'[w] = Applied(snap[w].version + 1, nextSeq) /\ ConflictOf(w) = "NONE"
        BY <3>2 DEF Planned, PlanApply, TypeOK
      <4>2. plan'[w].sequence = nextSeq
        BY <4>1 DEF Applied, NoAnswer
      <4> QED
        BY <2>1, <2>2, <4>1, <4>2 DEF PlanOf
    <3> QED
      BY <1>4, <3>1, <3>2
  <2>4. Level[Entity(w)] \in Levels
    BY <2>1, TreeAssumption
  <2>5. NewProject(w) \/ IsMember(w)
    BY <2>1, <2>4, ProjectIsRoot DEF Authorized, IsMember
  <2>6. Says(w).kind # "CREATE" /\ ~Exists(snap[w]) => Level[Entity(w)] = "PROJECT"
    BY <2>1, <2>4, ProjectIsRoot DEF Authorized, NewProject
  <2>7. IsMember(w)' = IsMember(w)
    BY <2>1 DEF IsMember
  <2> QED
    BY <2>1, <2>2, <2>3, <2>5, <2>6, <2>7
<1>5. ASSUME Quiet(w) \/ Begin(w) \/ Commit(w) PROVE pc'[w] # "commit"
  BY <1>5 DEF Quiet, InTransaction, Begin, Commit, Answer, TypeOK
<1> QED
  BY <1>3, <1>4, <1>5, StepKinds DEF SoundPlans

LEMMA SequencesStep ==
  ASSUME TypeOK, LockedRows, InsertedRows, FreshSequences, NEW w \in Workers, Step(w)
  PROVE  FreshSequences'
<1> USE DEF tables
<1>1. Alone(w)
  BY StepKinds
<1>2. \A v \in Workers \ {w} :
        /\ Entity(v)' = Entity(v) /\ pc'[v] = pc[v] /\ plan'[v] = plan[v]
  BY <1>1, Bystander DEF Alone
<1>3. nextSeq \in Nat /\ \A c \in log : c.sequence \in Nat
  BY DEF TypeOK, Changes
<1>4. ASSUME log' = log, nextSeq' = nextSeq, pc'[w] # "commit" \/ plan'[w].status = "CONFLICT"
      PROVE  FreshSequences'
  BY <1>2, <1>4 DEF FreshSequences, ChangesOf
<1>5. CASE Quiet(w)
  BY <1>4, <1>5 DEF Quiet, InTransaction
<1>6. CASE Begin(w)
  BY <1>4, <1>6 DEF Begin, TypeOK
<1>7. CASE PlanConflict(w)
  <2>1. plan'[w].status = "CONFLICT"
    BY <1>7 DEF PlanConflict, TypeOK, Conflict, NoAnswer
  <2> QED
    BY <1>4, <1>7, <2>1 DEF PlanConflict
<1>8. CASE Planned(w)
  <2>1. log' = log /\ nextSeq' = nextSeq + 1 /\ plan'[w].sequence = nextSeq
    <3>1. /\ log' = log /\ nextSeq' = nextSeq + 1
          /\ plan'[w] = Applied(snap[w].version + 1, nextSeq)
      BY <1>8 DEF Planned, PlanApply, TypeOK
    <3> QED
      BY <3>1 DEF Applied, NoAnswer
  <2>2. \A v \in Workers \ {w} : plan[v].sequence \in Nat
    BY DEF TypeOK, Answers
  <2> QED
    BY <1>2, <1>3, <2>1, <2>2 DEF FreshSequences, ChangesOf
<1>9. CASE Commit(w)
  <2>1. /\ nextSeq' = nextSeq /\ pc'[w] # "commit" /\ pc[w] = "commit"
        /\ log' = LogAfter(w)
    BY <1>9 DEF Commit, Answer, TypeOK
  <2>2. CASE plan[w].status # "APPLIED"
    BY <1>4, <2>1, <2>2 DEF LogAfter
  <2>3. CASE plan[w].status = "APPLIED"
    <3>1. log' = log \cup {Entry(w)} /\ Entry(w).sequence = plan[w].sequence
          /\ Entry(w).entity = Entity(w)
      BY <2>1, <2>3 DEF LogAfter, Entry
    <3>2. \A v \in Workers \ {w} : ~Locks(v, Entity(w)) /\ ~Inserting(v, Entity(w))
      BY <2>1, <2>3, CommitExclusive
    <3>3. \A v \in Workers \ {w} :
            pc[v] = "commit" /\ plan[v].status = "APPLIED" => Entity(v) # Entity(w)
      BY <3>2 DEF Locks, Inserting, InTransaction
    <3> QED
      BY <1>2, <2>1, <2>3, <3>1, <3>3 DEF FreshSequences, ChangesOf
  <2> QED
    BY <2>2, <2>3
<1> QED
  BY <1>5, <1>6, <1>7, <1>8, <1>9, StepKinds

-----------------------------------------------------------------------------
(* Tables.                                                                 *)

(* Only Commit writes the tables of decisions.                             *)
LEMMA OnlyCommitWrites ==
  ASSUME TypeOK, NEW w \in Workers, Step(w), ~Commit(w)
  PROVE  /\ row' = row /\ log' = log /\ idem' = idem /\ conflicts' = conflicts
         /\ members' = members /\ content' = content
BY StepKinds DEF Quiet, Begin, PlanConflict, Planned, PlanApply, Alone, tables

(* A plan that is about to be committed is APPLIED or CONFLICT.            *)
LEMMA PlanShapes ==
  ASSUME SoundPlans, NEW w \in Workers, pc[w] = "commit"
  PROVE  \/ /\ ConflictOf(w) = "NONE" /\ plan[w].status = "APPLIED"
            /\ plan[w].version = snap[w].version + 1
         \/ /\ ConflictOf(w) # "NONE" /\ plan[w].status = "CONFLICT"
            /\ plan[w].conflict = ConflictOf(w)
BY DEF SoundPlans, PlanOf, Applied, Conflict, NoAnswer

LEMMA StoredStep ==
  ASSUME TypeOK, SoundPlans, StoredAnswerMatchesTables, NEW w \in Workers, Step(w)
  PROVE  StoredAnswerMatchesTables'
<1>1. CASE ~Commit(w)
  BY <1>1, OnlyCommitWrites DEF StoredAnswerMatchesTables, EntryOf, ConflictRecordOf
<1>2. CASE Commit(w)
  <2>0. PICK p \in OpIds : p = Op(w)
    BY <1>2, OpAtHand DEF Commit, TypeOK
  <2>1. p = Op(w) /\ pc[w] = "commit" /\ content' = content
    BY <1>2, <2>0 DEF Commit
  <2>2. /\ idem[p] = NoAnswer /\ idem'[p] = plan[w]
        /\ \A o \in OpIds \ {p} : idem'[o] = idem[o]
        /\ log' = LogAfter(w) /\ conflicts' = ConflictsAfter(w)
    BY <1>2, <2>1 DEF Commit, KeyTaken, TypeOK
  <2>3. /\ {c \in log : c.op = p} = {}
        /\ {k \in conflicts : k.op = p} = {}
    BY <2>1, <2>2 DEF StoredAnswerMatchesTables, NoAnswer
  <2>4. ASSUME NEW o \in OpIds \ {p}
        PROVE  /\ {c \in log' : c.op = o} = {c \in log : c.op = o}
               /\ {k \in conflicts' : k.op = o} = {k \in conflicts : k.op = o}
               /\ EntryOf(o)' = EntryOf(o) /\ ConflictRecordOf(o)' = ConflictRecordOf(o)
               /\ idem'[o] = idem[o]
    <3>1. Entry(w).op # o /\ ConflictRecord(w).op # o
      BY <2>1 DEF Entry, ConflictRecord
    <3> QED
      BY <2>1, <2>2, <3>1 DEF LogAfter, ConflictsAfter, EntryOf, ConflictRecordOf
  <2>5. CASE plan[w].status = "APPLIED"
    <3>1. /\ Entry(w) = EntryOf(p)'
          /\ Entry(w).op = p
      BY <2>1, <2>2 DEF Entry, EntryOf, Entity, Says
    <3>2. log' = log \cup {Entry(w)} /\ conflicts' = conflicts
      BY <2>2, <2>5 DEF LogAfter, ConflictsAfter
    <3>3. {c \in log' : c.op = p} = {EntryOf(p)'}
      BY <2>3, <3>1, <3>2
    <3> QED
      BY <2>2, <2>3, <2>4, <2>5, <3>2, <3>3 DEF StoredAnswerMatchesTables
  <2>6. CASE plan[w].status = "CONFLICT"
    <3>1. /\ ConflictRecord(w) = ConflictRecordOf(p)'
          /\ ConflictRecord(w).op = p
      BY <2>1, <2>2 DEF ConflictRecord, ConflictRecordOf
    <3>2. log' = log /\ conflicts' = conflicts \cup {ConflictRecord(w)}
      BY <2>2, <2>6 DEF LogAfter, ConflictsAfter
    <3>3. {k \in conflicts' : k.op = p} = {ConflictRecordOf(p)'}
      BY <2>3, <3>1, <3>2
    <3> QED
      BY <2>2, <2>3, <2>4, <2>6, <3>2, <3>3 DEF StoredAnswerMatchesTables
  <2> QED
    BY <2>1, <2>5, <2>6, PlanShapes
<1> QED
  BY <1>1, <1>2

LEMMA UpdatesStep ==
  ASSUME TypeOK, LockedRows, InsertedRows, SoundPlans, FreshSequences, TombstonesLast,
         NoLostUpdate, SeedsStay, DeadRowsExist, NEW w \in Workers, Step(w)
  PROVE  NoLostUpdate' /\ TombstonesLast' /\ SeedsStay' /\ DeadRowsExist'
<1>1. CASE ~Commit(w) \/ plan[w].status # "APPLIED"
  <2>1. row' = row /\ log' = log
    BY <1>1, OnlyCommitWrites DEF Commit, RowAfter, LogAfter
  <2> QED
    BY <2>1 DEF NoLostUpdate, TombstonesLast, ChangesOf, SeedsStay, DeadRowsExist
<1>2. CASE Commit(w) /\ plan[w].status = "APPLIED"
  <2>0. PICK e \in Entities, n \in Nat, x \in {Entry(w)} :
          e = Entity(w) /\ n = row[e].version
    <3>1. Entity(w) \in Entities /\ row[Entity(w)].version \in Nat
      BY <1>2, OpAtHand DEF Commit, TypeOK, Rows
    <3> QED
      BY <3>1
  <2>1. /\ pc[w] = "commit" /\ e \in Entities /\ n \in Nat
        /\ e = Entity(w) /\ n = row[e].version /\ x = Entry(w)
    BY <1>2, <2>0 DEF Commit
  <2>2. /\ plan[w].version = n + 1
        /\ ConflictOf(w) = "NONE"
        /\ Exists(snap[w]) => snap[w] = row[e]
        /\ snap[w].version = n
    BY <1>2, <2>1, CommitExclusive, PlanShapes
  <2>3. /\ x.entity = e /\ x.version = n + 1 /\ x.sequence = plan[w].sequence
        /\ x.tombstone = (Says(w).kind = "DELETE")
        /\ log' = log \cup {x}
        /\ row' = [row EXCEPT ![e] = [version |-> n + 1, deleted |-> Says(w).kind = "DELETE"]]
    BY <1>2, <2>1, <2>2 DEF Commit, Entry, LogAfter, RowAfter
  <2>4. /\ row'[e].version = n + 1 /\ row'[e].deleted = (Says(w).kind = "DELETE")
        /\ \A f \in Entities \ {e} : row'[f] = row[f]
    BY <2>1, <2>3 DEF TypeOK
  <2>5. n > 0 => ~row[e].deleted
    BY <2>2 DEF ConflictOf, Exists
  <2>6. \A c \in ChangesOf(e) : /\ c.version \in 1 .. n /\ ~c.tombstone
                                /\ c.sequence < x.sequence
    <3>1. \A c \in ChangesOf(e) : c.version \in FirstVersion(e) .. n
      BY <2>1 DEF NoLostUpdate
    <3>2. FirstVersion(e) \in {1, 2}
      BY DEF FirstVersion
    <3>3. \A c \in ChangesOf(e) : c.sequence < plan[w].sequence
      BY <1>2, <2>1 DEF FreshSequences
    <3>4. \A c \in ChangesOf(e) : c.version \in 1 .. n
      BY <2>1, <3>1, <3>2
    <3>5. \A c \in ChangesOf(e) : ~c.tombstone
      BY <2>1, <2>5, <3>4 DEF ChangesOf, TombstonesLast
    <3> QED
      BY <2>3, <3>3, <3>4, <3>5
  <2>7. /\ ChangesOf(e)' = ChangesOf(e) \cup {x}
        /\ \A f \in Entities \ {e} : ChangesOf(f)' = ChangesOf(f)
    BY <2>3 DEF ChangesOf
  <2>8. {c.version : c \in ChangesOf(e)'} = FirstVersion(e) .. n + 1
    <3>1. {c.version : c \in ChangesOf(e)'} = {c.version : c \in ChangesOf(e)} \cup {n + 1}
      BY <2>3, <2>7
    <3>2. {c.version : c \in ChangesOf(e)} = FirstVersion(e) .. n
      BY <2>1 DEF NoLostUpdate
    <3>3. FirstVersion(e) \in {1, 2} /\ FirstVersion(e) \in 1 .. n + 1
      <4>1. CASE n > 0
        BY <2>1, <4>1 DEF FirstVersion
      <4>2. CASE n = 0
        <5>1. ~(row[e].version > 0)
          BY <2>1, <4>2
        <5>2. e \notin Existing
          BY <5>1 DEF SeedsStay, Exists
        <5> QED
          BY <4>2, <5>2 DEF FirstVersion
      <4> QED
        BY <2>1, <4>1, <4>2
    <3> QED
      BY <2>1, <3>1, <3>2, <3>3
  <2>9. \A c1, c2 \in ChangesOf(e)' :
          /\ c1.version = c2.version => c1 = c2
          /\ c1.version < c2.version => c1.sequence < c2.sequence /\ ~c1.tombstone
    BY <2>1, <2>3, <2>6, <2>7 DEF NoLostUpdate
  <2>10. NoLostUpdate'
    BY <2>1, <2>4, <2>7, <2>8, <2>9 DEF NoLostUpdate, FirstVersion
  <2>11. TombstonesLast'
    BY <2>1, <2>3, <2>4, <2>6 DEF TombstonesLast, ChangesOf, TypeOK, Changes
  <2>12. SeedsStay'
    BY <2>1, <2>4, TreeAssumption DEF SeedsStay, Exists
  <2>13. DeadRowsExist'
    BY <2>1, <2>4 DEF DeadRowsExist, Exists
  <2> QED
    BY <2>10, <2>11, <2>12, <2>13
<1> QED
  BY <1>1, <1>2

LEMMA AnswersStep ==
  ASSUME TypeOK, AnswersAgree, NEW w \in Workers, Step(w)
  PROVE  AnswersAgree'
<1>1. Alone(w)
  BY StepKinds
<1>2. \A o \in OpIds : idem[o] # NoAnswer => idem'[o] = idem[o]
  BY OnlyCommitWrites DEF Commit, KeyTaken, TypeOK
<1>3. NoAnswer.status = "NONE"
  BY DEF NoAnswer
<1>4. ASSUME NEW v \in Workers, NEW i \in DOMAIN results[v],
             results[v][i].status \in {"APPLIED", "CONFLICT"}
      PROVE  results[v][i] = idem'[batch[v][i]]
  <2>1. results[v][i] = idem[batch[v][i]]
    BY <1>4 DEF AnswersAgree
  <2>2. batch[v][i] \in OpIds
    <3>1. results[v] \in Seq(Answers) /\ batch[v] \in Seq(OpIds) /\ Len(results[v]) <= Len(batch[v])
      BY <1>4 DEF TypeOK
    <3> QED
      BY <3>1, <1>4
  <2> QED
    BY <1>2, <1>3, <1>4, <2>1, <2>2
<1>5. ASSUME NEW i \in DOMAIN results'[w],
             results'[w][i].status \in {"APPLIED", "CONFLICT"}
      PROVE  results'[w][i] = idem'[batch'[w][i]]
  <2>1. CASE results'[w] = results[w] /\ batch'[w] = batch[w]
    BY <1>4, <1>5, <2>1
  <2>2. CASE results'[w] = <<>>
    BY <1>5, <2>2
  <2>3. CASE Receive(w)
    <3>1. results'[w] = results[w] /\ results[w] = <<>>
      BY <2>3 DEF Receive, TypeOK
    <3> QED
      BY <2>2, <3>1
  <2>4. CASE Gate(w) /\ results' # results
    <3>1. results'[w] = [j \in DOMAIN batch[w] |-> Plain(Refusal(Client(w)))]
      BY <2>4 DEF Gate, TypeOK
    <3>2. results'[w][i] = Plain(Refusal(Client(w)))
      BY <1>5, <3>1
    <3>3. Plain(Refusal(Client(w))).status \notin {"APPLIED", "CONFLICT"}
      BY DEF Plain, NoAnswer, Refusal
    <3> QED
      BY <1>5, <3>2, <3>3
  <2>5. ASSUME NEW a, Answer(w, a), batch' = batch, Len(results[w]) < Len(batch[w]),
               a.status \in {"APPLIED", "CONFLICT"} => a = idem'[Op(w)]
        PROVE  results'[w][i] = idem'[batch'[w][i]]
    <3>1. results'[w] = Append(results[w], a) /\ results[w] \in Seq(Answers)
      BY <2>5 DEF Answer, TypeOK
    <3>2. CASE i \in DOMAIN results[w]
      <4>1. results'[w][i] = results[w][i]
        BY <3>1, <3>2
      <4> QED
        BY <1>4, <1>5, <2>5, <3>2, <4>1
    <3>3. CASE i \notin DOMAIN results[w]
      <4>1. i = Len(results[w]) + 1 /\ results'[w][i] = a
        BY <1>5, <3>1, <3>3
      <4> QED
        BY <1>5, <2>5, <4>1 DEF Op
    <3> QED
      BY <3>2, <3>3
  <2>6. CASE Lookup(w) /\ idem[Op(w)] # NoAnswer
    <3>1. Answer(w, idem[Op(w)]) /\ batch' = batch /\ idem' = idem
      BY <2>6 DEF Lookup, tables
    <3> QED
      BY <2>5, <2>6, <3>1 DEF Lookup, TypeOK
  <2>7. CASE Refuse(w) \/ Fail(w)
    <3>1. PICK a \in {Plain("UNAUTHORIZED"), Plain("REJECTED")} : Answer(w, a)
      BY <2>7 DEF Refuse, Fail
    <3>2. a.status \notin {"APPLIED", "CONFLICT"}
      BY <3>1 DEF Plain, NoAnswer
    <3>3. batch' = batch /\ Len(results[w]) < Len(batch[w])
      BY <2>7 DEF Refuse, Fail, InTransaction, TypeOK
    <3> QED
      BY <2>5, <3>1, <3>2, <3>3
  <2>8. CASE Reread(w)
    <3>1. PICK a : /\ Answer(w, a)
                   /\ a = IF KeyTaken(w) THEN idem[Op(w)] ELSE Plain("REJECTED")
      BY <2>8 DEF Reread
    <3>2. batch' = batch /\ Len(results[w]) < Len(batch[w]) /\ idem' = idem
      BY <2>8 DEF Reread, TypeOK, tables
    <3>3. a.status \in {"APPLIED", "CONFLICT"} => a = idem'[Op(w)]
      BY <3>1, <3>2 DEF Plain, NoAnswer
    <3> QED
      BY <2>5, <3>1, <3>2, <3>3
  <2>9. CASE Commit(w)
    <3>1. Answer(w, plan[w]) /\ batch' = batch /\ Len(results[w]) < Len(batch[w])
      BY <2>9 DEF Commit, TypeOK
    <3>2. plan[w] = idem'[Op(w)]
      BY <2>9, <3>1, OpAtHand DEF Commit, TypeOK
    <3> QED
      BY <2>5, <3>1, <3>2
  <2>10. CASE Reply(w) \/ Drop(w)
    <3>1. results'[w] = <<>>
      BY <2>10 DEF Reply, Drop, TypeOK
    <3> QED
      BY <2>2, <3>1
  <2>11. CASE \/ Begin(w) \/ PlanConflict(w) \/ PlanApply(w) \/ LoseRace(w)
              \/ Gate(w) /\ results' = results
              \/ Lookup(w) /\ idem[Op(w)] = NoAnswer
    <3>1. results' = results /\ batch' = batch
      BY <2>11 DEF Begin, PlanConflict, PlanApply, LoseRace, Gate, Lookup
    <3> QED
      BY <2>1, <3>1
  <2> QED
    BY <2>3, <2>4, <2>6, <2>7, <2>8, <2>9, <2>10, <2>11 DEF Step, Serve
<1> QED
  BY <1>1, <1>4, <1>5 DEF Alone, AnswersAgree

LEMMA MembersStep ==
  ASSUME TypeOK, OneSender, LockedRows, InsertedRows, SoundPlans, OnlyMembersWrite,
         NEW w \in Workers, Step(w)
  PROVE  OnlyMembersWrite'
<1>1. CASE ~Commit(w) \/ plan[w].status # "APPLIED"
  <2>1. log' = log /\ members' = members /\ content' = content
    BY <1>1, OnlyCommitWrites DEF Commit, LogAfter, MembersAfter
  <2> QED
    BY <2>1 DEF OnlyMembersWrite
<1>2. CASE Commit(w) /\ plan[w].status = "APPLIED"
  <2>1. /\ log' = log \cup {Entry(w)} /\ members \subseteq members' /\ content' = content
        /\ NewProject(w) => <<UserOf[Client(w)], Entity(w)>> \in members'
        /\ pc[w] = "commit" /\ Len(results[w]) < Len(batch[w])
    BY <1>2 DEF Commit, LogAfter, MembersAfter, TypeOK
  <2>2. content[Op(w)].device = Client(w)
    BY <2>1, SenderOfOp
  <2>3. <<UserOf[Client(w)], RootOf(Entity(w))>> \in members'
    <3>1. CASE NewProject(w)
      BY <2>1, <3>1 DEF NewProject, RootOf
    <3>2. CASE ~NewProject(w)
      BY <2>1, <3>2 DEF SoundPlans, IsMember
    <3> QED
      BY <3>1, <3>2
  <2>4. Entry(w).op = Op(w) /\ Entry(w).entity = Entity(w)
    BY DEF Entry
  <2> QED
    BY <2>1, <2>2, <2>3, <2>4 DEF OnlyMembersWrite
<1> QED
  BY <1>1, <1>2

-----------------------------------------------------------------------------
(* The invariant.                                                          *)

LEMMA ConsistentInit == Init => Consistent
<1> SUFFICES ASSUME Init PROVE Consistent
  OBVIOUS
<1>1. TypeOK
  BY TypeOKInit
<1>2. OneSender
  BY DEF Init, OneSender
<1>3. LockedRows /\ InsertedRows /\ SoundPlans
  BY DEF Init, LockedRows, InsertedRows, SoundPlans, Locks, Inserting, InTransaction
<1>4. FreshSequences /\ TombstonesLast /\ OnlyMembersWrite
  BY DEF Init, FreshSequences, TombstonesLast, OnlyMembersWrite
<1>5. StoredAnswerMatchesTables
  BY DEF Init, StoredAnswerMatchesTables, NoAnswer
<1>6. SeedsStay /\ DeadRowsExist
  BY TreeAssumption DEF Init, SeedsStay, DeadRowsExist, Exists, Missing
<1>7. NoLostUpdate
  <2>1. \A e \in Entities : ChangesOf(e) = {}
    BY DEF Init, ChangesOf
  <2>2. \A e \in Entities : FirstVersion(e) = row[e].version + 1 /\ row[e].version \in Nat
    BY DEF Init, FirstVersion, Missing
  <2>3. \A e \in Entities : FirstVersion(e) .. row[e].version = {}
    BY <2>2
  <2> QED
    BY <2>1, <2>3 DEF NoLostUpdate
<1>8. AnswersAgree
  BY DEF Init, AnswersAgree
<1> QED
  BY <1>1, <1>2, <1>3, <1>4, <1>5, <1>6, <1>7, <1>8 DEF Consistent

LEMMA ConsistentNext == Consistent /\ [Next]_vars => Consistent'
<1> SUFFICES ASSUME Consistent, [Next]_vars PROVE Consistent'
  OBVIOUS
<1>1. TypeOK'
  BY TypeOKNext DEF Consistent
<1>2. ASSUME NEW w \in Workers, Step(w) PROVE Consistent'
  BY <1>1, <1>2, OneSenderStep, LocksStep, PlansStep, SequencesStep, StoredStep, UpdatesStep,
     AnswersStep, MembersStep DEF Consistent
<1>3. ASSUME /\ UNCHANGED <<content, row, log, nextSeq, idem, conflicts, pc, batch, snap, plan,
                            results>>
             /\ members \subseteq members'
      PROVE  Consistent'
  <2>1. OneSender' /\ LockedRows' /\ InsertedRows'
    BY <1>3 DEF Consistent, OneSender, LockedRows, InsertedRows, Locks, Inserting,
                InTransaction, Entity, Says, Op
  <2>2. ASSUME NEW w \in Workers
        PROVE  /\ PlanOf(w)' = PlanOf(w) /\ NewProject(w)' = NewProject(w)
               /\ Says(w)' = Says(w) /\ Entity(w)' = Entity(w)
               /\ IsMember(w) => IsMember(w)'
    <3>1. Says(w)' = Says(w) /\ Entity(w)' = Entity(w) /\ Client(w)' = Client(w)
      BY <1>3, SameOperation
    <3>2. ConflictOf(w)' = ConflictOf(w) /\ NewProject(w)' = NewProject(w)
      BY <1>3, <3>1 DEF ConflictOf, NewProject
    <3> QED
      BY <1>3, <3>1, <3>2 DEF PlanOf, IsMember
  <2>3. SoundPlans' /\ FreshSequences'
    BY <1>3, <2>2 DEF Consistent, SoundPlans, FreshSequences, ChangesOf
  <2>4. TombstonesLast' /\ SeedsStay' /\ DeadRowsExist' /\ NoLostUpdate' /\ AnswersAgree' /\ OnlyMembersWrite'
    BY <1>3 DEF Consistent, TombstonesLast, SeedsStay, DeadRowsExist, NoLostUpdate, ChangesOf,
                AnswersAgree, OnlyMembersWrite
  <2>5. StoredAnswerMatchesTables'
    BY <1>3 DEF Consistent, StoredAnswerMatchesTables, EntryOf, ConflictRecordOf
  <2> QED
    BY <1>1, <2>1, <2>3, <2>4, <2>5 DEF Consistent
<1>4. ASSUME NEW d \in Watched, WindowExpires(d) \/ Revoke(d) PROVE Consistent'
  BY <1>3, <1>4 DEF WindowExpires, Revoke, tables
<1>5. ASSUME NEW u \in Users, NEW p \in Entities, AddMember(u, p) PROVE Consistent'
  BY <1>3, <1>5 DEF AddMember
<1>6. CASE UNCHANGED vars
  BY <1>3, <1>6 DEF vars, tables
<1> QED
  BY <1>2, <1>4, <1>5, <1>6 DEF Next, Step

THEOREM AlwaysConsistent == Spec => []Consistent
BY ConsistentInit, ConsistentNext, PTL DEF Spec

(* Whatever is delivered, how often and in which interleaving: the stored   *)
(* answer of an operation, its change_log entry and its conflict record     *)
(* stand or fall together (push-handler.ts 183-592).                        *)
THEOREM AnswersMatchTables == Spec => []StoredAnswerMatchesTables
<1>1. Consistent => StoredAnswerMatchesTables
  BY DEF Consistent
<1> QED
  BY <1>1, AlwaysConsistent, PTL

(* An operation enters change_log at most once.                             *)
THEOREM ExactlyOnce == Spec => []AppliedOnce
<1>1. Consistent => AppliedOnce
  <2> SUFFICES ASSUME Consistent, NEW c1 \in log, NEW c2 \in log, c1.op = c2.op
               PROVE  c1 = c2
    BY DEF AppliedOnce
  <2>1. c1.op \in OpIds
    BY DEF Consistent, TypeOK, Changes
  <2>2. c1 \in {c \in log : c.op = c1.op} /\ c2 \in {c \in log : c.op = c1.op}
    OBVIOUS
  <2> QED
    BY <2>1, <2>2 DEF Consistent, StoredAnswerMatchesTables
<1> QED
  BY <1>1, AlwaysConsistent, PTL

(* No committed update is lost: the changes of an entity are numbered 1, 2, *)
(* ... up to its row, in sequence order, and end with its tombstone.        *)
THEOREM NoUpdateIsLost == Spec => []NoLostUpdate
<1>1. Consistent => NoLostUpdate
  BY DEF Consistent
<1> QED
  BY <1>1, AlwaysConsistent, PTL

(* Two deliveries of an operation never get different verdicts.             *)
THEOREM RetriesAgree == Spec => []AnswersAgree
<1>1. Consistent => AnswersAgree
  BY DEF Consistent
<1> QED
  BY <1>1, AlwaysConsistent, PTL

(* Only members of a project change it.                                     *)
THEOREM MembersOnly == Spec => []OnlyMembersWrite
<1>1. Consistent => OnlyMembersWrite
  BY DEF Consistent
<1> QED
  BY <1>1, AlwaysConsistent, PTL

-----------------------------------------------------------------------------
(* Steps.                                                                  *)

(* No step changes a stored answer, a change_log entry or a tombstone: the  *)
(* last because a transaction that applies holds the row it found alive.    *)
THEOREM Finality == Spec => DecisionsAreFinal
<1>1. ASSUME Consistent, [Next]_vars PROVE [KeepsDecisions]_vars
  <2>0. TypeOK /\ LockedRows /\ InsertedRows /\ SoundPlans /\ DeadRowsExist /\ Consistent
    BY <1>1 DEF Consistent
  <2>1. ASSUME NEW w \in Workers, Commit(w) PROVE KeepsDecisions
    <3>1. /\ idem' = [idem EXCEPT ![Op(w)] = plan[w]] /\ idem[Op(w)] = NoAnswer
          /\ row' = RowAfter(w) /\ log' = LogAfter(w) /\ pc[w] = "commit"
      BY <2>1 DEF Commit, KeyTaken
    <3>2. \A o \in OpIds : idem[o] # NoAnswer => idem'[o] = idem[o]
      BY <2>0, <3>1 DEF TypeOK
    <3>3. ASSUME NEW e \in Entities, row[e].deleted PROVE row'[e] = row[e]
      <4>1. CASE plan[w].status = "APPLIED" /\ e = Entity(w)
        <5>1. /\ Exists(snap[w]) => snap[w] = row[e]
              /\ snap[w].version = row[e].version
          BY <2>0, <3>1, <4>1, CommitExclusive DEF TypeOK
        <5>2. ConflictOf(w) = "NONE"
          BY <2>0, <3>1, <4>1, PlanShapes
        <5>3. ~Exists(snap[w])
          BY <3>3, <5>1, <5>2 DEF ConflictOf
        <5>4. row[e].version = 0
          BY <2>0, <5>1, <5>3 DEF Exists, TypeOK, Rows
        <5> QED
          BY <2>0, <3>3, <5>4 DEF DeadRowsExist, Exists
      <4>2. CASE ~(plan[w].status = "APPLIED" /\ e = Entity(w))
        BY <2>0, <3>1, <4>2 DEF RowAfter, TypeOK
      <4> QED
        BY <4>1, <4>2
    <3> QED
      BY <3>1, <3>2, <3>3 DEF KeepsDecisions, LogAfter
  <2>2. ASSUME NEW w \in Workers, Step(w), ~Commit(w) PROVE KeepsDecisions
    BY <2>0, <2>2, OnlyCommitWrites DEF KeepsDecisions
  <2>3. ASSUME NEW d \in Watched, WindowExpires(d) \/ Revoke(d) PROVE KeepsDecisions
    BY <2>3 DEF WindowExpires, Revoke, tables, KeepsDecisions
  <2>4. ASSUME NEW u \in Users, NEW p \in Entities, AddMember(u, p) PROVE KeepsDecisions
    BY <2>4 DEF AddMember, KeepsDecisions
  <2> QED
    BY <1>1, <2>1, <2>2, <2>3, <2>4 DEF Next, Step
<1> QED
  BY <1>1, AlwaysConsistent, PTL DEF Spec, DecisionsAreFinal

(* The handler implements the ledger: every operation is decided at most    *)
(* once, in the step of its COMMIT, on the row and memberships of that step. *)
LEMMA CommitImplements ==
  ASSUME Consistent, NEW w \in Workers, Commit(w)
  PROVE  \E o \in OpIds : Ledger!Apply(o) \/ Ledger!TurnDown(o)
<1>1. TypeOK /\ OneSender /\ LockedRows /\ InsertedRows /\ SoundPlans /\ FreshSequences
  BY DEF Consistent
<1>2. PICK o \in OpIds : o = Op(w)
  BY <1>1, OpAtHand DEF Commit, TypeOK
<1>3. PICK e \in Entities : e = Entity(w)
  BY <1>1, OpAtHand DEF Commit, TypeOK
<1>4. /\ pc[w] = "commit" /\ idem[o] = NoAnswer
      /\ idem' = [idem EXCEPT ![o] = plan[w]] /\ row' = RowAfter(w) /\ log' = LogAfter(w)
      /\ members' = MembersAfter(w) /\ content' = content
  BY <1>2 DEF Commit, KeyTaken
<1>5. content[o] = Says(w) /\ content[o].entity = e /\ content[o].device = Client(w)
  <2>1. content[Op(w)].device = Client(w)
    BY <1>1, <1>4, SenderOfOp DEF TypeOK
  <2> QED
    BY <1>2, <1>3, <2>1 DEF Says, Entity
<1>6. decided[o] = "NONE" /\ decided' = [decided EXCEPT ![o] = plan[w].status]
  <2>1. decided[o] = "NONE"
    BY <1>4 DEF decided, NoAnswer
  <2>2. idem'[o] = plan[w] /\ \A x \in OpIds \ {o} : idem'[x] = idem[x]
    BY <1>1, <1>4 DEF TypeOK
  <2>3. decided' = [x \in OpIds |-> idem'[x].status]
    BY DEF decided
  <2>4. decided' = [x \in OpIds |-> IF x = o THEN plan[w].status ELSE decided[x]]
    BY <2>2, <2>3 DEF decided
  <2> QED
    BY <2>1, <2>4 DEF decided
<1>7. NewProject(w) \/ Ledger!Member(o)
  BY <1>1, <1>3, <1>4, <1>5 DEF SoundPlans, IsMember, Ledger!Member, RootOf, Ledger!RootOf
<1>8. CASE plan[w].status = "APPLIED"
  <2>1. /\ ConflictOf(w) = "NONE" /\ plan[w].version = snap[w].version + 1
        /\ snap[w].version = row[e].version /\ (Exists(snap[w]) => snap[w] = row[e])
    BY <1>1, <1>3, <1>4, <1>8, CommitExclusive, PlanShapes
  <2>2. row[e].version \in Nat /\ snap[w].version \in Nat
    BY <1>1 DEF TypeOK, Rows
  <2>3. Ledger!Applies(o)
    BY <1>5, <2>1, <2>2 DEF ConflictOf, Exists, Ledger!Applies
  <2>4. Ledger!Founds(o) <=> NewProject(w)
    BY <1>3, <1>5, <2>1 DEF NewProject, ConflictOf, Ledger!Founds
  <2>5. row' = [row EXCEPT ![e] = [version |-> row[e].version + 1,
                                   deleted |-> content[o].kind = "DELETE"]]
    BY <1>3, <1>4, <1>5, <1>8, <2>1 DEF RowAfter
  <2>6. members' = IF Ledger!Founds(o)
                   THEN members \cup {<<UserOf[content[o].device], e>>} ELSE members
    BY <1>3, <1>4, <1>5, <1>8, <2>4 DEF MembersAfter
  <2>7. history' = history \cup
          {[op |-> o, entity |-> e, version |-> row[e].version + 1,
            tombstone |-> content[o].kind = "DELETE"]}
    <3>1. log' = log \cup {Entry(w)}
      BY <1>4, <1>8 DEF LogAfter
    <3>2. Fact(Entry(w)) = [op |-> o, entity |-> e, version |-> row[e].version + 1,
                            tombstone |-> content[o].kind = "DELETE"]
      BY <1>2, <1>3, <1>5, <2>1 DEF Fact, Entry
    <3> QED
      BY <3>1, <3>2 DEF history, Fact
  <2> QED
    BY <1>4, <1>5, <1>6, <1>7, <1>8, <2>3, <2>4, <2>5, <2>6, <2>7 DEF Ledger!Apply
<1>9. CASE plan[w].status = "CONFLICT"
  <2>1. ConflictOf(w) # "NONE"
    BY <1>1, <1>4, <1>9, PlanShapes
  <2>2. row' = row /\ log' = log /\ members' = members
    BY <1>4, <1>9 DEF RowAfter, LogAfter, MembersAfter
  <2>3. history' = history
    BY <2>2 DEF history, Fact
  <2>4. Ledger!Member(o)
    BY <1>7, <2>1 DEF NewProject, ConflictOf
  <2>5. ~Ledger!Applies(o) \/ Ledger!Overtaken(o)
    <3>1. CASE Exists(snap[w])
      <4>1. snap[w] = row[e]
        BY <1>1, <1>3, <1>4, <3>1 DEF LockedRows, Locks, InTransaction
      <4> QED
        BY <1>5, <2>1, <3>1, <4>1 DEF ConflictOf, Exists, Ledger!Applies
    <3>2. CASE ~Exists(snap[w])
      <4>1. content[o].kind # "CREATE"
        BY <1>5, <2>1, <3>2 DEF ConflictOf
      <4>2. Level[e] = "PROJECT"
        BY <1>1, <1>3, <1>4, <1>5, <3>2, <4>1 DEF SoundPlans
      <4> QED
        BY <1>2, <1>4, <1>5, <3>2, <4>1, <4>2 DEF Ledger!Overtaken, missed, InTransaction
    <3> QED
      BY <3>1, <3>2
  <2> QED
    BY <1>4, <1>6, <1>9, <2>2, <2>3, <2>4, <2>5 DEF Ledger!TurnDown
<1> QED
  BY <1>1, <1>4, <1>8, <1>9, PlanShapes

(* A transaction finds its row missing only where there is none, and what    *)
(* the others have found stays.                                             *)
LEMMA OnlyMissingRowsAreMissed ==
  ASSUME TypeOK, NEW w \in Workers, Step(w)
  PROVE  Ledger!LookUp
<1>1. Alone(w) /\ (Quiet(w) \/ Begin(w) \/ PlanConflict(w) \/ Planned(w) \/ Commit(w))
  BY StepKinds
<1>2. SUFFICES ASSUME NEW o \in OpIds, NEW v \in Workers,
                      InTransaction(v)', Op(v)' = o, ~Exists(snap[v])'
               PROVE  o \in missed \/ row[content[o].entity].version = 0
  BY DEF Ledger!LookUp, missed
<1>3. CASE v # w
  <2>1. Op(v)' = Op(v) /\ pc'[v] = pc[v] /\ snap'[v] = snap[v]
    BY <1>1, <1>3, Bystander DEF Alone
  <2> QED
    BY <1>2, <2>1 DEF missed, InTransaction, Exists
<1>4. CASE v = w
  <2>1. ~Quiet(w)
    BY <1>2, <1>4 DEF Quiet
  <2>2. ~Commit(w)
    BY <1>2, <1>4 DEF Commit, Answer, InTransaction, TypeOK
  <2>3. CASE Begin(w)
    <3>1. Op(w)' = Op(w) /\ snap'[w] = row[Entity(w)] /\ Entity(w) \in Entities
      BY <2>3, SameOperation, OpAtHand DEF Begin, TypeOK
    <3>2. Entity(w) = content[o].entity /\ ~Exists(row[Entity(w)])
      BY <1>2, <1>4, <3>1 DEF Entity, Says, Exists
    <3> QED
      BY <3>1, <3>2 DEF Exists, TypeOK, Rows
  <2>4. CASE PlanConflict(w) \/ Planned(w)
    <3>1. Op(w)' = Op(w) /\ snap' = snap /\ InTransaction(w)
      BY <2>4, SameOperation DEF PlanConflict, Planned, PlanApply, InTransaction, tables
    <3> QED
      BY <1>2, <1>4, <3>1 DEF missed, Exists
  <2> QED
    BY <1>1, <2>1, <2>2, <2>3, <2>4
<1> QED
  BY <1>3, <1>4

(* The server, whatever its requests overlap with and wherever they die,    *)
(* behaves as the ledger: every verdict is one atomic decision.             *)
THEOREM Refinement == Spec => ImplementsLedger
<1>1. Init => Ledger!Init
  <2>1. ASSUME Init PROVE Ledger!Init
    <3>0. missed = {}
      BY <2>1 DEF Init, missed, InTransaction
    <3>1. history = {} /\ decided = [o \in OpIds |-> "NONE"]
      BY <2>1 DEF Init, history, decided, NoAnswer
    <3>2. row = [e \in Entities |-> [version |-> IF e \in Existing THEN 1 ELSE 0,
                                     deleted |-> FALSE]]
      BY <2>1 DEF Init
    <3> QED
      BY <2>1, <3>0, <3>1, <3>2 DEF Init, Ledger!Init
  <2> QED
    BY <2>1
<1>2. ASSUME Consistent, [Next]_vars PROVE [Ledger!Next]_(Ledger!vars)
  <2>0. TypeOK
    BY <1>2 DEF Consistent
  <2>1. ASSUME UNCHANGED <<content, row, members, log, idem>>, Ledger!LookUp
        PROVE  Ledger!Next
    BY <2>1 DEF Ledger!Next, history, decided, Fact
  <2>2. ASSUME UNCHANGED <<content, pc, batch, snap, results>> PROVE Ledger!LookUp
    <3>1. missed' = missed
      BY <2>2 DEF missed, InTransaction, Op, Exists
    <3> QED
      BY <3>1 DEF Ledger!LookUp
  <2>3. ASSUME NEW w \in Workers, Step(w) PROVE Ledger!Next
    <3>1. Ledger!LookUp
      BY <2>0, <2>3, OnlyMissingRowsAreMissed
    <3>2. CASE Commit(w)
      BY <1>2, <3>1, <3>2, CommitImplements DEF Ledger!Next
    <3>3. CASE ~Commit(w)
      BY <2>0, <2>1, <2>3, <3>1, <3>3, OnlyCommitWrites
    <3> QED
      BY <3>2, <3>3
  <2>4. ASSUME NEW d \in Watched, WindowExpires(d) \/ Revoke(d) PROVE Ledger!Next
    BY <2>1, <2>2, <2>4 DEF WindowExpires, Revoke, tables
  <2>5. ASSUME NEW u \in Users, NEW p \in Entities, AddMember(u, p) PROVE Ledger!Next
    <3>1. history' = history /\ decided' = decided
      BY <2>5 DEF AddMember, history, decided, Fact
    <3>2. Ledger!LookUp
      BY <2>2, <2>5 DEF AddMember
    <3> QED
      BY <2>5, <3>1, <3>2 DEF AddMember, Ledger!Enrol, Ledger!Next
  <2>6. CASE UNCHANGED vars
    BY <2>1, <2>2, <2>6 DEF vars, tables
  <2> QED
    BY <1>2, <2>3, <2>4, <2>5, <2>6 DEF Next, Step
<1> QED
  BY <1>1, <1>2, AlwaysConsistent, PTL DEF Spec, ImplementsLedger, Ledger!Spec
=============================================================================
