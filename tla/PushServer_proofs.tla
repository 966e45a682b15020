-------------------------- MODULE PushServer_proofs --------------------------
(***************************************************************************)
(* Proofs about PushServer, for every set of workers, devices, operations  *)
(* and entities: type correctness, the agreement of idempotency_records,   *)
(* change_log and conflicts, and what follows from it.                     *)
(***************************************************************************)
EXTENDS PushServer, TLAPS

(* The operation a worker has at hand is an operation, of a known entity.   *)
LEMMA OpAtHand ==
  ASSUME TypeOK, NEW w \in Workers, Len(results[w]) < Len(batch[w])
  PROVE  /\ Op(w) \in OpIds
         /\ Says(w) \in Contents
         /\ Entity(w) \in Entities
         /\ Says(w).kind \in Kinds
         /\ Says(w).base \in Nat
         /\ Len(batch[w]) > 0
         /\ batch[w][1] \in OpIds
         /\ Client(w) \in Devices
<1>1. /\ batch[w] \in Seq(OpIds)
      /\ results[w] \in Seq(Answers)
      /\ content \in [OpIds -> Contents]
  BY DEF TypeOK
<1>2. /\ Len(results[w]) \in Nat
      /\ Len(batch[w]) \in Nat
      /\ Len(results[w]) + 1 \in 1 .. Len(batch[w])
      /\ 1 \in 1 .. Len(batch[w])
  BY <1>1
<1>3. Op(w) \in OpIds /\ batch[w][1] \in OpIds
  BY <1>1, <1>2 DEF Op
<1>4. Says(w) \in Contents /\ content[batch[w][1]] \in Contents
  BY <1>1, <1>3 DEF Says
<1> QED
  BY <1>2, <1>3, <1>4, ContentsAssumption DEF Entity, Client

LEMMA AnswerTypes ==
  /\ NoAnswer \in Answers
  /\ Missing \in Rows
  /\ \A st \in {"REJECTED", "UNAUTHORIZED", "DEVICE_REVOKED", "REQUIRES_REVALIDATION"} :
       Plain(st) \in Answers
  /\ \A v, n \in Nat : Applied(v, n) \in Answers
  /\ \A t \in {"EDIT_EDIT", "EDIT_DELETE"}, v \in Nat : Conflict(t, v) \in Answers
BY DEF NoAnswer, Missing, Plain, Applied, Conflict, Answers, ConflictTypes, Rows

(* Answering the operation at hand keeps the types of the worker's state.   *)
LEMMA AnswerKeepsTypes ==
  ASSUME TypeOK, NEW w \in Workers, NEW a \in Answers,
         Len(results[w]) < Len(batch[w]), Answer(w, a), batch' = batch
  PROVE  /\ results' \in [Workers -> Seq(Answers)]
         /\ snap' \in [Workers -> Rows]
         /\ plan' \in [Workers -> Answers]
         /\ pc' \in [Workers -> {"idle", "gate", "lookup", "begin", "decide", "commit",
                                 "reread", "reply"}]
         /\ \A v \in Workers :
              /\ pc'[v] = "idle" => results'[v] = <<>>
              /\ pc'[v] = "reply" => Len(results'[v]) = Len(batch'[v])
              /\ pc'[v] \notin {"idle", "reply"} => Len(results'[v]) < Len(batch'[v])
<1>1. /\ results[w] \in Seq(Answers) /\ batch[w] \in Seq(OpIds)
      /\ results \in [Workers -> Seq(Answers)]
      /\ Append(results[w], a) \in Seq(Answers)
      /\ Len(Append(results[w], a)) = Len(results[w]) + 1
  BY DEF TypeOK
<1>2. Len(results[w]) \in Nat /\ Len(batch[w]) \in Nat
  BY <1>1
<1>3. /\ results' = [results EXCEPT ![w] = Append(results[w], a)]
      /\ pc' = [pc EXCEPT ![w] =
                 IF Len(results[w]) + 1 = Len(batch[w]) THEN "reply" ELSE "lookup"]
      /\ snap' = [snap EXCEPT ![w] = Missing]
      /\ plan' = [plan EXCEPT ![w] = NoAnswer]
  BY DEF Answer
<1>4. \A v \in Workers : v # w => pc'[v] = pc[v] /\ results'[v] = results[v]
  BY <1>3 DEF TypeOK
<1>5. /\ pc'[w] = "reply" => Len(results'[w]) = Len(batch'[w])
      /\ pc'[w] # "reply" => Len(results'[w]) < Len(batch'[w])
      /\ pc'[w] # "idle"
  <2>1. /\ pc'[w] = "reply" => Len(results[w]) + 1 = Len(batch[w])
        /\ pc'[w] # "reply" => Len(results[w]) + 1 # Len(batch[w])
        /\ pc'[w] # "idle"
    BY <1>3 DEF TypeOK
  <2>2. Len(results'[w]) = Len(results[w]) + 1
    BY <1>1, <1>3 DEF TypeOK
  <2> QED
    BY <1>2, <2>1, <2>2
<1>6. \A v \in Workers :
        /\ pc'[v] = "idle" => results'[v] = <<>>
        /\ pc'[v] = "reply" => Len(results'[v]) = Len(batch'[v])
        /\ pc'[v] \notin {"idle", "reply"} => Len(results'[v]) < Len(batch'[v])
  BY <1>4, <1>5 DEF TypeOK
<1> QED
  BY <1>1, <1>3, <1>6, AnswerTypes DEF TypeOK

LEMMA TypeOKInit == Init => TypeOK
<1> SUFFICES ASSUME Init PROVE TypeOK
  OBVIOUS
<1>1. /\ Missing \in Rows
      /\ NoAnswer \in Answers
  BY DEF Missing, Rows, NoAnswer, Answers, ConflictTypes
<1>2. row \in [Entities -> Rows]
  BY DEF Init, Rows
<1>3. /\ <<>> \in Seq(OpIds) /\ <<>> \in Seq(Answers)
  OBVIOUS
<1> QED
  BY <1>1, <1>2, <1>3, TreeAssumption DEF Init, TypeOK, Changes

LEMMA TypeOKNext == TypeOK /\ [Next]_vars => TypeOK'
<1> SUFFICES ASSUME TypeOK, [Next]_vars PROVE TypeOK'
  OBVIOUS
<1> USE DEF tables
<1>1. ASSUME NEW w \in Workers, Receive(w) PROVE TypeOK'
  <2>1. PICK b \in Batches : batch' = [batch EXCEPT ![w] = b]
    BY <1>1 DEF Receive
  <2>2. b \in Seq(OpIds) /\ Len(b) \in Nat \ {0}
    BY <2>1, TreeAssumption DEF Batches
  <2>3. /\ results[w] = <<>> => Len(results[w]) < Len(b)
    BY <2>2
  <2> QED
    BY <1>1, <2>1, <2>2, <2>3 DEF Receive, TypeOK
<1>2. ASSUME NEW w \in Workers, Gate(w) PROVE TypeOK'
  <2>1. CASE device[Client(w)] = "active"
    BY <1>2, <2>1 DEF Gate, TypeOK
  <2>2. CASE device[Client(w)] # "active"
    <3> DEFINE rs == [i \in DOMAIN batch[w] |-> Plain(Refusal(Client(w)))]
    <3>1. batch[w] \in Seq(OpIds)
      BY DEF TypeOK
    <3>2. Plain(Refusal(Client(w))) \in Answers
      BY AnswerTypes DEF Refusal
    <3>3. rs \in Seq(Answers) /\ Len(rs) = Len(batch[w])
      <4>1. DOMAIN batch[w] = 1 .. Len(batch[w]) /\ Len(batch[w]) \in Nat
        BY <3>1
      <4> HIDE DEF Plain, Refusal
      <4> QED
        BY <3>2, <4>1
    <3>4. results' = [results EXCEPT ![w] = rs] /\ pc' = [pc EXCEPT ![w] = "reply"]
      BY <1>2, <2>2 DEF Gate
    <3> HIDE DEF rs
    <3> QED
      BY <1>2, <3>3, <3>4 DEF Gate, TypeOK
  <2> QED
    BY <2>1, <2>2
<1>3. ASSUME NEW w \in Workers, Lookup(w) PROVE TypeOK'
  <2>1. Len(results[w]) < Len(batch[w]) /\ Op(w) \in OpIds
    BY <1>3, OpAtHand DEF Lookup, TypeOK
  <2>2. CASE idem[Op(w)] # NoAnswer
    <3>1. Answer(w, idem[Op(w)]) /\ batch' = batch /\ idem[Op(w)] \in Answers
      BY <1>3, <2>1, <2>2 DEF Lookup, TypeOK
    <3> QED
      BY <1>3, <2>1, <3>1, AnswerKeepsTypes DEF Lookup, TypeOK
  <2>3. CASE idem[Op(w)] = NoAnswer
    BY <1>3, <2>3 DEF Lookup, TypeOK
  <2> QED
    BY <2>2, <2>3
<1>4. ASSUME NEW w \in Workers, Begin(w) PROVE TypeOK'
  <2>1. Entity(w) \in Entities
    BY <1>4, OpAtHand DEF Begin, TypeOK
  <2> QED
    BY <1>4, <2>1 DEF Begin, TypeOK
<1>5. ASSUME NEW w \in Workers, Refuse(w) PROVE TypeOK'
  <2>1. Len(results[w]) < Len(batch[w])
    BY <1>5 DEF Refuse, TypeOK
  <2> QED
    BY <1>5, <2>1, AnswerTypes, AnswerKeepsTypes DEF Refuse, TypeOK
<1>6. ASSUME NEW w \in Workers, PlanConflict(w) PROVE TypeOK'
  <2>1. ConflictOf(w) \in {"EDIT_EDIT", "EDIT_DELETE"} /\ snap[w].version \in Nat
    BY <1>6 DEF PlanConflict, ConflictOf, TypeOK, Rows
  <2>2. Conflict(ConflictOf(w), snap[w].version) \in Answers
    BY <2>1, AnswerTypes
  <2> QED
    BY <1>6, <2>2 DEF PlanConflict, TypeOK
<1>7. ASSUME NEW w \in Workers, PlanApply(w) PROVE TypeOK'
  <2>1. snap[w].version + 1 \in Nat /\ nextSeq \in Nat
    BY DEF TypeOK, Rows
  <2>2. Applied(snap[w].version + 1, nextSeq) \in Answers
    BY <2>1, AnswerTypes
  <2>3. CASE ~Exists(snap[w]) /\ Exists(row[Entity(w)])
    BY <1>7, <2>3 DEF PlanApply, TypeOK
  <2>4. CASE ~(~Exists(snap[w]) /\ Exists(row[Entity(w)]))
    <3>1. /\ plan' = [plan EXCEPT ![w] = Applied(snap[w].version + 1, nextSeq)]
          /\ nextSeq' = nextSeq + 1
          /\ pc' = [pc EXCEPT ![w] = "commit"]
      BY <1>7, <2>4 DEF PlanApply
    <3> QED
      BY <1>7, <2>2, <3>1 DEF PlanApply, TypeOK
  <2> QED
    BY <2>3, <2>4
<1>8. ASSUME NEW w \in Workers, Commit(w) PROVE TypeOK'
  <2>1. Len(results[w]) < Len(batch[w])
    BY <1>8 DEF Commit, TypeOK
  <2>2. /\ plan[w] \in Answers /\ plan[w].version \in Nat /\ plan[w].sequence \in Nat
    BY DEF TypeOK, Answers
  <2>3. Op(w) \in OpIds /\ Entity(w) \in Entities /\ Client(w) \in Devices
    BY <2>1, OpAtHand
  <2>4. row' \in [Entities -> Rows]
    BY <1>8, <2>2 DEF Commit, RowAfter, TypeOK, Rows
  <2>5. log' \subseteq Changes
    <3>1. (Says(w).kind = "DELETE") \in BOOLEAN
      OBVIOUS
    <3> DEFINE tomb == Says(w).kind = "DELETE"
    <3> HIDE DEF tomb
    <3>2. [sequence |-> plan[w].sequence, entity |-> Entity(w), op |-> Op(w),
           version |-> plan[w].version, tombstone |-> tomb] \in Changes
      BY <2>2, <2>3, <3>1 DEF Changes, tomb
    <3>3. Entry(w) \in Changes
      BY <3>2 DEF Entry, tomb
    <3> QED
      BY <1>8, <3>3 DEF Commit, LogAfter, TypeOK
  <2>6. members' \subseteq Users \X Entities
    BY <1>8, <2>3, TreeAssumption DEF Commit, MembersAfter, TypeOK
  <2>7. conflicts' \subseteq [op : OpIds, type : ConflictTypes, version : Nat]
    <3>1. ConflictRecord(w) \in [op : OpIds, type : ConflictTypes, version : Nat]
      BY <2>2, <2>3 DEF ConflictRecord, TypeOK, Answers
    <3> QED
      BY <1>8, <3>1 DEF Commit, ConflictsAfter, TypeOK
  <2>8. idem' \in [OpIds -> Answers]
    BY <1>8, <2>2 DEF Commit, TypeOK
  <2>9. Answer(w, plan[w]) /\ batch' = batch
    BY <1>8 DEF Commit
  <2> QED
    BY <1>8, <2>1, <2>2, <2>4, <2>5, <2>6, <2>7, <2>8, <2>9, AnswerKeepsTypes
       DEF Commit, TypeOK
<1>9. ASSUME NEW w \in Workers, LoseRace(w) PROVE TypeOK'
  BY <1>9, AnswerTypes DEF LoseRace, TypeOK
<1>10. ASSUME NEW w \in Workers, Reread(w) PROVE TypeOK'
  <2>1. Len(results[w]) < Len(batch[w]) /\ Op(w) \in OpIds
    BY <1>10, OpAtHand DEF Reread, TypeOK
  <2>2. (IF KeyTaken(w) THEN idem[Op(w)] ELSE Plain("REJECTED")) \in Answers
    BY <2>1, AnswerTypes DEF TypeOK
  <2> QED
    BY <1>10, <2>1, <2>2, AnswerKeepsTypes DEF Reread, TypeOK
<1>11. ASSUME NEW w \in Workers, Fail(w) PROVE TypeOK'
  <2>1. Len(results[w]) < Len(batch[w])
    BY <1>11 DEF Fail, InTransaction, TypeOK
  <2> QED
    BY <1>11, <2>1, AnswerTypes, AnswerKeepsTypes DEF Fail, TypeOK
<1>12. ASSUME NEW w \in Workers, Reply(w) PROVE TypeOK'
  <2>1. device' \in [Devices -> {"active", "expired", "revoked"}]
    BY <1>12 DEF Reply, TypeOK
  <2>2. <<>> \in Seq(OpIds) /\ <<>> \in Seq(Answers)
    OBVIOUS
  <2> QED
    BY <1>12, <2>1, <2>2 DEF Reply, TypeOK
<1>13. ASSUME NEW w \in Workers, Drop(w) PROVE TypeOK'
  <2>1. <<>> \in Seq(OpIds) /\ <<>> \in Seq(Answers)
    OBVIOUS
  <2> QED
    BY <1>13, <2>1, AnswerTypes DEF Drop, TypeOK
<1>14. ASSUME NEW d \in Watched, WindowExpires(d) \/ Revoke(d) PROVE TypeOK'
  BY <1>14 DEF WindowExpires, Revoke, TypeOK
<1>15. ASSUME NEW u \in Users, NEW p \in Entities, AddMember(u, p) PROVE TypeOK'
  BY <1>15 DEF AddMember, TypeOK
<1>16. CASE UNCHANGED vars
  BY <1>16 DEF vars, TypeOK
<1> QED
  BY <1>1, <1>2, <1>3, <1>4, <1>5, <1>6, <1>7, <1>8, <1>9, <1>10, <1>11, <1>12, <1>13,
     <1>14, <1>15, <1>16 DEF Next, Serve

(* Every reachable state is well typed, and a request past the gate has an  *)
(* operation at hand.                                                       *)
THEOREM TypeCorrect == Spec => []TypeOK
BY TypeOKInit, TypeOKNext, PTL DEF Spec
=============================================================================
