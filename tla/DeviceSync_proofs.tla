-------------------------- MODULE DeviceSync_proofs --------------------------
(***************************************************************************)
(* The theorems of DeviceSync that hold for any number of tabs: its types,   *)
(* what the queue says of the decisions of the server, the requests that     *)
(* leave, and the convergence of the records.  What needs one batch at a     *)
(* time is in DeviceSyncSafety_proofs.                                      *)
(***************************************************************************)
EXTENDS DeviceSync, FiniteSetTheorems, SequenceTheorems, WellFoundedInduction, TLAPS

-----------------------------------------------------------------------------
(* The inductive invariant.                                                *)

Entries == [entity : Entities, edit : Edits, tombstone : BOOLEAN]
Operations == [entity : Entities, kind : {"CREATE", "UPDATE", "DELETE"}, base : Nat,
               edit : 1 .. MaxOps, status : Statuses, delayed : BOOLEAN]
Records == [version : Nat, deleted : BOOLEAN, edits : SUBSET Edits]
ConflictRecords == [status : {"NONE", "PENDING", "RESOLVED"}, version : Nat, edits : SUBSET Edits]
Places == {"idle", "collected", "sent", "served", "answered"}

Typed ==
  /\ feed \in Seq(Entries)
  /\ decided \in [1 .. MaxOps -> Answers]
  /\ window \in {"active", "expired", "revoked"}
  /\ orphans \subseteq Seq(1 .. MaxOps)
  /\ records \in [Entities -> Records]
  /\ ops \in Seq(Operations) /\ Len(ops) <= MaxOps
  /\ conflicts \in [1 .. MaxOps -> ConflictRecords]
  /\ cursor \in 0 .. Len(feed)
  /\ pc \in [Loops -> Places]
  /\ batch \in [Loops -> Seq(1 .. MaxOps)]
  /\ answers \in [Loops -> Seq(Answers)]
  /\ faults \in Seq(SUBSET (1 .. MaxOps))

(* The changes of this device in the feed are no more than the operations    *)
(* that were applied.                                                       *)
Own == {i \in DOMAIN feed : feed[i].edit <= MaxOps}
Applied == {i \in DOMAIN decided : decided[i].status = "APPLIED"}
Counted == Cardinality(Own) <= Cardinality(Applied)

(* A loop has a batch while it is not idle, and answers to a first part.      *)
Request(l) ==
  /\ pc[l] = "idle" <=> batch[l] = <<>>
  /\ pc[l] \in {"idle", "collected", "sent"} => answers[l] = <<>>
  /\ pc[l] = "served" => Len(answers[l]) < Len(batch[l])
  /\ pc[l] = "answered" => Len(answers[l]) = Len(batch[l])
  /\ Len(batch[l]) <= BatchSize
  /\ InBatch(l) \subseteq DOMAIN ops

Requests ==
  /\ \A l \in Loops : Request(l)
  /\ \A s \in orphans : s # <<>> /\ \A n \in DOMAIN s : s[n] \in DOMAIN ops

(* What is decided of an operation, and what its conflict record says of it.  *)
Decision(i) ==
  /\ decided[i].status \in {"NONE", "APPLIED", "CONFLICT"}
  /\ decided[i].status # "CONFLICT" => decided[i] = Plain(decided[i].status)
  /\ decided[i].status = "CONFLICT" =>
       decided[i].type \in {"EDIT_EDIT", "EDIT_DELETE"} /\ decided[i].version >= 1
  /\ i \notin DOMAIN ops => decided[i] = NoAnswer /\ conflicts[i].status = "NONE"
  /\ conflicts[i].status # "NONE" =>
       /\ decided[i].status = "CONFLICT"
       /\ conflicts[i].version = decided[i].version /\ conflicts[i].edits = decided[i].edits
  /\ conflicts[i].status = "PENDING" => decided[i].type = "EDIT_EDIT"

Final == {"APPLIED", "CONFLICT", "REJECTED", "UNAUTHORIZED", "DEVICE_REVOKED",
          "REQUIRES_REVALIDATION"}

(* What a loop was told is what was decided, also when it was told twice.     *)
Answered(l) ==
  \A n \in DOMAIN answers[l] :
    /\ answers[l][n].status \in Final
    /\ answers[l][n].status \in {"APPLIED", "CONFLICT"} => decided[batch[l][n]] = answers[l][n]

Decisions ==
  /\ \A i \in 1 .. MaxOps : Decision(i)
  /\ \A l \in Loops : Answered(l)
  /\ QueueMatchesServer

(* An entity is created once, here, before anything else is done to it; so a  *)
(* CREATE is never turned down and KEEP_MINE never puts it on a version.      *)
Creates(i) == ops[i].kind = "CREATE"

Creation(i) ==
  /\ ops[i].base = 0 <=> Creates(i)
  /\ Creates(i) =>
       /\ ops[i].entity \notin Existing /\ Exists(records[ops[i].entity])
       /\ decided[i] = NoAnswer => Changes(ops[i].entity) = {}
       /\ decided[i].status # "CONFLICT"
       /\ \A j \in DOMAIN ops : Creates(j) /\ ops[j].entity = ops[i].entity => j = i

Creations == \A i \in DOMAIN ops : Creation(i)

Sound == Typed /\ Counted /\ Requests /\ Decisions /\ Creations

-----------------------------------------------------------------------------
(* Convergence.  An operation that waits has a base the server has not        *)
(* passed, and those that wait fill the gap between the server and the        *)
(* record; or the record is spoiled: some operation of it is turned down or   *)
(* bound to be, and will never be SYNCED.                                    *)

Of(e) == {i \in DOMAIN ops : ops[i].entity = e}
Waits(i) == decided[i].status # "APPLIED"

Spoiled(e) ==
  \E i \in Of(e) :
    \/ decided[i].status = "CONFLICT"
    \/ decided[i] = NoAnswer /\ ops[i].base < Row(e).version

Current(e) ==
  /\ FirstVersion(e) <= records[e].version
  /\ \A i \in Of(e) : ops[i].base < records[e].version /\ ops[i].edit \in records[e].edits
  /\ \A i \in Of(e) : Waits(i) => ops[i].base >= Row(e).version
  /\ \A v \in Nat : Row(e).version <= v /\ v < records[e].version =>
       \E i \in Of(e) : Waits(i) /\ ops[i].base = v
  /\ \A n \in Changes(e) : n <= cursor => VersionAt(n) <= records[e].version
  /\ \A n \in Changes(e) : VersionAt(n) <= records[e].version => feed[n].edit \in records[e].edits
  /\ \A x \in records[e].edits :
       \/ \E n \in Changes(e) : feed[n].edit = x
       \/ \E i \in Of(e) : Waits(i) /\ ops[i].edit = x
  /\ records[e].deleted <=>
       \/ \E n \in Changes(e) : feed[n].tombstone /\ VersionAt(n) <= records[e].version
       \/ \E i \in Of(e) : Waits(i) /\ ops[i].kind = "DELETE"

(* A record that is deleted is not changed any more.                         *)
TombstonesLast ==
  \A m, n \in DOMAIN feed : feed[m].tombstone /\ feed[n].entity = feed[m].entity => n <= m

Converging == TombstonesLast /\ \A e \in Entities : Spoiled(e) \/ Current(e)

-----------------------------------------------------------------------------
(* Lemmas about the data.                                                   *)

(* A set of numbers up to n that is not empty has a maximum.                 *)
LEMMA MaxBelow ==
  ASSUME NEW n \in Nat, NEW S \in SUBSET (1 .. n), S # {}
  PROVE  Max(S) \in S /\ \A x \in S : x <= Max(S)
<1> DEFINE bounds == {k \in Nat : \A x \in S : x <= k}
<1>1. bounds \subseteq Nat /\ n \in bounds
  OBVIOUS
<1>2. PICK m \in bounds : \A k \in bounds : ~(<<k, m>> \in OpToRel(<, Nat))
  BY <1>1, NatLessThanWellFounded, WFMin
<1>3. \A k \in bounds : ~(k < m)
  BY <1>1, <1>2 DEF OpToRel
<1>4. m \in S
  <2> SUFFICES ASSUME m \notin S PROVE FALSE
    OBVIOUS
  <2>1. PICK y \in S : TRUE
    OBVIOUS
  <2>2. m \in Nat /\ m >= 1 /\ \A x \in S : x \in Nat /\ x <= m /\ x # m
    BY <2>1
  <2>3. m - 1 \in bounds /\ m - 1 < m
    BY <2>2
  <2> QED
    BY <1>3, <2>3
<1>5. \A x \in S : x \in Nat /\ m \in Nat /\ m >= x
  BY <1>4
<1>6. \E x \in S : \A y \in S : x >= y
  BY <1>4, <1>5
<1>7. Max(S) \in S /\ \A y \in S : Max(S) >= y
  BY <1>6 DEF Max
<1> QED
  BY <1>7

(* Sets of positions in a sequence are finite.                               *)
LEMMA Positions ==
  ASSUME NEW n \in Nat, NEW S \in SUBSET (1 .. n)
  PROVE  IsFiniteSet(S) /\ Cardinality(S) \in Nat /\ Cardinality(S) <= n
<1>1. IsFiniteSet(1 .. n) /\ Cardinality(1 .. n) = n
  BY FS_Interval
<1>2. IsFiniteSet(S) /\ Cardinality(S) <= n
  BY <1>1, FS_Subset
<1> QED
  BY <1>2, FS_CardinalityType

LEMMA Extended ==
  ASSUME NEW S, NEW s \in Seq(S), NEW x \in S
  PROVE  /\ Append(s, x) \in Seq(S)
         /\ Len(s) \in Nat /\ DOMAIN s = 1 .. Len(s)
         /\ Len(Append(s, x)) = Len(s) + 1
         /\ DOMAIN Append(s, x) = DOMAIN s \cup {Len(s) + 1}
         /\ Len(s) + 1 \notin DOMAIN s
         /\ \A n \in DOMAIN s : Append(s, x)[n] = s[n]
         /\ Append(s, x)[Len(s) + 1] = x
  OBVIOUS

LEMMA SequenceData ==
  ASSUME NEW S, NEW s \in Seq(S)
  PROVE  Len(s) \in Nat /\ DOMAIN s = 1 .. Len(s) /\ \A n \in DOMAIN s : s[n] \in S
  OBVIOUS

LEMMA Suffix ==
  ASSUME NEW S, NEW s \in Seq(S), NEW k \in Nat, k < Len(s), NEW r, r = SubSeq(s, k + 1, Len(s))
  PROVE  /\ r \in Seq(S) /\ Len(r) = Len(s) - k /\ DOMAIN r = 1 .. Len(s) - k
         /\ r # <<>> /\ Head(r) = s[k + 1]
         /\ \A n \in 1 .. Len(s) - k : r[n] = s[k + n]
<1>1. Len(s) \in Nat /\ \A i \in k + 1 .. Len(s) : s[i] \in S
  OBVIOUS
<1>2. k + 1 \in Int /\ Len(s) \in Int
  BY <1>1
<1>3. /\ SubSeq(s, k + 1, Len(s)) \in Seq(S)
      /\ Len(SubSeq(s, k + 1, Len(s))) = IF k + 1 <= Len(s) THEN Len(s) - (k + 1) + 1 ELSE 0
      /\ \A i \in 1 .. Len(s) - (k + 1) + 1 : SubSeq(s, k + 1, Len(s))[i] = s[k + 1 + i - 1]
  BY <1>1, <1>2, SubSeqProperties
<1>4. /\ r \in Seq(S) /\ Len(r) = Len(s) - k
      /\ \A n \in 1 .. Len(s) - k : r[n] = s[k + n]
  <2>1. k + 1 <= Len(s) /\ Len(s) - (k + 1) + 1 = Len(s) - k
        /\ \A i \in Nat : k + 1 + i - 1 = k + i
    BY <1>1
  <2> QED
    BY <1>3, <2>1
<1>5. DOMAIN r = 1 .. Len(s) - k /\ 1 \in 1 .. Len(s) - k
  BY <1>1, <1>4
<1>6. r # <<>>
  <2>1. Len(r) # 0
    BY <1>1, <1>4
  <2> QED
    BY <2>1
<1>7. Head(r) = r[1] /\ r[1] = s[k + 1]
  <2>1. Head(r) = r[1]
    BY <1>4, <1>6
  <2> QED
    BY <1>1, <1>4, <1>5, <2>1
<1> QED
  BY <1>4, <1>5, <1>6, <1>7

LEMMA FunctionIsSequence ==
  ASSUME NEW S, NEW n \in Nat, NEW f \in [1 .. n -> S]
  PROVE  f \in Seq(S) /\ Len(f) = n
  OBVIOUS

(* The batch is made of eligible operations, in order, and no longer than     *)
(* BatchSize.                                                               *)
LEMMA BatchFits ==
  ASSUME ops \in Seq(Operations), Len(ops) <= MaxOps, NEW seq \in NextBatch
  PROVE  /\ seq \in Seq(1 .. MaxOps) /\ Len(seq) <= BatchSize
         /\ \A n \in DOMAIN seq : seq[n] \in Eligible /\ seq[n] \in DOMAIN ops
<1> DEFINE first == {i \in Eligible : Cardinality({j \in Eligible : j <= i}) <= BatchSize}
           allowed == {i \in first : ~Locked(ops[i].entity)}
           size == Cardinality(allowed)
<1>1. MaxOps \in Nat /\ BatchSize \in Nat
  BY DeviceAssumption
<1>2. DOMAIN ops = 1 .. Len(ops) /\ Len(ops) \in Nat
  OBVIOUS
<1>3. NextBatch = {s \in [1 .. size -> allowed] :
                    \A m, n \in DOMAIN s : m < n => s[m] < s[n]}
  BY Zenon DEF NextBatch
<1>4. /\ Eligible \subseteq 1 .. Len(ops) /\ first \subseteq Eligible /\ allowed \subseteq first
  BY <1>2, Zenon DEF Eligible
<1>5. \A x \in first : Cardinality({j \in Eligible : j <= x}) <= BatchSize
  OBVIOUS
<1> HIDE DEF first, allowed, size
<1>6. seq \in [1 .. size -> allowed]
  BY <1>3
<1>7. first \in SUBSET (1 .. Len(ops)) /\ allowed \in SUBSET (1 .. Len(ops))
  BY <1>4
<1>8. IsFiniteSet(allowed) /\ size \in Nat
  BY <1>2, <1>7, Positions DEF size
<1>9. size <= BatchSize
  <2>1. CASE first = {}
    <3>1. allowed = {}
      BY <1>4, <2>1
    <3>2. size = 0
      BY <3>1, FS_EmptySet DEF size
    <3> QED
      BY <1>1, <3>2
  <2>2. CASE first # {}
    <3>1. PICK x \in first : \A i \in first : i <= x
      BY <1>2, <1>7, <2>2, MaxBelow
    <3> DEFINE upTo == {j \in Eligible : j <= x}
    <3>2. Cardinality(upTo) <= BatchSize
      BY <1>5
    <3>3. upTo \in SUBSET (1 .. Len(ops)) /\ allowed \in SUBSET upTo
      BY <1>4, <3>1
    <3> HIDE DEF upTo
    <3>4. IsFiniteSet(upTo) /\ Cardinality(upTo) \in Nat
      BY <1>2, <3>3, Positions
    <3>5. Cardinality(allowed) <= Cardinality(upTo)
      BY <3>3, <3>4, FS_Subset
    <3> QED
      BY <1>1, <1>8, <3>2, <3>4, <3>5 DEF size
  <2> QED
    BY <2>1, <2>2
<1>10. DOMAIN seq = 1 .. size /\ \A n \in 1 .. size : seq[n] \in allowed
  BY <1>6
<1>11. allowed \subseteq 1 .. MaxOps /\ allowed \subseteq Eligible /\ allowed \subseteq DOMAIN ops
  BY <1>1, <1>2, <1>4, <1>7
<1>12. seq \in [1 .. size -> 1 .. MaxOps]
  BY <1>6, <1>11
<1>13. seq \in Seq(1 .. MaxOps) /\ Len(seq) = size
  BY <1>8, <1>12, FunctionIsSequence
<1> QED
  BY <1>9, <1>10, <1>11, <1>13

LEMMA PlainAnswers ==
  /\ NoAnswer \in Answers
  /\ NoAnswer.status = "NONE" /\ NoAnswer.type = "NONE"
  /\ \A s \in Statuses \cup {"NONE", "APPLIED", "UNAUTHORIZED"} :
       Plain(s) \in Answers /\ Plain(s).status = s /\ Plain(s).type = "NONE"
       /\ Plain(s).version = 0
  /\ Plain("NONE") = NoAnswer
<1>1. NoAnswer \in Answers
  BY DEF NoAnswer, Answers
<1> QED
  BY <1>1 DEF NoAnswer, Plain, Answers

-----------------------------------------------------------------------------
(* Lemmas about the feed.                                                   *)

LEMMA EditsTyped ==
  /\ MaxOps \in Nat /\ MaxPeerEdits \in Nat
  /\ 1 .. MaxOps \subseteq Edits
  /\ \A k \in 0 .. MaxOps + MaxPeerEdits - 1 : MaxOps + k + 1 \in Edits /\ MaxOps + k + 1 > MaxOps
  BY DeviceAssumption DEF Edits

LEMMA FirstVersions ==
  \A e : FirstVersion(e) \in {0, 1} /\ (FirstVersion(e) = 1 <=> e \in Existing)
  BY DEF FirstVersion

(* Rows are records, and the versions of the changes of an entity go up to    *)
(* that of its row.                                                         *)
LEMMA ChangesCounted ==
  ASSUME feed \in Seq(Entries), NEW e \in Entities
  PROVE  /\ Changes(e) \in SUBSET (1 .. Len(feed)) /\ Len(feed) \in Nat
         /\ DOMAIN feed = 1 .. Len(feed)
         /\ IsFiniteSet(Changes(e)) /\ Cardinality(Changes(e)) \in Nat
         /\ \A n \in DOMAIN feed : feed[n] \in Entries
<1>1. /\ DOMAIN feed = 1 .. Len(feed) /\ Len(feed) \in Nat
      /\ \A n \in DOMAIN feed : feed[n] \in Entries
  OBVIOUS
<1>2. Changes(e) \in SUBSET (1 .. Len(feed))
  BY <1>1, Zenon DEF Changes
<1>3. IsFiniteSet(Changes(e)) /\ Cardinality(Changes(e)) \in Nat
  BY <1>1, <1>2, Positions
<1> QED
  BY <1>1, <1>2, <1>3

LEMMA RowTyped ==
  ASSUME feed \in Seq(Entries), NEW e \in Entities
  PROVE  /\ Row(e) \in Records
         /\ Row(e).version = FirstVersion(e) + Cardinality(Changes(e))
         /\ Row(e).version \in Nat /\ Row(e).version >= FirstVersion(e)
         /\ FirstVersion(e) \in Nat
         /\ Row(e).deleted <=> \E i \in Changes(e) : feed[i].tombstone
         /\ Row(e).deleted \in BOOLEAN
         /\ Row(e).edits = {feed[i].edit : i \in Changes(e)}
         /\ Row(e).edits \in SUBSET Edits
<1> DEFINE gone == \E i \in Changes(e) : feed[i].tombstone
           known == {feed[i].edit : i \in Changes(e)}
           v == FirstVersion(e) + Cardinality(Changes(e))
<1>1. Row(e) = [version |-> v, deleted |-> gone, edits |-> known]
  BY Zenon DEF Row
<1>2. FirstVersion(e) \in Nat /\ v \in Nat /\ v >= FirstVersion(e)
  BY ChangesCounted, FirstVersions
<1>3. gone \in BOOLEAN
  OBVIOUS
<1>4. known \in SUBSET Edits
  BY ChangesCounted DEF Entries
<1>5. v = FirstVersion(e) + Cardinality(Changes(e)) /\ gone = (\E i \in Changes(e) : feed[i].tombstone)
      /\ known = {feed[i].edit : i \in Changes(e)}
  OBVIOUS
<1> HIDE DEF gone, known, v
<1>6. Row(e).version = v /\ Row(e).deleted = gone /\ Row(e).edits = known
  BY <1>1
<1>7. Row(e) \in Records
  BY <1>1, <1>2, <1>3, <1>4 DEF Records
<1> QED
  BY <1>2, <1>3, <1>4, <1>5, <1>6, <1>7

LEMMA UnknownRow ==
  ASSUME feed \in Seq(Entries), NEW e \in Entities, Changes(e) = {}, e \notin Existing
  PROVE  Row(e).version = 0
<1>1. Row(e).version = FirstVersion(e) + Cardinality(Changes(e))
  BY RowTyped
<1>2. Cardinality(Changes(e)) = 0
  BY FS_EmptySet
<1>3. FirstVersion(e) = 0
  BY FirstVersions
<1> QED
  BY <1>1, <1>2, <1>3

LEMMA VersionsRise ==
  ASSUME feed \in Seq(Entries), NEW e \in Entities, NEW n \in Changes(e)
  PROVE  /\ VersionAt(n) \in Nat
         /\ FirstVersion(e) < VersionAt(n) /\ VersionAt(n) <= Row(e).version
         /\ \A m \in Changes(e) : n < m => VersionAt(n) < VersionAt(m)
<1>1. /\ Changes(e) \in SUBSET (1 .. Len(feed)) /\ Len(feed) \in Nat
      /\ IsFiniteSet(Changes(e)) /\ Cardinality(Changes(e)) \in Nat
  BY ChangesCounted
<1>2. \A m \in Changes(e) : feed[m].entity = e
  BY DEF Changes
<1>3. ASSUME NEW m \in Changes(e)
      PROVE  /\ Older(m) = {j \in Changes(e) : j <= m}
             /\ VersionAt(m) = FirstVersion(e) + Cardinality(Older(m))
  BY <1>2 DEF Older, VersionAt
<1>4. ASSUME NEW m \in Changes(e)
      PROVE  /\ m \in Older(m) /\ Older(m) \in SUBSET Changes(e)
             /\ \A k \in Changes(e) : m < k => Older(m) \in SUBSET Older(k) /\ k \notin Older(m)
  BY <1>1, <1>3
<1>5. ASSUME NEW m \in Changes(e)
      PROVE  IsFiniteSet(Older(m)) /\ Cardinality(Older(m)) \in Nat
             /\ Cardinality(Older(m)) <= Cardinality(Changes(e))
  <2>1. Older(m) \in SUBSET Changes(e)
    BY <1>4
  <2> QED
    BY <1>1, <2>1, FS_Subset, FS_CardinalityType
<1>6. Cardinality(Older(n)) # 0
  BY <1>4, <1>5, FS_EmptySet
<1>7. ASSUME NEW m \in Changes(e), n < m
      PROVE  Cardinality(Older(n)) < Cardinality(Older(m))
  <2>1. Older(n) \in SUBSET Older(m) /\ Older(n) # Older(m)
    BY <1>4, <1>7
  <2>2. /\ Cardinality(Older(n)) <= Cardinality(Older(m))
        /\ Cardinality(Older(n)) # Cardinality(Older(m))
    BY <1>5, <2>1, FS_Subset
  <2> QED
    BY <1>5, <2>2
<1>8. FirstVersion(e) \in Nat /\ Row(e).version = FirstVersion(e) + Cardinality(Changes(e))
  BY RowTyped
<1>9. VersionAt(n) = FirstVersion(e) + Cardinality(Older(n))
  BY <1>3
<1>10. /\ VersionAt(n) \in Nat
       /\ FirstVersion(e) < VersionAt(n) /\ VersionAt(n) <= Row(e).version
  BY <1>1, <1>5, <1>6, <1>8, <1>9
<1>11. ASSUME NEW m \in Changes(e), n < m PROVE VersionAt(n) < VersionAt(m)
  BY <1>3, <1>5, <1>7, <1>8, <1>9, <1>11
<1> QED
  BY <1>10, <1>11

(* What an entry appended to the feed changes.                              *)
LEMMA FeedGrows ==
  ASSUME feed \in Seq(Entries), NEW x \in Entries, feed' = Append(feed, x)
  PROVE  /\ feed' \in Seq(Entries) /\ Len(feed') = Len(feed) + 1
         /\ DOMAIN feed' = DOMAIN feed \cup {Len(feed) + 1} /\ Len(feed) + 1 \notin DOMAIN feed
         /\ feed'[Len(feed) + 1] = x /\ \A n \in DOMAIN feed : feed'[n] = feed[n] /\ n < Len(feed) + 1
         /\ Changes(x.entity)' = Changes(x.entity) \cup {Len(feed) + 1}
         /\ \A e \in Entities : e # x.entity => Changes(e)' = Changes(e)
<1>1. /\ feed' \in Seq(Entries) /\ Len(feed') = Len(feed) + 1
      /\ DOMAIN feed' = DOMAIN feed \cup {Len(feed) + 1} /\ Len(feed) + 1 \notin DOMAIN feed
      /\ feed'[Len(feed) + 1] = x /\ \A n \in DOMAIN feed : feed'[n] = feed[n]
  BY Extended
<1>2. \A n \in DOMAIN feed : n < Len(feed) + 1
  OBVIOUS
<1>3. \A e : Changes(e)' = {i \in DOMAIN feed' : feed'[i].entity = e}
  BY DEF Changes
<1>4. \A e : Changes(e) = {i \in DOMAIN feed : feed[i].entity = e}
  BY DEF Changes
<1>5. \A e : e # x.entity => Changes(e)' = Changes(e)
  BY <1>1, <1>3, <1>4
<1>6. Changes(x.entity)' = Changes(x.entity) \cup {Len(feed) + 1}
  BY <1>1, <1>3, <1>4
<1> QED
  BY <1>1, <1>2, <1>5, <1>6

LEMMA RowGrows ==
  ASSUME feed \in Seq(Entries), NEW x \in Entries, feed' = Append(feed, x)
  PROVE  /\ \A e \in Entities : e # x.entity => Row(e)' = Row(e)
         /\ Row(x.entity).version' = Row(x.entity).version + 1
         /\ Row(x.entity).deleted' <=> Row(x.entity).deleted \/ x.tombstone
         /\ Row(x.entity).edits' = Row(x.entity).edits \cup {x.edit}
<1> DEFINE e0 == x.entity
           new == Len(feed) + 1
<1>1. x.entity \in Entities /\ x.tombstone \in BOOLEAN
  BY DEF Entries
<1>2. /\ Changes(x.entity)' = Changes(x.entity) \cup {Len(feed) + 1}
      /\ Len(feed) + 1 \notin Changes(x.entity)
      /\ \A e \in Entities : e # x.entity => Changes(e)' = Changes(e)
      /\ \A e : \A n \in Changes(e) : feed'[n] = feed[n]
      /\ feed' \in Seq(Entries) /\ feed'[Len(feed) + 1] = x
  BY FeedGrows DEF Changes
<1>3. ASSUME NEW e \in Entities, e # x.entity PROVE Row(e)' = Row(e)
  <2>1. Changes(e)' = Changes(e) /\ \A n \in Changes(e) : feed'[n] = feed[n]
    BY <1>2, <1>3
  <2>2. FirstVersion(e)' = FirstVersion(e)
    BY DEF FirstVersion
  <2>3. {feed[i].edit : i \in Changes(e)}' = {feed[i].edit : i \in Changes(e)}
    BY <2>1
  <2>4. (\E i \in Changes(e) : feed[i].tombstone)' = (\E i \in Changes(e) : feed[i].tombstone)
    BY <2>1
  <2> QED
    BY <2>1, <2>2, <2>3, <2>4, Zenon DEF Row
<1>4. Cardinality(Changes(x.entity)') = Cardinality(Changes(x.entity)) + 1
  <2>1. IsFiniteSet(Changes(x.entity))
    BY <1>1, ChangesCounted
  <2> QED
    BY <1>2, <2>1, FS_AddElement
<1>5. /\ Row(x.entity).version = FirstVersion(x.entity) + Cardinality(Changes(x.entity))
      /\ Row(x.entity).deleted <=> \E i \in Changes(x.entity) : feed[i].tombstone
      /\ Row(x.entity).edits = {feed[i].edit : i \in Changes(x.entity)}
      /\ Cardinality(Changes(x.entity)) \in Nat /\ FirstVersion(x.entity) \in Nat
  BY <1>1, RowTyped, ChangesCounted
<1> DEFINE v == FirstVersion(x.entity) + Cardinality(Changes(x.entity)')
           gone == \E i \in Changes(x.entity)' : feed'[i].tombstone
           known == {feed'[i].edit : i \in Changes(x.entity)'}
<1>6. Row(x.entity)' = [version |-> v, deleted |-> gone, edits |-> known]
  BY Zenon DEF Row, FirstVersion
<1>7. gone <=> (\E i \in Changes(x.entity) : feed[i].tombstone) \/ x.tombstone
  <2>1. \A n \in Changes(x.entity) : feed'[n] = feed[n]
    BY <1>2
  <2> QED
    BY <1>2, <2>1
<1>8. known = {feed[i].edit : i \in Changes(x.entity)} \cup {x.edit}
  <2>1. \A n \in Changes(x.entity) : feed'[n] = feed[n]
    BY <1>2
  <2>2. ASSUME NEW y
        PROVE  y \in known <=> y \in {feed[i].edit : i \in Changes(x.entity)} \cup {x.edit}
    <3>1. y \in known <=> \E i \in Changes(x.entity)' : feed'[i].edit = y
      OBVIOUS
    <3>2. (\E i \in Changes(x.entity)' : feed'[i].edit = y)
            <=> (\E i \in Changes(x.entity) : feed[i].edit = y) \/ x.edit = y
      BY <1>2, <2>1
    <3> QED
      BY <3>1, <3>2
  <2> HIDE DEF known
  <2> QED
    BY <2>2
<1>9. v = FirstVersion(x.entity) + Cardinality(Changes(x.entity)) + 1
  BY <1>4, <1>5
<1>10. gone \in BOOLEAN
  OBVIOUS
<1> HIDE DEF v, gone, known
<1>11. Row(x.entity)'.version = v /\ Row(x.entity)'.deleted = gone /\ Row(x.entity)'.edits = known
  BY <1>6
<1>12. /\ Row(x.entity).version' = v /\ Row(x.entity).edits' = known
       /\ Row(x.entity).deleted' = gone
  BY <1>11
<1>13. /\ Row(x.entity).version' = Row(x.entity).version + 1
       /\ Row(x.entity).edits' = Row(x.entity).edits \cup {x.edit}
  BY <1>5, <1>8, <1>9, <1>12
<1>14. Row(x.entity).deleted' <=> Row(x.entity).deleted \/ x.tombstone
  BY <1>5, <1>7, <1>12
<1> QED
  BY <1>3, <1>13, <1>14

LEMMA VersionsStay ==
  ASSUME feed \in Seq(Entries), NEW x \in Entries, feed' = Append(feed, x),
         NEW new, new = Len(feed) + 1
  PROVE  /\ \A n \in DOMAIN feed : VersionAt(n)' = VersionAt(n)
         /\ VersionAt(new)' = Row(x.entity).version + 1
<1>1. /\ \A n \in DOMAIN feed : feed'[n] = feed[n] /\ n < Len(feed) + 1
      /\ Changes(x.entity)' = Changes(x.entity) \cup {Len(feed) + 1}
      /\ feed'[new] = x
      /\ \A e \in Entities : e # x.entity => Changes(e)' = Changes(e)
      /\ \A n \in DOMAIN feed : feed[n] \in Entries
      /\ DOMAIN feed = 1 .. Len(feed) /\ Len(feed) \in Nat
      /\ DOMAIN feed' = DOMAIN feed \cup {Len(feed) + 1} /\ x.entity \in Entities
  BY FeedGrows, ChangesCounted DEF Entries
<1>2. \A i, j : j \in Older(i)' <=> j \in DOMAIN feed' /\ feed'[j].entity = feed'[i].entity /\ j <= i
  BY Zenon DEF Older, Changes
<1>3. \A i, j : j \in Older(i) <=> j \in DOMAIN feed /\ feed[j].entity = feed[i].entity /\ j <= i
  BY Zenon DEF Older, Changes
<1>4. \A i : VersionAt(i)' = FirstVersion(feed'[i].entity) + Cardinality(Older(i)')
  BY Zenon DEF VersionAt, FirstVersion
<1>5. ASSUME NEW n \in DOMAIN feed PROVE VersionAt(n)' = VersionAt(n)
  <2>1. feed'[n].entity = feed[n].entity /\ feed[n].entity \in Entities
    BY <1>1 DEF Entries
  <2>2. ASSUME NEW j PROVE j \in Older(n)' <=> j \in Older(n)
    BY <1>1, <1>2, <1>3, <2>1
  <2>3. Older(n)' = Older(n)
    BY <2>2
  <2> QED
    BY <1>4, <2>1, <2>3 DEF VersionAt
<1>6. Older(new)' = Changes(x.entity)'
  <2>1. \A j : j \in Changes(x.entity)' <=> j \in DOMAIN feed' /\ feed'[j].entity = x.entity
    BY Zenon DEF Changes
  <2>2. \A j \in DOMAIN feed' : j <= Len(feed) + 1
    BY <1>1
  <2>3. ASSUME NEW j PROVE j \in Older(new)' <=> j \in Changes(x.entity)'
    BY <1>1, <1>2, <2>1, <2>2
  <2> QED
    BY <2>3
<1>7. Row(x.entity).version' = Row(x.entity).version + 1
  BY RowGrows
<1>8. Row(x.entity).version' = FirstVersion(x.entity) + Cardinality(Changes(x.entity)')
  BY DEF Row, FirstVersion
<1>9. VersionAt(new)' = FirstVersion(x.entity) + Cardinality(Older(new)')
  BY <1>1, <1>4
<1> QED
  BY <1>5, <1>6, <1>7, <1>8, <1>9

-----------------------------------------------------------------------------
(* Lemmas about the queue: what a step does to the operations.               *)

Same(x, y) ==
  x.entity = y.entity /\ x.kind = y.kind /\ x.base = y.base /\ x.edit = y.edit

(* Only statuses and delays change, or an operation x is added as well.       *)
Restamped ==
  /\ ops' \in Seq(Operations) /\ Len(ops') = Len(ops) /\ DOMAIN ops' = DOMAIN ops
  /\ \A i \in DOMAIN ops : Same(ops'[i], ops[i])

Extends(x) ==
  /\ ops' \in Seq(Operations) /\ Len(ops') = Len(ops) + 1 /\ Len(ops') <= MaxOps
  /\ DOMAIN ops' = DOMAIN ops \cup {Len(ops) + 1} /\ Len(ops) + 1 \notin DOMAIN ops
  /\ \A i \in DOMAIN ops : Same(ops'[i], ops[i])
  /\ ops'[Len(ops) + 1] = x

LEMMA QueueDomain ==
  ASSUME ops \in Seq(Operations), Len(ops) <= MaxOps
  PROVE  /\ DOMAIN ops = 1 .. Len(ops) /\ Len(ops) \in Nat /\ DOMAIN ops \subseteq 1 .. MaxOps
         /\ \A i \in DOMAIN ops : ops[i] \in Operations
  BY DeviceAssumption

LEMMA OpsSequence ==
  ASSUME ops \in Seq(Operations), NEW f, DOMAIN f = DOMAIN ops, f = [i \in DOMAIN ops |-> f[i]],
         \A i \in DOMAIN ops : f[i] \in Operations
  PROVE  f \in Seq(Operations) /\ Len(f) = Len(ops)
<1>1. DOMAIN ops = 1 .. Len(ops) /\ Len(ops) \in Nat
  OBVIOUS
<1>2. f \in [1 .. Len(ops) -> Operations]
  BY <1>1
<1> QED
  BY <1>1, <1>2, FunctionIsSequence

LEMMA MarkedOperation ==
  ASSUME NEW x \in Operations, NEW status \in Statuses, NEW y, y = [x EXCEPT !.status = status]
  PROVE  y \in Operations /\ Same(y, x) /\ y.status = status /\ y.delayed = x.delayed
  BY DEF Operations, Same

LEMMA Marked ==
  ASSUME ops \in Seq(Operations), NEW S, NEW status \in Statuses,
         NEW new, new = Set(S, status)
  PROVE  /\ new \in Seq(Operations) /\ Len(new) = Len(ops) /\ DOMAIN new = DOMAIN ops
         /\ \A i \in DOMAIN ops :
              /\ Same(new[i], ops[i]) /\ new[i].delayed = ops[i].delayed
              /\ i \in S => new[i].status = status
              /\ i \notin S => new[i] = ops[i]
<1>1. /\ DOMAIN new = DOMAIN ops /\ new = [i \in DOMAIN ops |-> new[i]]
      /\ \A i \in DOMAIN ops :
           /\ i \in S => new[i] = [ops[i] EXCEPT !.status = status]
           /\ i \notin S => new[i] = ops[i]
  BY DEF Set
<1>2. \A i \in DOMAIN ops : ops[i] \in Operations
  OBVIOUS
<1>3. ASSUME NEW i \in DOMAIN ops
      PROVE  /\ new[i] \in Operations /\ Same(new[i], ops[i]) /\ new[i].delayed = ops[i].delayed
             /\ i \in S => new[i].status = status
             /\ i \notin S => new[i] = ops[i]
  <2>1. CASE i \in S
    <3>1. PICK x : x = ops[i]
      OBVIOUS
    <3>2. PICK y : y = new[i]
      OBVIOUS
    <3>3. x \in Operations /\ y = [x EXCEPT !.status = status]
      BY <1>1, <1>2, <2>1, <3>1, <3>2
    <3> QED
      BY <1>2, <2>1, <3>1, <3>2, <3>3, MarkedOperation
  <2>2. CASE i \notin S
    BY <1>1, <1>2, <2>2 DEF Same
  <2> QED
    BY <2>1, <2>2
<1>4. new \in Seq(Operations) /\ Len(new) = Len(ops)
  BY <1>1, <1>3, OpsSequence
<1> QED
  BY <1>1, <1>3, <1>4

LEMMA Requeued ==
  ASSUME ops \in Seq(Operations), NEW S, NEW delayed \in BOOLEAN,
         NEW new, new = Requeue(S, delayed)
  PROVE  /\ new \in Seq(Operations) /\ Len(new) = Len(ops) /\ DOMAIN new = DOMAIN ops
         /\ \A i \in DOMAIN ops :
              /\ Same(new[i], ops[i])
              /\ i \in S => new[i].status = "PENDING" /\ new[i].delayed = delayed
              /\ i \notin S => new[i] = ops[i]
<1>1. /\ DOMAIN new = DOMAIN ops /\ new = [i \in DOMAIN ops |-> new[i]]
      /\ \A i \in DOMAIN ops :
           /\ i \in S => new[i] = [ops[i] EXCEPT !.status = "PENDING", !.delayed = delayed]
           /\ i \notin S => new[i] = ops[i]
  BY DEF Requeue
<1>2. /\ \A i \in DOMAIN ops : ops[i] \in Operations
      /\ "PENDING" \in Statuses
  BY DEF Statuses
<1>3. ASSUME NEW i \in DOMAIN ops
      PROVE  /\ new[i] \in Operations /\ Same(new[i], ops[i])
             /\ i \in S => new[i].status = "PENDING" /\ new[i].delayed = delayed
             /\ i \notin S => new[i] = ops[i]
  <2>1. CASE i \in S
    <3>1. PICK x : x = ops[i]
      OBVIOUS
    <3>2. PICK y : y = new[i]
      OBVIOUS
    <3>3. x \in Operations /\ y = [x EXCEPT !.status = "PENDING", !.delayed = delayed]
      BY <1>1, <1>2, <2>1, <3>1, <3>2
    <3> QED
      <4>1. y \in Operations /\ Same(y, x) /\ y.status = "PENDING" /\ y.delayed = delayed
        BY <3>3 DEF Operations, Same, Statuses
      <4> QED
        BY <2>1, <3>1, <3>2, <4>1
  <2>2. CASE i \notin S
    BY <1>1, <1>2, <2>2 DEF Same
  <2> QED
    BY <2>1, <2>2
<1>4. new \in Seq(Operations) /\ Len(new) = Len(ops)
  BY <1>1, <1>3, OpsSequence
<1> QED
  BY <1>1, <1>3, <1>4

(* The operations that a step takes back are queued again, the others stay.   *)
LEMMA RequeueRestamps ==
  ASSUME ops \in Seq(Operations), NEW S, NEW delayed \in BOOLEAN, ops' = Requeue(S, delayed)
  PROVE  /\ Restamped
         /\ \A i \in DOMAIN ops : i \in S => ops'[i].status = "PENDING"
         /\ \A i \in DOMAIN ops : i \notin S => ops'[i] = ops[i]
  BY Requeued DEF Restamped

LEMMA MarkRestamps ==
  ASSUME ops \in Seq(Operations), NEW S, NEW status \in Statuses, ops' = Set(S, status)
  PROVE  /\ Restamped
         /\ \A i \in DOMAIN ops : i \in S => ops'[i].status = status
         /\ \A i \in DOMAIN ops : i \notin S => ops'[i] = ops[i]
  BY Marked DEF Restamped

LEMMA StillRestamps ==
  ASSUME ops \in Seq(Operations), ops' = ops
  PROVE  Restamped
  BY DEF Restamped, Same

LEMMA DelayRestamps ==
  ASSUME ops \in Seq(Operations), NEW i \in DOMAIN ops, ops' = [ops EXCEPT ![i].delayed = FALSE]
  PROVE  Restamped /\ \A j \in DOMAIN ops : ops'[j].status = ops[j].status
<1>1. DOMAIN ops = 1 .. Len(ops) /\ Len(ops) \in Nat /\ \A j \in DOMAIN ops : ops[j] \in Operations
  OBVIOUS
<1>2. /\ DOMAIN ops' = DOMAIN ops
      /\ \A j \in DOMAIN ops : j # i => ops'[j] = ops[j]
      /\ ops'[i] = [ops[i] EXCEPT !.delayed = FALSE]
      /\ ops' = [j \in DOMAIN ops |-> ops'[j]]
  BY <1>1
<1>3. PICK x : x = ops[i]
  OBVIOUS
<1>4. PICK y : y = ops'[i]
  OBVIOUS
<1>5. x \in Operations /\ y = [x EXCEPT !.delayed = FALSE]
  BY <1>1, <1>2, <1>3, <1>4
<1>6. y \in Operations /\ Same(y, x) /\ y.status = x.status
  BY <1>5 DEF Operations, Same
<1>7. \A j \in DOMAIN ops : ops'[j] \in Operations /\ Same(ops'[j], ops[j])
                            /\ ops'[j].status = ops[j].status
  BY <1>1, <1>2, <1>3, <1>4, <1>6 DEF Same
<1>8. ops' \in Seq(Operations) /\ Len(ops') = Len(ops)
  BY <1>2, <1>7, OpsSequence
<1> QED
  BY <1>2, <1>7, <1>8 DEF Restamped

LEMMA QueueExtends ==
  ASSUME ops \in Seq(Operations), Len(ops) < MaxOps, NEW old \in Seq(Operations),
         Len(old) = Len(ops), DOMAIN old = DOMAIN ops, \A i \in DOMAIN ops : Same(old[i], ops[i]),
         NEW x \in Operations, ops' = Append(old, x)
  PROVE  /\ Extends(x)
         /\ \A i \in DOMAIN ops : ops'[i] = old[i]
<1>1. /\ ops' \in Seq(Operations) /\ Len(ops') = Len(ops) + 1 /\ Len(ops) \in Nat
      /\ DOMAIN ops' = DOMAIN ops \cup {Len(ops) + 1} /\ Len(ops) + 1 \notin DOMAIN ops
      /\ \A i \in DOMAIN ops : ops'[i] = old[i]
      /\ ops'[Len(ops) + 1] = x
  BY Extended
<1> QED
  BY <1>1, DeviceAssumption DEF Extends

(* What Change does.                                                        *)
LEMMA ChangeExtends ==
  ASSUME ops \in Seq(Operations), Len(ops) <= MaxOps, records \in [Entities -> Records],
         NEW e \in Entities, NEW kind \in {"CREATE", "UPDATE", "DELETE"},
         NEW base \in Nat, NEW version \in Nat, Change(e, kind, base, version)
  PROVE  \E x \in Operations :
           /\ Extends(x) /\ \A i \in DOMAIN ops : ops'[i] = ops[i]
           /\ x.entity = e /\ x.kind = kind /\ x.base = base /\ x.edit = Len(ops) + 1
           /\ x.status = "PENDING"
           /\ records' \in [Entities -> Records]
           /\ \A d \in Entities : d # e => records'[d] = records[d]
           /\ records'[e].version = version /\ records'[e].deleted = (kind = "DELETE")
           /\ records'[e].edits = records[e].edits \cup {Len(ops) + 1}
           /\ UNCHANGED <<server, conflicts, cursor, loop, faults>>
<1>1. PICK x : x = [entity |-> e, kind |-> kind, base |-> base, edit |-> Len(ops) + 1,
                    status |-> "PENDING", delayed |-> FALSE]
  OBVIOUS
<1>2. Len(ops) < MaxOps /\ ops' = Append(ops, x)
  BY <1>1, Zenon DEF Change, Enqueue
<1>3. MaxOps \in Nat /\ Len(ops) \in Nat /\ Len(ops) + 1 \in 1 .. MaxOps
      /\ Len(ops) + 1 \in Edits
  BY <1>2, EditsTyped
<1>4. /\ x \in Operations
      /\ x.entity = e /\ x.kind = kind /\ x.base = base /\ x.edit = Len(ops) + 1
      /\ x.status = "PENDING"
  BY <1>1, <1>3 DEF Operations, Statuses
<1>5. Extends(x) /\ \A i \in DOMAIN ops : ops'[i] = ops[i]
  BY <1>2, <1>4, QueueExtends DEF Same
<1> DEFINE gone == kind = "DELETE"
<1>6. PICK r : r = [version |-> version, deleted |-> gone,
                    edits |-> records[e].edits \cup {Len(ops) + 1}]
  OBVIOUS
<1>7. /\ records' = [records EXCEPT ![e] = r]
      /\ UNCHANGED <<server, conflicts, cursor, loop, faults>>
  BY <1>6, Zenon DEF Change
<1>8. gone \in BOOLEAN /\ gone = (kind = "DELETE")
  OBVIOUS
<1> HIDE DEF gone
<1>9. /\ r.version = version /\ r.deleted = gone
      /\ r.edits = records[e].edits \cup {Len(ops) + 1}
  BY <1>6
<1>10. r \in Records
  BY <1>3, <1>6, <1>8 DEF Records
<1>11. /\ records' \in [Entities -> Records] /\ records'[e] = r
       /\ \A d \in Entities : d # e => records'[d] = records[d]
  BY <1>7, <1>10
<1> QED
  BY <1>4, <1>5, <1>7, <1>8, <1>9, <1>11

-----------------------------------------------------------------------------
(* Lemmas about the server: it repeats what it decided, or it leaves an        *)
(* operation undecided, or it applies one, or it turns one down.              *)

Repeats == decided' = decided /\ feed' = feed

Entry(o) == [entity |-> ops[o].entity, edit |-> ops[o].edit, tombstone |-> ops[o].kind = "DELETE"]

Applies(o) ==
  /\ decided[o] = NoAnswer /\ Authorized(o) /\ ConflictOf(o) = "NONE"
  /\ decided' = [decided EXCEPT ![o] = Plain("APPLIED")]
  /\ \E x \in Entries :
       /\ x = Entry(o)
       /\ x.entity = ops[o].entity /\ x.edit = ops[o].edit
       /\ x.tombstone <=> ops[o].kind = "DELETE"
       /\ feed' = Append(feed, x)

TurnsDown(o) ==
  /\ decided[o] = NoAnswer /\ Authorized(o)
  /\ feed' = feed
  /\ \E d \in Answers :
       /\ d.status = "CONFLICT" /\ d.type = ConflictOf(o)
       /\ d.version = Row(ops[o].entity).version /\ d.edits = Row(ops[o].entity).edits
       /\ decided' = [decided EXCEPT ![o] = d]
  /\ ConflictOf(o) # "NONE"

LEMMA OperationTyped ==
  ASSUME Typed, NEW o \in DOMAIN ops
  PROVE  /\ o \in 1 .. MaxOps /\ o \in 1 .. Len(ops) /\ Len(ops) \in Nat /\ ops[o] \in Operations
         /\ ops[o].entity \in Entities /\ ops[o].kind \in {"CREATE", "UPDATE", "DELETE"}
         /\ ops[o].base \in Nat /\ ops[o].edit \in 1 .. MaxOps /\ ops[o].status \in Statuses
         /\ ops[o].delayed \in BOOLEAN
         /\ decided[o] \in Answers /\ conflicts[o] \in ConflictRecords
<1>1. /\ DOMAIN ops \subseteq 1 .. MaxOps /\ ops[o] \in Operations
      /\ o \in 1 .. Len(ops) /\ Len(ops) \in Nat
  BY QueueDomain DEF Typed
<1>2. decided[o] \in Answers /\ conflicts[o] \in ConflictRecords
  BY <1>1 DEF Typed
<1> QED
  BY <1>1, <1>2 DEF Operations

(* What ConflictOf says of the row.                                         *)
LEMMA ConflictCases ==
  ASSUME Typed, NEW o \in DOMAIN ops
  PROVE  /\ ConflictOf(o) \in {"NONE", "EDIT_EDIT", "EDIT_DELETE"}
         /\ ops[o].kind = "CREATE" =>
              ConflictOf(o) = (IF Exists(Row(ops[o].entity)) THEN "EDIT_EDIT" ELSE "NONE")
         /\ ops[o].kind # "CREATE" =>
              /\ ConflictOf(o) = "EDIT_DELETE" <=> Row(ops[o].entity).deleted
              /\ ConflictOf(o) = "NONE" <=>
                   ~Row(ops[o].entity).deleted /\ Row(ops[o].entity).version = ops[o].base
              /\ Authorized(o) <=> Exists(Row(ops[o].entity))
         /\ Authorized(o) /\ ConflictOf(o) # "NONE" => Row(ops[o].entity).version >= 1
<1>1. PICK row : row = Row(ops[o].entity)
  OBVIOUS
<1>2. row.version \in Nat /\ row.deleted \in BOOLEAN
  BY <1>1, OperationTyped, RowTyped DEF Typed
<1>3. ConflictOf(o) = IF ops[o].kind = "CREATE" THEN IF Exists(row) THEN "EDIT_EDIT" ELSE "NONE"
                      ELSE IF row.deleted THEN "EDIT_DELETE"
                           ELSE IF row.version # ops[o].base THEN "EDIT_EDIT" ELSE "NONE"
  BY <1>1, Zenon DEF ConflictOf
<1>4. ops[o].kind # "CREATE" => (Authorized(o) <=> Exists(row))
  BY <1>1, Zenon DEF Authorized
<1>5. Exists(row) <=> row.version >= 1
  BY <1>2 DEF Exists
<1> QED
  BY <1>1, <1>2, <1>3, <1>4, <1>5

LEMMA PlainTyped ==
  ASSUME NEW s \in Statuses \cup {"NONE", "APPLIED", "UNAUTHORIZED"}
  PROVE  /\ Plain(s) \in Answers /\ Plain(s).status = s /\ Plain(s).type = "NONE"
         /\ Plain(s).version = 0
  BY PlainAnswers

(* The outcome of an operation that was not decided before.                  *)
LEMMA FreshOutcome ==
  ASSUME Typed, NEW o \in DOMAIN ops, decided[o] = NoAnswer
  PROVE  /\ Outcome(o) \in Answers
         /\ Outcome(o).status \in {"UNAUTHORIZED", "APPLIED", "CONFLICT"}
         /\ Outcome(o).status = "APPLIED" =>
              Outcome(o) = Plain("APPLIED") /\ Authorized(o) /\ ConflictOf(o) = "NONE"
         /\ Outcome(o).status = "CONFLICT" =>
              /\ Authorized(o) /\ ConflictOf(o) # "NONE" /\ Outcome(o).type = ConflictOf(o)
              /\ Outcome(o).version = Row(ops[o].entity).version
              /\ Outcome(o).edits = Row(ops[o].entity).edits
<1>1. ops[o].entity \in Entities /\ feed \in Seq(Entries)
  BY OperationTyped DEF Typed
<1>2. ConflictOf(o) \in {"NONE", "EDIT_EDIT", "EDIT_DELETE"}
  BY ConflictCases
<1>3. CASE ~Authorized(o)
  <2>1. Outcome(o) = Plain("UNAUTHORIZED")
    BY <1>3, Zenon DEF Outcome
  <2> QED
    BY <2>1, PlainTyped
<1>4. CASE Authorized(o) /\ ConflictOf(o) = "NONE"
  <2>1. Outcome(o) = Plain("APPLIED")
    BY <1>4, Zenon DEF Outcome
  <2> QED
    BY <1>4, <2>1, PlainTyped
<1>5. CASE Authorized(o) /\ ConflictOf(o) # "NONE"
  <2>1. Outcome(o) = [status |-> "CONFLICT", type |-> ConflictOf(o),
                      version |-> Row(ops[o].entity).version, edits |-> Row(ops[o].entity).edits]
    BY <1>5, Zenon DEF Outcome
  <2>2. Row(ops[o].entity).version \in Nat /\ Row(ops[o].entity).edits \in SUBSET Edits
    BY <1>1, RowTyped
  <2> QED
    BY <1>2, <1>5, <2>1, <2>2 DEF Answers, Statuses
<1> QED
  BY <1>3, <1>4, <1>5

LEMMA DecidedAnswers ==
  ASSUME Typed, NEW i \in 1 .. MaxOps, Decision(i), decided[i] # NoAnswer
  PROVE  decided[i].status \in {"APPLIED", "CONFLICT"} /\ decided[i] \in Answers
<1>1. decided[i] \in Answers
  BY DEF Typed
<1> QED
  BY <1>1, PlainAnswers DEF Decision

(* A fault is noted.                                                        *)
LEMMA FaultNoted ==
  ASSUME Typed, NEW S \in SUBSET (1 .. MaxOps), faults' = Append(faults, S)
  PROVE  faults' \in Seq(SUBSET (1 .. MaxOps))
  BY DEF Typed

LEMMA EvaluateCases ==
  ASSUME Typed, NEW o \in DOMAIN ops, Decision(o), NEW answer, Evaluate(o, answer)
  PROVE  /\ answer \in Answers
         /\ answer.status \in {"APPLIED", "CONFLICT", "REJECTED", "UNAUTHORIZED"}
         /\ answer.status \in {"APPLIED", "CONFLICT"} => decided'[o] = answer
         /\ faults' \in Seq(SUBSET (1 .. MaxOps))
         /\ Repeats \/ Applies(o) \/ TurnsDown(o)
<1>1. /\ o \in 1 .. MaxOps /\ DOMAIN decided = 1 .. MaxOps /\ decided[o] \in Answers
      /\ faults \in Seq(SUBSET (1 .. MaxOps))
  BY OperationTyped DEF Typed
<1>2. CASE decided[o] = NoAnswer /\ faults' = Append(faults, {}) /\ answer = Plain("REJECTED")
           /\ UNCHANGED <<decided, feed>>
  <2>1. answer \in Answers /\ answer.status = "REJECTED"
    BY <1>2, PlainTyped DEF Statuses
  <2>2. faults' \in Seq(SUBSET (1 .. MaxOps))
    BY <1>2, FaultNoted
  <2> QED
    BY <1>1, <1>2, <2>1, <2>2 DEF Repeats
<1>3. CASE /\ answer = Outcome(o)
           /\ decided' = IF answer.status = "UNAUTHORIZED" THEN decided
                         ELSE [decided EXCEPT ![o] = answer]
           /\ feed' = IF answer.status = "APPLIED" /\ decided[o] = NoAnswer
                      THEN Append(feed, Entry(o)) ELSE feed
           /\ UNCHANGED faults
  <2>1. CASE decided[o] # NoAnswer
    <3>1. answer = decided[o] /\ answer.status \in {"APPLIED", "CONFLICT"} /\ answer \in Answers
      BY <1>1, <1>3, <2>1, DecidedAnswers DEF Outcome
    <3>2. feed' = feed /\ decided' = [decided EXCEPT ![o] = answer]
      BY <1>3, <2>1, <3>1
    <3>3. decided' = decided
      BY <1>1, <3>1, <3>2 DEF Typed
    <3> QED
      BY <1>1, <1>3, <3>1, <3>2, <3>3 DEF Repeats
  <2>2. CASE decided[o] = NoAnswer
    <3>1. /\ answer \in Answers
          /\ answer.status \in {"UNAUTHORIZED", "APPLIED", "CONFLICT"}
          /\ answer.status = "APPLIED" =>
               answer = Plain("APPLIED") /\ Authorized(o) /\ ConflictOf(o) = "NONE"
          /\ answer.status = "CONFLICT" =>
               /\ Authorized(o) /\ ConflictOf(o) # "NONE" /\ answer.type = ConflictOf(o)
               /\ answer.version = Row(ops[o].entity).version
               /\ answer.edits = Row(ops[o].entity).edits
      BY <1>3, <2>2, FreshOutcome
    <3>2. CASE answer.status = "UNAUTHORIZED"
      BY <1>1, <1>3, <3>1, <3>2 DEF Repeats
    <3>3. CASE answer.status = "APPLIED"
      <4>1. decided' = [decided EXCEPT ![o] = answer] /\ feed' = Append(feed, Entry(o))
        BY <1>3, <2>2, <3>3
      <4>2. decided'[o] = answer
        BY <1>1, <4>1
      <4> DEFINE gone == ops[o].kind = "DELETE"
      <4>3. gone \in BOOLEAN /\ (gone <=> ops[o].kind = "DELETE")
        OBVIOUS
      <4>4. Entry(o) = [entity |-> ops[o].entity, edit |-> ops[o].edit, tombstone |-> gone]
        BY Zenon DEF Entry
      <4>5. PICK x : x = Entry(o)
        OBVIOUS
      <4> HIDE DEF gone
      <4>6. ops[o].entity \in Entities /\ ops[o].edit \in Edits
        BY OperationTyped, EditsTyped
      <4>7. /\ x \in Entries /\ x.entity = ops[o].entity /\ x.edit = ops[o].edit
            /\ x.tombstone = gone
        BY <4>3, <4>4, <4>5, <4>6 DEF Entries
      <4>8. Applies(o)
        BY <2>2, <3>1, <3>3, <4>1, <4>3, <4>5, <4>7 DEF Applies
      <4> QED
        BY <1>1, <1>3, <3>1, <4>2, <4>8
    <3>4. CASE answer.status = "CONFLICT"
      <4>1. decided' = [decided EXCEPT ![o] = answer] /\ feed' = feed
        BY <1>3, <3>4
      <4>2. decided'[o] = answer
        BY <1>1, <4>1
      <4>3. TurnsDown(o)
        BY <2>2, <3>1, <3>4, <4>1 DEF TurnsDown
      <4> QED
        BY <1>1, <1>3, <3>1, <4>2, <4>3
    <3> QED
      BY <3>1, <3>2, <3>3, <3>4
  <2> QED
    BY <2>1, <2>2
<1> QED
  BY <1>2, <1>3, Zenon DEF Evaluate, Entry

-----------------------------------------------------------------------------
(* What a decision keeps.                                                   *)

Decided ==
  /\ feed' \in Seq(Entries) /\ Len(feed') >= Len(feed)
  /\ decided' \in [1 .. MaxOps -> Answers]
  /\ \A i \in 1 .. MaxOps : decided[i] # NoAnswer => decided'[i] = decided[i]
  /\ Counted'

LEMMA OwnFinite ==
  ASSUME Typed
  PROVE  /\ IsFiniteSet(Own) /\ Cardinality(Own) \in Nat /\ Own \in SUBSET (1 .. Len(feed))
         /\ IsFiniteSet(Applied) /\ Cardinality(Applied) \in Nat /\ Cardinality(Applied) <= MaxOps
         /\ Applied \in SUBSET (1 .. MaxOps)
<1>1. /\ DOMAIN feed = 1 .. Len(feed) /\ Len(feed) \in Nat /\ MaxOps \in Nat
      /\ DOMAIN decided = 1 .. MaxOps
  BY DeviceAssumption DEF Typed
<1>2. Own \in SUBSET (1 .. Len(feed)) /\ Applied \in SUBSET (1 .. MaxOps)
  BY <1>1, Zenon DEF Own, Applied
<1> QED
  BY <1>1, <1>2, Positions

LEMMA AppliesDecides ==
  ASSUME Typed, Counted, NEW o \in DOMAIN ops, Applies(o)
  PROVE  Decided
<1>1. /\ o \in 1 .. MaxOps /\ feed \in Seq(Entries) /\ decided \in [1 .. MaxOps -> Answers]
      /\ ops[o].edit <= MaxOps
  BY OperationTyped DEF Typed
<1>2. PICK x \in Entries : x.edit = ops[o].edit /\ feed' = Append(feed, x)
  BY DEF Applies
<1>3. decided[o] = NoAnswer /\ decided' = [decided EXCEPT ![o] = Plain("APPLIED")]
  BY DEF Applies
<1>4. Plain("APPLIED") \in Answers /\ Plain("APPLIED").status = "APPLIED"
  BY PlainTyped
<1>5. /\ decided' \in [1 .. MaxOps -> Answers] /\ DOMAIN decided' = DOMAIN decided
      /\ \A i \in 1 .. MaxOps : i # o => decided'[i] = decided[i]
      /\ decided'[o].status = "APPLIED"
  BY <1>1, <1>3, <1>4
<1>6. PICK new : new = Len(feed) + 1
  OBVIOUS
<1>7. /\ feed' \in Seq(Entries) /\ Len(feed') = Len(feed) + 1 /\ Len(feed) \in Nat
      /\ DOMAIN feed' = DOMAIN feed \cup {new} /\ new \notin DOMAIN feed
      /\ feed'[new] = x /\ \A n \in DOMAIN feed : feed'[n] = feed[n]
  BY <1>1, <1>2, <1>6, FeedGrows
<1>8. Own' = Own \cup {new} /\ new \notin Own
  BY <1>1, <1>2, <1>7 DEF Own
<1>9. Applied' = Applied \cup {o} /\ o \notin Applied
  <2>1. decided[o].status = "NONE" /\ DOMAIN decided = 1 .. MaxOps
    BY <1>1, <1>3, PlainAnswers
  <2> QED
    BY <1>1, <1>5, <2>1 DEF Applied
<1>10. /\ Cardinality(Own') = Cardinality(Own) + 1
       /\ Cardinality(Applied') = Cardinality(Applied) + 1
       /\ Cardinality(Own) \in Nat /\ Cardinality(Applied) \in Nat
  BY <1>8, <1>9, OwnFinite, FS_AddElement
<1>11. Counted'
  BY <1>10 DEF Counted
<1> QED
  BY <1>3, <1>5, <1>7, <1>11 DEF Decided

LEMMA TurnsDownDecides ==
  ASSUME Typed, Counted, NEW o \in DOMAIN ops, TurnsDown(o)
  PROVE  Decided
<1>1. /\ o \in 1 .. MaxOps /\ feed \in Seq(Entries) /\ decided \in [1 .. MaxOps -> Answers]
  BY OperationTyped DEF Typed
<1>2. PICK d \in Answers : d.status = "CONFLICT" /\ decided' = [decided EXCEPT ![o] = d]
  BY DEF TurnsDown
<1>3. decided[o] = NoAnswer /\ feed' = feed
  BY DEF TurnsDown
<1>4. /\ decided' \in [1 .. MaxOps -> Answers] /\ DOMAIN decided' = DOMAIN decided
      /\ \A i \in 1 .. MaxOps : i # o => decided'[i] = decided[i]
      /\ decided'[o].status = "CONFLICT"
  BY <1>1, <1>2
<1>5. Own' = Own
  BY <1>3 DEF Own
<1>6. Applied' = Applied
  <2>1. decided[o].status = "NONE" /\ DOMAIN decided = 1 .. MaxOps
    BY <1>1, <1>3, PlainAnswers
  <2> QED
    BY <1>1, <1>4, <2>1 DEF Applied
<1>7. Counted'
  BY <1>5, <1>6 DEF Counted
<1> QED
  BY <1>1, <1>3, <1>4, <1>7 DEF Decided

LEMMA RepeatsDecides ==
  ASSUME Typed, Counted, Repeats
  PROVE  Decided
  BY DEF Decided, Repeats, Typed, Counted, Own, Applied

LEMMA DecisionsStand ==
  ASSUME Typed, Counted, NEW o \in DOMAIN ops, Repeats \/ Applies(o) \/ TurnsDown(o)
  PROVE  Decided
  BY AppliesDecides, TurnsDownDecides, RepeatsDecides

(* An operation that is decided now was in the queue.                        *)
LEMMA DecisionKept ==
  ASSUME Typed, \A i \in 1 .. MaxOps : Decision(i), NEW o \in DOMAIN ops,
         Repeats \/ Applies(o) \/ TurnsDown(o), ops' = ops, conflicts' = conflicts,
         NEW i \in 1 .. MaxOps
  PROVE  Decision(i)'
<1>1. o \in 1 .. MaxOps /\ decided \in [1 .. MaxOps -> Answers] /\ Decision(i) /\ Decision(o)
      /\ NoAnswer.status = "NONE" /\ Plain("APPLIED").status = "APPLIED"
  BY OperationTyped, PlainAnswers DEF Typed
<1>2. CASE decided'[i] = decided[i]
  BY <1>1, <1>2 DEF Decision
<1>3. CASE Applies(o) /\ i = o
  <2>1. decided[o] = NoAnswer /\ decided'[o] = Plain("APPLIED")
    BY <1>1, <1>3 DEF Applies
  <2>2. conflicts[o].status = "NONE"
    BY <1>1, <2>1 DEF Decision
  <2> QED
    BY <1>1, <1>3, <2>1, <2>2 DEF Decision
<1>4. CASE TurnsDown(o) /\ i = o
  <2>1. decided[o] = NoAnswer
    BY <1>4 DEF TurnsDown
  <2>2. conflicts[o].status = "NONE"
    BY <1>1, <2>1 DEF Decision
  <2>3. /\ decided'[o].status = "CONFLICT" /\ decided'[o].type \in {"EDIT_EDIT", "EDIT_DELETE"}
        /\ decided'[o].version >= 1
    BY <1>1, <1>4, ConflictCases DEF TurnsDown
  <2> QED
    BY <1>1, <1>4, <2>2, <2>3 DEF Decision
<1>5. decided'[i] = decided[i] \/ (Applies(o) /\ i = o) \/ (TurnsDown(o) /\ i = o)
  BY <1>1 DEF Repeats, Applies, TurnsDown
<1> QED
  BY <1>2, <1>3, <1>4, <1>5

LEMMA QueueStillMatches ==
  ASSUME Typed, QueueMatchesServer, Decided, ops' = ops
  PROVE  QueueMatchesServer'
<1>1. ASSUME NEW i \in DOMAIN ops, ops[i].status \in {"SYNCED", "CONFLICT"}
      PROVE  decided'[i] = decided[i]
  <2>1. decided[i].status # "NONE" /\ i \in 1 .. MaxOps
    BY <1>1, OperationTyped DEF QueueMatchesServer
  <2>2. decided[i] # NoAnswer
    BY <2>1, PlainAnswers
  <2> QED
    BY <2>1, <2>2 DEF Decided
<1> QED
  BY <1>1 DEF QueueMatchesServer

(* No CREATE is turned down, and none waits for an entity that the server has. *)
LEMMA CreationKept ==
  ASSUME Typed, \A i \in 1 .. MaxOps : Decision(i), Creations, NEW o \in DOMAIN ops,
         Repeats \/ Applies(o) \/ TurnsDown(o), ops' = ops, records' = records
  PROVE  Creations'
<1> SUFFICES ASSUME NEW i \in DOMAIN ops PROVE Creation(i)'
  BY DEF Creations
<1>1. /\ o \in 1 .. MaxOps /\ i \in 1 .. MaxOps /\ decided \in [1 .. MaxOps -> Answers]
      /\ Creation(i) /\ Creation(o)
      /\ NoAnswer.status = "NONE" /\ Plain("APPLIED").status = "APPLIED"
      /\ feed \in Seq(Entries) /\ ops[i].entity \in Entities /\ ops[o].entity \in Entities
  BY OperationTyped, PlainAnswers DEF Typed, Creations
<1>2. ops[i].base = 0 <=> Creates(i)
  BY <1>1 DEF Creation
<1>3. ASSUME Creates(i) PROVE (decided'[i] = NoAnswer => Changes(ops[i].entity)' = {})
                              /\ decided'[i].status # "CONFLICT"
  <2>1. /\ decided[i] = NoAnswer => Changes(ops[i].entity) = {}
        /\ decided[i].status # "CONFLICT"
        /\ \A j \in DOMAIN ops : Creates(j) /\ ops[j].entity = ops[i].entity => j = i
        /\ ops[i].entity \notin Existing
    BY <1>1, <1>3 DEF Creation
  <2>2. CASE Repeats
    BY <2>1, <2>2 DEF Repeats, Changes
  <2>3. CASE Applies(o)
    <3>1. PICK x \in Entries : x.entity = ops[o].entity /\ feed' = Append(feed, x)
      BY <2>3 DEF Applies
    <3>2. CASE i = o
      BY <1>1, <2>3, <3>2 DEF Applies
    <3>3. CASE i # o /\ ops[i].entity = ops[o].entity
      <4>1. decided'[i] = decided[i]
        BY <1>1, <2>3, <3>3 DEF Applies
      <4>2. SUFFICES ASSUME decided[i] = NoAnswer PROVE FALSE
        BY <2>1, <4>1
      <4>3. Changes(ops[o].entity) = {} /\ ops[o].entity \notin Existing /\ ~Creates(o)
        BY <2>1, <3>3, <4>2
      <4>4. ops[o].kind # "CREATE"
        BY <4>3 DEF Creates
      <4>5. Row(ops[o].entity).version = 0
        BY <1>1, <4>3, UnknownRow
      <4>6. Exists(Row(ops[o].entity))
        BY <2>3, <4>4, ConflictCases DEF Applies
      <4> QED
        BY <4>5, <4>6 DEF Exists
    <3>4. CASE ops[i].entity # ops[o].entity
      <4>1. decided'[i] = decided[i]
        BY <1>1, <2>3, <3>4 DEF Applies
      <4>2. Changes(ops[i].entity)' = Changes(ops[i].entity)
        <5>1. PICK e : e = ops[i].entity
          OBVIOUS
        <5>2. Changes(e)' = Changes(e)
          BY <1>1, <3>1, <3>4, <5>1, FeedGrows
        <5> QED
          BY <5>1, <5>2 DEF Changes
      <4> QED
        BY <2>1, <4>1, <4>2
    <3> QED
      BY <3>2, <3>3, <3>4
  <2>4. CASE TurnsDown(o)
    <3>1. Changes(ops[i].entity)' = Changes(ops[i].entity)
      BY <2>4 DEF TurnsDown, Changes
    <3>2. CASE i # o
      <4>1. decided'[i] = decided[i]
        BY <1>1, <2>4, <3>2 DEF TurnsDown
      <4> QED
        BY <2>1, <3>1, <4>1
    <3>3. CASE i = o
      <4>1. Changes(ops[o].entity) = {} /\ ops[o].kind = "CREATE" /\ ops[o].entity \notin Existing
        BY <1>3, <2>1, <2>4, <3>3 DEF TurnsDown, Creates
      <4>2. Row(ops[o].entity).version = 0
        BY <1>1, <4>1, UnknownRow
      <4>3. ConflictOf(o) = "NONE"
        BY <4>1, <4>2, ConflictCases DEF Exists
      <4> QED
        BY <2>4, <4>3 DEF TurnsDown
    <3> QED
      BY <3>2, <3>3
  <2> QED
    BY <2>2, <2>3, <2>4
<1> QED
  BY <1>1, <1>2, <1>3 DEF Creation, Creates

-----------------------------------------------------------------------------
(* Lemmas about the loops.                                                  *)

LEMMA LoopTyped ==
  ASSUME Typed, Requests, NEW l \in Loops
  PROVE  /\ pc[l] \in Places /\ batch[l] \in Seq(1 .. MaxOps) /\ answers[l] \in Seq(Answers)
         /\ Len(batch[l]) \in Nat /\ Len(answers[l]) \in Nat
         /\ DOMAIN batch[l] = 1 .. Len(batch[l]) /\ DOMAIN answers[l] = 1 .. Len(answers[l])
         /\ Len(answers[l]) <= Len(batch[l])
         /\ \A n \in DOMAIN batch[l] : batch[l][n] \in DOMAIN ops /\ batch[l][n] \in 1 .. MaxOps
         /\ pc[l] # "idle" => Len(batch[l]) >= 1
<1>1. /\ pc[l] \in Places /\ batch[l] \in Seq(1 .. MaxOps) /\ answers[l] \in Seq(Answers)
      /\ Request(l)
  BY DEF Typed, Requests
<1>2. /\ Len(batch[l]) \in Nat /\ Len(answers[l]) \in Nat
      /\ DOMAIN batch[l] = 1 .. Len(batch[l]) /\ DOMAIN answers[l] = 1 .. Len(answers[l])
      /\ \A n \in DOMAIN batch[l] : batch[l][n] \in 1 .. MaxOps
  BY <1>1, SequenceData
<1>3. Len(answers[l]) <= Len(batch[l])
  BY <1>1, <1>2 DEF Request, Places
<1>4. \A n \in DOMAIN batch[l] : batch[l][n] \in DOMAIN ops
  BY <1>1 DEF Request, InBatch
<1>5. pc[l] # "idle" => Len(batch[l]) >= 1
  BY <1>1, <1>2 DEF Request
<1> QED
  BY <1>1, <1>2, <1>3, <1>4, <1>5

LEMMA BatchMember ==
  ASSUME Typed, Requests, NEW l \in Loops
  PROVE  InBatch(l) \subseteq DOMAIN ops /\ InBatch(l) \subseteq 1 .. MaxOps
  BY LoopTyped DEF InBatch

(* What is left of a request.                                               *)
LEMMA RestTyped ==
  ASSUME Typed, Requests, NEW l \in Loops, pc[l] \in {"sent", "served"}
  PROVE  /\ Rest(l) \in Seq(1 .. MaxOps) /\ Len(Rest(l)) = Len(batch[l]) - Len(answers[l])
         /\ Len(Rest(l)) >= 1 /\ Rest(l) # <<>>
         /\ \A n \in DOMAIN Rest(l) : Rest(l)[n] \in DOMAIN ops
         /\ Len(answers[l]) + 1 \in DOMAIN batch[l]
         /\ Head(Rest(l)) = batch[l][Len(answers[l]) + 1] /\ Head(Rest(l)) \in DOMAIN ops
<1>1. PICK s : s = batch[l]
  OBVIOUS
<1>2. PICK k : k = Len(answers[l])
  OBVIOUS
<1>3. PICK r : r = Rest(l)
  OBVIOUS
<1>4. /\ s \in Seq(1 .. MaxOps) /\ k \in Nat /\ Len(s) \in Nat /\ DOMAIN s = 1 .. Len(s)
      /\ \A n \in DOMAIN s : s[n] \in DOMAIN ops
      /\ k < Len(s)
  <2>1. Request(l) /\ Len(<<>>) = 0
    BY DEF Requests
  <2> QED
    BY <1>1, <1>2, <2>1, LoopTyped DEF Request
<1>5. r = SubSeq(s, k + 1, Len(s))
  BY <1>1, <1>2, <1>3, Zenon DEF Rest
<1>6. /\ r \in Seq(1 .. MaxOps) /\ Len(r) = Len(s) - k /\ DOMAIN r = 1 .. Len(s) - k
      /\ r # <<>> /\ Head(r) = s[k + 1]
      /\ \A n \in 1 .. Len(s) - k : r[n] = s[k + n]
  <2>1. PICK R : R = 1 .. MaxOps
    OBVIOUS
  <2>2. s \in Seq(R)
    BY <1>4, <2>1
  <2>3. k \in Nat /\ k < Len(s)
    BY <1>4
  <2>4. /\ r \in Seq(R) /\ Len(r) = Len(s) - k /\ DOMAIN r = 1 .. Len(s) - k
        /\ r # <<>> /\ Head(r) = s[k + 1]
        /\ \A n \in 1 .. Len(s) - k : r[n] = s[k + n]
    <3>1. \A x \in Seq(R) : \A n \in Nat : n < Len(x) =>
            \A y : y = SubSeq(x, n + 1, Len(x)) =>
              /\ y \in Seq(R) /\ Len(y) = Len(x) - n /\ DOMAIN y = 1 .. Len(x) - n
              /\ y # <<>> /\ Head(y) = x[n + 1]
              /\ \A i \in 1 .. Len(x) - n : y[i] = x[n + i]
      BY Suffix, Zenon
    <3>2. \A y : y = SubSeq(s, k + 1, Len(s)) =>
            /\ y \in Seq(R) /\ Len(y) = Len(s) - k /\ DOMAIN y = 1 .. Len(s) - k
            /\ y # <<>> /\ Head(y) = s[k + 1]
            /\ \A i \in 1 .. Len(s) - k : y[i] = s[k + i]
      BY <2>2, <2>3, <3>1, Zenon
    <3> QED
      BY <1>5, <3>2, Zenon
  <2> QED
    BY <2>1, <2>4
<1>7. ASSUME NEW n \in DOMAIN r PROVE r[n] \in DOMAIN ops
  <2>1. n \in 1 .. Len(s) - k /\ k + n \in 1 .. Len(s)
    BY <1>4, <1>6
  <2> QED
    BY <1>4, <1>6, <2>1
<1>8. Len(s) - k >= 1 /\ k + 1 \in DOMAIN s
  BY <1>4
<1> QED
  BY <1>1, <1>2, <1>3, <1>4, <1>6, <1>7, <1>8

LEMMA LeaveTyped ==
  ASSUME Typed, Requests, NEW l \in Loops, Leave(l), DOMAIN ops' = DOMAIN ops
  PROVE  /\ orphans' \subseteq Seq(1 .. MaxOps)
         /\ \A s \in orphans' : s # <<>> /\ \A n \in DOMAIN s : s[n] \in DOMAIN ops'
<1>1. /\ orphans \subseteq Seq(1 .. MaxOps)
      /\ \A s \in orphans : s # <<>> /\ \A n \in DOMAIN s : s[n] \in DOMAIN ops
  BY DEF Typed, Requests
<1>2. CASE orphans' = orphans
  BY <1>1, <1>2
<1>3. CASE pc[l] \in {"sent", "served"} /\ orphans' = orphans \cup {Rest(l)}
  BY <1>1, <1>3, RestTyped
<1> QED
  BY <1>2, <1>3 DEF Leave

LEMMA RequestKept ==
  ASSUME Requests, NEW l \in Loops, DOMAIN ops \subseteq DOMAIN ops',
         pc'[l] = pc[l], batch'[l] = batch[l], answers'[l] = answers[l]
  PROVE  Request(l)'
<1>1. Request(l)
  BY DEF Requests
<1> QED
  BY <1>1 DEF Request, InBatch

LEMMA LoopsKept ==
  ASSUME Requests, DOMAIN ops \subseteq DOMAIN ops', loop' = loop, orphans' = orphans
  PROVE  Requests'
<1>1. \A l \in Loops : Request(l)'
  BY RequestKept DEF loop
<1>2. \A s \in orphans' : s # <<>> /\ \A n \in DOMAIN s : s[n] \in DOMAIN ops'
  BY DEF Requests
<1> QED
  BY <1>1, <1>2 DEF Requests

LEMMA AnsweredKept ==
  ASSUME Typed, Requests, NEW l \in Loops, Answered(l),
         \A i \in 1 .. MaxOps : decided[i] # NoAnswer => decided'[i] = decided[i],
         batch'[l] = batch[l], answers'[l] = answers[l]
  PROVE  Answered(l)'
<1>1. ASSUME NEW n \in DOMAIN answers[l], answers[l][n].status \in {"APPLIED", "CONFLICT"}
      PROVE  decided'[batch[l][n]] = answers[l][n]
  <2>1. decided[batch[l][n]] = answers[l][n] /\ n \in DOMAIN batch[l]
    BY <1>1, LoopTyped DEF Answered
  <2>2. batch[l][n] \in 1 .. MaxOps
    BY <2>1, LoopTyped
  <2>3. decided[batch[l][n]] # NoAnswer
    BY <1>1, <2>1, PlainAnswers
  <2> QED
    BY <2>1, <2>2, <2>3
<1> QED
  BY <1>1 DEF Answered

LEMMA FinishKeeps ==
  ASSUME Typed, Requests, \A k \in Loops : Answered(k), NEW l \in Loops, Finish(l),
         DOMAIN ops' = DOMAIN ops, decided' = decided
  PROVE  /\ pc' \in [Loops -> Places] /\ batch' \in [Loops -> Seq(1 .. MaxOps)]
         /\ answers' \in [Loops -> Seq(Answers)]
         /\ \A k \in Loops : Request(k)' /\ Answered(k)'
<1>1. /\ pc' = [pc EXCEPT ![l] = "idle"] /\ batch' = [batch EXCEPT ![l] = <<>>]
      /\ answers' = [answers EXCEPT ![l] = <<>>]
      /\ pc \in [Loops -> Places] /\ batch \in [Loops -> Seq(1 .. MaxOps)]
      /\ answers \in [Loops -> Seq(Answers)]
      /\ BatchSize \in Nat
  BY DeviceAssumption DEF Finish, Typed
<1>2. <<>> \in Seq(1 .. MaxOps) /\ <<>> \in Seq(Answers) /\ "idle" \in Places
      /\ Len(<<>>) = 0 /\ DOMAIN <<>> = {}
  BY DEF Places
<1>3. /\ pc' \in [Loops -> Places] /\ batch' \in [Loops -> Seq(1 .. MaxOps)]
      /\ answers' \in [Loops -> Seq(Answers)]
      /\ pc'[l] = "idle" /\ batch'[l] = <<>> /\ answers'[l] = <<>>
      /\ \A k \in Loops : k # l => pc'[k] = pc[k] /\ batch'[k] = batch[k]
                                   /\ answers'[k] = answers[k]
  BY <1>1, <1>2
<1>4. Request(l)' /\ Answered(l)'
  BY <1>1, <1>2, <1>3 DEF Request, Answered, InBatch
<1>5. ASSUME NEW k \in Loops, k # l PROVE Request(k)' /\ Answered(k)'
  BY <1>3, <1>5, RequestKept, AnsweredKept
<1> QED
  BY <1>3, <1>4, <1>5

-----------------------------------------------------------------------------
(* What a step of the client keeps.                                          *)

LEMMA CountedKept ==
  ASSUME Counted, feed' = feed, decided' = decided
  PROVE  Counted'
  BY DEF Counted, Own, Applied

LEMMA DecisionsKept ==
  ASSUME \A i \in 1 .. MaxOps : Decision(i), DOMAIN ops \subseteq DOMAIN ops',
         decided' = decided, conflicts' = conflicts
  PROVE  \A i \in 1 .. MaxOps : Decision(i)'
  BY DEF Decision

LEMMA CreationsKept ==
  ASSUME Typed, Creations, Restamped, feed' = feed, decided' = decided,
         \A e \in Entities : Exists(records[e]) => Exists(records'[e])
  PROVE  Creations'
<1>1. ASSUME NEW i \in DOMAIN ops PROVE Creation(i)'
  <2>1. /\ DOMAIN ops' = DOMAIN ops
        /\ \A j \in DOMAIN ops : ops'[j].entity = ops[j].entity /\ ops'[j].kind = ops[j].kind
                                 /\ ops'[j].base = ops[j].base
    BY DEF Restamped, Same
  <2>2. Creation(i) /\ ops[i].entity \in Entities
    BY OperationTyped DEF Creations
  <2>3. Changes(ops[i].entity)' = Changes(ops[i].entity)
    BY <2>1 DEF Changes
  <2> QED
    BY <2>1, <2>2, <2>3 DEF Creation, Creates
<1> QED
  BY <1>1 DEF Creations, Restamped

-----------------------------------------------------------------------------
(* The invariant is inductive: the steps of the user.                        *)

LEMMA ChangeKeeps ==
  ASSUME Sound, NEW e \in Entities, NEW kind \in {"CREATE", "UPDATE", "DELETE"},
         NEW base \in Nat, NEW version \in Nat, version >= 1, Change(e, kind, base, version),
         \/ kind = "CREATE" /\ base = 0 /\ ~Exists(records[e]) /\ ~Exists(Row(e))
         \/ kind # "CREATE" /\ base >= 1
  PROVE  Sound'
<1>1. Typed /\ Counted /\ Requests /\ Decisions /\ Creations
  BY DEF Sound
<1>2. ops \in Seq(Operations) /\ Len(ops) <= MaxOps /\ records \in [Entities -> Records]
      /\ feed \in Seq(Entries)
  BY <1>1 DEF Typed
<1>3. PICK x \in Operations :
        /\ Extends(x) /\ \A i \in DOMAIN ops : ops'[i] = ops[i]
        /\ x.entity = e /\ x.kind = kind /\ x.base = base /\ x.edit = Len(ops) + 1
        /\ x.status = "PENDING"
        /\ records' \in [Entities -> Records]
        /\ \A d \in Entities : d # e => records'[d] = records[d]
        /\ records'[e].version = version /\ records'[e].deleted = (kind = "DELETE")
        /\ records'[e].edits = records[e].edits \cup {Len(ops) + 1}
        /\ UNCHANGED <<server, conflicts, cursor, loop, faults>>
  BY <1>2, ChangeExtends
<1>4. PICK new : new = Len(ops) + 1
  OBVIOUS
<1>5. /\ DOMAIN ops' = DOMAIN ops \cup {new} /\ new \notin DOMAIN ops /\ ops'[new] = x
      /\ \A i \in DOMAIN ops : ops'[i] = ops[i]
      /\ ops' \in Seq(Operations) /\ Len(ops') <= MaxOps
  BY <1>3, <1>4 DEF Extends
<1>6. Typed'
  BY <1>1, <1>3, <1>5 DEF Typed, server, loop
<1>7. Counted'
  BY <1>1, <1>3, CountedKept DEF server
<1>8. Requests'
  BY <1>1, <1>3, <1>5, LoopsKept DEF server
<1>9. Decisions'
  <2>1. \A i \in 1 .. MaxOps : Decision(i)'
    BY <1>1, <1>3, <1>5, DecisionsKept DEF Decisions, server
  <2>2. \A l \in Loops : Answered(l)'
    BY <1>1, <1>3 DEF Decisions, Answered, server, loop
  <2>3. QueueMatchesServer'
    BY <1>1, <1>3, <1>5 DEF Decisions, QueueMatchesServer, server
  <2> QED
    BY <2>1, <2>2, <2>3 DEF Decisions
<1>10. Creations'
  <2>1. \A d \in Entities : Exists(records[d]) => Exists(records'[d])
    BY <1>3 DEF Exists
  <2>2. decided' = decided /\ feed' = feed
    BY <1>3 DEF server
  <2>3. \A d : Changes(d)' = Changes(d)
    BY <2>2 DEF Changes
  <2>4. new \in 1 .. MaxOps
    <3>1. new = Len(ops) + 1 /\ Len(ops) \in Nat /\ Len(ops) + 1 <= MaxOps
      BY <1>2, <1>3, <1>4, QueueDomain DEF Extends
    <3> QED
      BY <3>1, DeviceAssumption
  <2>5. ASSUME kind = "CREATE"
        PROVE  /\ e \notin Existing /\ Changes(e) = {} /\ decided[new] = NoAnswer
               /\ \A j \in DOMAIN ops : ops[j].entity = e => ~Creates(j)
    <3>1. base = 0 /\ ~Exists(records[e]) /\ ~Exists(Row(e))
      BY <2>5
    <3>2. /\ Row(e).version = FirstVersion(e) + Cardinality(Changes(e))
          /\ FirstVersion(e) \in {0, 1} /\ Cardinality(Changes(e)) \in Nat
          /\ IsFiniteSet(Changes(e)) /\ (FirstVersion(e) = 1 <=> e \in Existing)
      BY <1>2, RowTyped, ChangesCounted, FirstVersions
    <3>3. Cardinality(Changes(e)) = 0 /\ FirstVersion(e) = 0
      BY <3>1, <3>2 DEF Exists
    <3>4. Changes(e) = {}
      BY <3>2, <3>3, FS_EmptySet
    <3>5. decided[new] = NoAnswer
      BY <1>1, <1>5, <2>4 DEF Decisions, Decision
    <3> QED
      BY <1>1, <3>1, <3>2, <3>3, <3>4, <3>5 DEF Creations, Creation
  <2>6. ASSUME NEW i \in DOMAIN ops PROVE Creation(i)'
    <3>1. Creation(i) /\ ops[i].entity \in Entities /\ ops'[i] = ops[i]
      BY <1>1, <1>5, OperationTyped DEF Creations
    <3>2. /\ ops[i].base = 0 <=> Creates(i)
          /\ Creates(i) =>
               /\ ops[i].entity \notin Existing /\ Exists(records[ops[i].entity])
               /\ decided[i] = NoAnswer => Changes(ops[i].entity) = {}
               /\ decided[i].status # "CONFLICT"
               /\ \A j \in DOMAIN ops : Creates(j) /\ ops[j].entity = ops[i].entity => j = i
      BY <3>1 DEF Creation
    <3>3. Changes(ops[i].entity)' = Changes(ops[i].entity)
      BY <2>2, <3>1 DEF Changes
    <3>4. ASSUME Creates(i), NEW j \in DOMAIN ops', Creates(j)', ops'[j].entity = ops[i].entity
          PROVE  j = i
      <4>1. CASE j = new
        BY <1>3, <1>5, <2>5, <3>4, <4>1 DEF Creates
      <4>2. CASE j \in DOMAIN ops
        BY <1>5, <3>2, <3>4, <4>2 DEF Creates
      <4> QED
        BY <1>5, <4>1, <4>2
    <3> QED
      BY <2>1, <2>2, <3>1, <3>2, <3>3, <3>4 DEF Creation, Creates
  <2>7. Creation(new)'
    <3>1. ops'[new].base = base /\ ops'[new].entity = e /\ (Creates(new)' <=> kind = "CREATE")
      BY <1>3, <1>5 DEF Creates
    <3>2. base = 0 <=> kind = "CREATE"
      OBVIOUS
    <3>3. ASSUME kind = "CREATE"
          PROVE  /\ e \notin Existing /\ Exists(records'[e])
                 /\ Changes(ops[new].entity)' = {} /\ decided'[new] = NoAnswer
                 /\ \A j \in DOMAIN ops' : Creates(j)' /\ ops'[j].entity = e => j = new
      <4>1. Changes(ops[new].entity)' = {}
        BY <2>2, <2>5, <3>1, <3>3 DEF Changes
      <4>2. \A j \in DOMAIN ops' : Creates(j)' /\ ops'[j].entity = e => j = new
        BY <1>5, <2>5, <3>3 DEF Creates
      <4> QED
        BY <1>3, <2>2, <2>5, <3>3, <4>1, <4>2 DEF Exists
    <3>4. kind = "CREATE" => decided'[new].status # "CONFLICT"
      BY <3>3, PlainAnswers
    <3> QED
      BY <3>1, <3>2, <3>3, <3>4 DEF Creation
  <2> QED
    BY <1>5, <2>6, <2>7 DEF Creations
<1> QED
  BY <1>6, <1>7, <1>8, <1>9, <1>10 DEF Sound

LEMMA MutationsKeep ==
  ASSUME Sound, NEW e \in Entities,
         CreateProject(e) \/ CreateBelow(e) \/ Update(e) \/ Delete(e)
  PROVE  Sound'
<1>1. records[e].version \in Nat
  BY DEF Sound, Typed, Records
<1>2. CASE CreateProject(e) \/ CreateBelow(e)
  BY <1>2, ChangeKeeps DEF CreateProject, CreateBelow
<1>3. CASE Update(e) \/ Delete(e)
  <2>1. PICK kind \in {"UPDATE", "DELETE"} :
          Change(e, kind, records[e].version, records[e].version + 1)
    BY <1>3 DEF Update, Delete
  <2>2. Exists(records[e])
    BY <1>3 DEF Update, Delete, Alive
  <2>3. records[e].version >= 1 /\ records[e].version + 1 \in Nat /\ records[e].version + 1 >= 1
    BY <1>1, <2>2 DEF Exists
  <2> QED
    BY <1>1, <2>1, <2>3, ChangeKeeps
<1> QED
  BY <1>2, <1>3

(* What a resolution does: the server is kept, or the edit is queued again.    *)
Settles(o) ==
  /\ conflicts[o].status = "PENDING"
  /\ conflicts' \in [1 .. MaxOps -> ConflictRecords]
  /\ conflicts'[o].status = "RESOLVED" /\ conflicts'[o].version = conflicts[o].version
  /\ conflicts'[o].edits = conflicts[o].edits
  /\ \A i \in 1 .. MaxOps : i # o => conflicts'[i] = conflicts[i]
  /\ ops'[o].status = "REJECTED"
  /\ \A i \in DOMAIN ops : i # o => ops'[i] = ops[i]
  /\ UNCHANGED <<server, cursor, loop, faults>>

KeepsServer(o) ==
  /\ Restamped
  /\ records' \in [Entities -> Records]
  /\ \/ records' = records /\ ~Alive(records[ops[o].entity])
     \/ /\ Alive(records[ops[o].entity])
        /\ records'[ops[o].entity].version = conflicts[o].version
        /\ records'[ops[o].entity].edits = conflicts[o].edits
        /\ ~records'[ops[o].entity].deleted
        /\ \A e \in Entities : e # ops[o].entity => records'[e] = records[e]

KeepsMine(o) ==
  /\ records' = records /\ ~records[ops[o].entity].deleted
  /\ \E x \in Operations :
       /\ Extends(x)
       /\ x.entity = ops[o].entity /\ x.kind = ops[o].kind /\ x.edit = ops[o].edit
       /\ x.status = "PENDING" /\ ~x.delayed
       /\ x.base \in {records[ops[o].entity].version, conflicts[o].version}
       /\ x.base >= conflicts[o].version /\ x.base >= records[ops[o].entity].version

LEMMA ResolveCases ==
  ASSUME Typed, NEW o \in DOMAIN ops, NEW r, Resolve(o, r)
  PROVE  Settles(o) /\ (KeepsServer(o) \/ KeepsMine(o))
<1>1. PICK e : e = ops[o].entity
  OBVIOUS
<1>2. PICK c : c = conflicts[o]
  OBVIOUS
<1>3. PICK newer : newer = IF records[e].version > c.version THEN records[e].version ELSE c.version
  OBVIOUS
<1>4. PICK new : new = Set({o}, "REJECTED")
  OBVIOUS
<1>5. /\ o \in 1 .. MaxOps /\ e \in Entities /\ c \in ConflictRecords
      /\ records \in [Entities -> Records] /\ conflicts \in [1 .. MaxOps -> ConflictRecords]
      /\ records[e] \in Records /\ ops[o] \in Operations /\ ops \in Seq(Operations)
      /\ Len(ops) \in Nat
  BY <1>1, <1>2, OperationTyped DEF Typed
<1>6. /\ c.status = "PENDING" /\ conflicts' = [conflicts EXCEPT ![o].status = "RESOLVED"]
      /\ UNCHANGED <<server, cursor, loop, faults>>
  BY <1>2 DEF Resolve
<1>7. /\ new \in Seq(Operations) /\ Len(new) = Len(ops) /\ DOMAIN new = DOMAIN ops
      /\ \A i \in DOMAIN ops :
           /\ Same(new[i], ops[i]) /\ new[i].delayed = ops[i].delayed
           /\ i \in {o} => new[i].status = "REJECTED"
           /\ i \notin {o} => new[i] = ops[i]
  <2>1. "REJECTED" \in Statuses
    BY DEF Statuses
  <2> QED
    BY <1>4, <1>5, <2>1, Marked
<1>8. PICK d : d = [c EXCEPT !.status = "RESOLVED"]
  OBVIOUS
<1>9. d \in ConflictRecords /\ d.status = "RESOLVED" /\ d.version = c.version /\ d.edits = c.edits
  BY <1>5, <1>8 DEF ConflictRecords
<1>10. /\ conflicts' \in [1 .. MaxOps -> ConflictRecords] /\ conflicts'[o] = d
       /\ \A i \in 1 .. MaxOps : i # o => conflicts'[i] = conflicts[i]
  BY <1>2, <1>5, <1>6, <1>8, <1>9
<1>11. CASE r = "KEEP_SERVER" \/ records[e].deleted
  <2>1. /\ ops' = new
        /\ records' = IF Alive(records[e])
                      THEN [records EXCEPT ![e] = [version |-> c.version, deleted |-> FALSE,
                                                   edits |-> c.edits]]
                      ELSE records
    BY <1>1, <1>2, <1>4, <1>11 DEF Resolve
  <2>2. Settles(o)
    BY <1>2, <1>6, <1>7, <1>9, <1>10, <2>1 DEF Settles
  <2>3. Restamped
    BY <1>7, <2>1 DEF Restamped
  <2>4. CASE ~Alive(records[e])
    BY <1>1, <1>5, <2>1, <2>2, <2>3, <2>4 DEF KeepsServer
  <2>5. CASE Alive(records[e])
    <3>1. PICK y : y = [version |-> c.version, deleted |-> FALSE, edits |-> c.edits]
      OBVIOUS
    <3>2. /\ y \in Records /\ y.version = c.version /\ ~y.deleted /\ y.edits = c.edits
      BY <1>5, <3>1 DEF Records, ConflictRecords
    <3>3. records' = [records EXCEPT ![e] = y]
      BY <2>1, <2>5, <3>1
    <3>4. /\ records' \in [Entities -> Records] /\ records'[e] = y
          /\ \A x \in Entities : x # e => records'[x] = records[x]
      BY <1>5, <3>2, <3>3
    <3> QED
      BY <1>1, <1>2, <2>2, <2>3, <2>5, <3>2, <3>4 DEF KeepsServer
  <2> QED
    BY <2>4, <2>5
<1>12. CASE ~(r = "KEEP_SERVER" \/ records[e].deleted)
  <2>1. PICK x : x = [ops[o] EXCEPT !.base = newer, !.status = "PENDING", !.delayed = FALSE]
    OBVIOUS
  <2>2. Len(ops) < MaxOps /\ ops' = Append(new, x) /\ records' = records
    BY <1>1, <1>2, <1>3, <1>4, <1>12, <2>1 DEF Resolve
  <2>3. /\ newer \in Nat /\ newer >= c.version /\ newer >= records[e].version
        /\ newer \in {records[e].version, c.version}
    BY <1>3, <1>5 DEF Records, ConflictRecords
  <2>4. /\ x \in Operations /\ x.entity = ops[o].entity /\ x.kind = ops[o].kind
        /\ x.edit = ops[o].edit /\ x.status = "PENDING" /\ ~x.delayed /\ x.base = newer
    <3>1. PICK y : y = ops[o]
      OBVIOUS
    <3>2. y \in Operations /\ x = [y EXCEPT !.base = newer, !.status = "PENDING", !.delayed = FALSE]
      BY <1>5, <2>1, <3>1
    <3>3. /\ x \in Operations /\ x.entity = y.entity /\ x.kind = y.kind
          /\ x.edit = y.edit /\ x.status = "PENDING" /\ ~x.delayed /\ x.base = newer
      BY <2>3, <3>2 DEF Operations, Statuses
    <3> QED
      BY <3>1, <3>3
  <2>5. Extends(x) /\ \A i \in DOMAIN ops : ops'[i] = new[i]
    BY <1>5, <1>7, <2>2, <2>4, QueueExtends
  <2>6. Settles(o)
    BY <1>2, <1>6, <1>7, <1>9, <1>10, <2>5 DEF Settles
  <2>7. KeepsMine(o)
    BY <1>1, <1>2, <1>12, <2>2, <2>3, <2>4, <2>5 DEF KeepsMine
  <2> QED
    BY <2>6, <2>7
<1> QED
  BY <1>11, <1>12

LEMMA ResolveKeeps ==
  ASSUME Sound, NEW o \in DOMAIN ops, NEW r, Resolve(o, r)
  PROVE  Sound'
<1>1. Typed /\ Counted /\ Requests /\ Decisions /\ Creations
  BY DEF Sound
<1>2. Settles(o) /\ (KeepsServer(o) \/ KeepsMine(o))
  BY <1>1, ResolveCases
<1>3. /\ o \in 1 .. MaxOps /\ ops[o].entity \in Entities /\ decided[o].status = "CONFLICT"
      /\ conflicts[o].version = decided[o].version /\ decided[o].version >= 1
      /\ ~Creates(o)
  <2>1. o \in 1 .. MaxOps /\ ops[o].entity \in Entities
    BY <1>1, OperationTyped
  <2>2. Decision(o) /\ Creation(o)
    BY <1>1, <2>1 DEF Decisions, Creations
  <2> QED
    BY <1>2, <2>1, <2>2 DEF Decision, Creation, Settles
<1>4. /\ feed' = feed /\ decided' = decided /\ window' = window /\ orphans' = orphans
      /\ cursor' = cursor /\ loop' = loop /\ faults' = faults
      /\ conflicts' \in [1 .. MaxOps -> ConflictRecords]
      /\ \A i \in 1 .. MaxOps : i # o => conflicts'[i] = conflicts[i]
  BY <1>2 DEF Settles, server
<1>5. DOMAIN ops \subseteq DOMAIN ops'
  BY <1>2 DEF KeepsServer, KeepsMine, Restamped, Extends
<1>6. Counted'
  BY <1>1, <1>4, CountedKept
<1>7. Requests'
  BY <1>1, <1>4, <1>5, LoopsKept
<1>8. \A i \in 1 .. MaxOps : Decision(i)'
  <2>1. ASSUME NEW i \in 1 .. MaxOps, i # o PROVE Decision(i)'
    BY <1>1, <1>4, <1>5, <2>1 DEF Decisions, Decision
  <2>2. Decision(o)'
    BY <1>1, <1>2, <1>3, <1>4, <1>5 DEF Decisions, Decision, Settles
  <2> QED
    BY <2>1, <2>2
<1>9. \A l \in Loops : Answered(l)'
  BY <1>1, <1>4 DEF Decisions, Answered, loop
<1>10. ASSUME KeepsServer(o)
       PROVE  Typed' /\ QueueMatchesServer' /\ Creations'
  <2>1. Restamped /\ records' \in [Entities -> Records]
    BY <1>10 DEF KeepsServer
  <2>2. Typed'
    BY <1>1, <1>4, <2>1 DEF Typed, Restamped, loop
  <2>3. QueueMatchesServer'
    BY <1>1, <1>2, <1>4, <2>1 DEF QueueMatchesServer, Restamped, Settles, Decisions
  <2>4. \A e \in Entities : Exists(records[e]) => Exists(records'[e])
    <3>1. conflicts[o].version > 0
      <4>1. conflicts[o].version \in Nat
        BY <1>1, <1>3 DEF Typed, ConflictRecords
      <4> QED
        BY <1>3, <4>1
    <3> QED
      BY <1>3, <1>10, <3>1 DEF KeepsServer, Exists
  <2>5. Creations'
    BY <1>1, <1>4, <2>1, <2>4, CreationsKept
  <2> QED
    BY <2>2, <2>3, <2>5
<1>11. ASSUME KeepsMine(o)
       PROVE  Typed' /\ QueueMatchesServer' /\ Creations'
  <2>1. PICK x \in Operations :
          /\ Extends(x)
          /\ x.entity = ops[o].entity /\ x.kind = ops[o].kind /\ x.edit = ops[o].edit
          /\ x.status = "PENDING"
          /\ x.base \in {records[ops[o].entity].version, conflicts[o].version}
          /\ x.base >= conflicts[o].version
    BY <1>11 DEF KeepsMine
  <2>2. records' = records
    BY <1>11 DEF KeepsMine
  <2>3. PICK new : new = Len(ops) + 1
    OBVIOUS
  <2>4. /\ ops' \in Seq(Operations) /\ Len(ops') <= MaxOps
        /\ DOMAIN ops' = DOMAIN ops \cup {new} /\ new \notin DOMAIN ops /\ ops'[new] = x
        /\ \A i \in DOMAIN ops : Same(ops'[i], ops[i])
    BY <2>1, <2>3 DEF Extends
  <2>5. Typed'
    BY <1>1, <1>4, <2>2, <2>4 DEF Typed, loop
  <2>6. QueueMatchesServer'
    BY <1>1, <1>2, <1>4, <2>1, <2>4 DEF QueueMatchesServer, Settles, Decisions
  <2>7. x.base # 0 /\ x.kind # "CREATE"
    <3>1. x.base \in Nat /\ conflicts[o].version \in Nat
      BY <1>1, <1>3 DEF Typed, ConflictRecords, Operations
    <3> QED
      BY <1>3, <2>1, <3>1 DEF Creates
  <2>8. ~Creates(new)' /\ ops'[new].base # 0
    BY <2>4, <2>7 DEF Creates
  <2>9. ASSUME NEW i \in DOMAIN ops PROVE Creation(i)'
    <3>1. Creation(i)
      BY <1>1 DEF Creations
    <3>2. Changes(ops[i].entity)' = Changes(ops[i].entity)
      BY <1>4, <2>4 DEF Changes, Same
    <3>3. \A j \in DOMAIN ops : /\ Creates(j)' <=> Creates(j)
                                /\ ops'[j].entity = ops[j].entity /\ ops'[j].base = ops[j].base
      BY <2>4 DEF Same, Creates
    <3>4. \A j \in DOMAIN ops' : Creates(j)' => j \in DOMAIN ops
      BY <2>4, <2>8
    <3>5. Creates(i) => \A j \in DOMAIN ops' : Creates(j)' /\ ops'[j].entity = ops'[i].entity => j = i
      BY <3>1, <3>3, <3>4 DEF Creation
    <3> QED
      BY <1>4, <2>2, <3>1, <3>2, <3>3, <3>5 DEF Creation
  <2>10. Creation(new)'
    BY <2>8 DEF Creation
  <2>11. Creations'
    BY <2>4, <2>9, <2>10 DEF Creations
  <2> QED
    BY <2>5, <2>6, <2>11
<1>12. Decisions'
  BY <1>2, <1>8, <1>9, <1>10, <1>11 DEF Decisions
<1> QED
  BY <1>2, <1>6, <1>7, <1>10, <1>11, <1>12 DEF Sound

-----------------------------------------------------------------------------
(* The steps that only queue again.                                         *)

LEMMA QuietKeeps ==
  ASSUME Sound, Restamped, \A i \in DOMAIN ops : ops'[i].status \in {ops[i].status, "PENDING"},
         UNCHANGED <<server, records, conflicts, cursor, loop, faults>>
  PROVE  Sound'
<1>1. Typed /\ Counted /\ Requests /\ Decisions /\ Creations
  BY DEF Sound
<1>2. /\ feed' = feed /\ decided' = decided /\ window' = window /\ orphans' = orphans
      /\ records' = records /\ conflicts' = conflicts
  BY DEF server
<1>3. Typed'
  BY <1>1, <1>2 DEF Typed, Restamped, loop
<1>4. Counted' /\ Requests'
  BY <1>1, <1>2, CountedKept, LoopsKept DEF Restamped
<1>5. Decisions'
  <2>1. \A i \in 1 .. MaxOps : Decision(i)'
    BY <1>1, <1>2, DecisionsKept DEF Decisions, Restamped
  <2>2. \A l \in Loops : Answered(l)'
    BY <1>1, <1>2 DEF Decisions, Answered, loop
  <2>3. QueueMatchesServer'
    BY <1>1, <1>2 DEF Decisions, QueueMatchesServer, Restamped
  <2> QED
    BY <2>1, <2>2, <2>3 DEF Decisions
<1>6. Creations'
  BY <1>1, <1>2, CreationsKept
<1> QED
  BY <1>3, <1>4, <1>5, <1>6 DEF Sound

LEMMA DelayEndsKeeps ==
  ASSUME Sound, NEW i \in DOMAIN ops, DelayEnds(i)
  PROVE  Sound'
<1>1. ops \in Seq(Operations)
  BY DEF Sound, Typed
<1>2. Restamped /\ \A j \in DOMAIN ops : ops'[j].status = ops[j].status
  BY <1>1, DelayRestamps DEF DelayEnds
<1> QED
  BY <1>2, QuietKeeps DEF DelayEnds

LEMMA RevalidatedKeeps ==
  ASSUME Sound, Revalidated
  PROVE  Sound'
<1>1. ops \in Seq(Operations)
  BY DEF Sound, Typed
<1>2. PICK held : held = {i \in DOMAIN ops : ops[i].status = "REQUIRES_REVALIDATION"}
  OBVIOUS
<1>3. /\ ops' = Requeue(held, FALSE)
      /\ UNCHANGED <<server, records, conflicts, cursor, loop, faults>>
  BY <1>2, Zenon DEF Revalidated
<1>4. /\ Restamped
      /\ \A i \in DOMAIN ops : i \in held => ops'[i].status = "PENDING"
      /\ \A i \in DOMAIN ops : i \notin held => ops'[i] = ops[i]
  BY <1>1, <1>3, RequeueRestamps
<1> QED
  BY <1>3, <1>4, QuietKeeps

(* A loop that gives up, with what it takes back.                            *)
LEMMA GivingUpKeeps ==
  ASSUME Sound, NEW l \in Loops, Restamped,
         \A i \in DOMAIN ops : ops'[i].status \in {ops[i].status, "PENDING"},
         faults' \in Seq(SUBSET (1 .. MaxOps)), Leave(l), Finish(l),
         UNCHANGED <<feed, decided, window, records, conflicts, cursor>>
  PROVE  Sound'
<1>1. Typed /\ Counted /\ Requests /\ Decisions /\ Creations
  BY DEF Sound
<1>2. DOMAIN ops' = DOMAIN ops
  BY DEF Restamped
<1>3. /\ orphans' \subseteq Seq(1 .. MaxOps)
      /\ \A s \in orphans' : s # <<>> /\ \A n \in DOMAIN s : s[n] \in DOMAIN ops'
  BY <1>1, <1>2, LeaveTyped
<1>4. /\ pc' \in [Loops -> Places] /\ batch' \in [Loops -> Seq(1 .. MaxOps)]
      /\ answers' \in [Loops -> Seq(Answers)]
      /\ \A k \in Loops : Request(k)' /\ Answered(k)'
  BY <1>1, <1>2, FinishKeeps DEF Decisions
<1>5. Typed'
  BY <1>1, <1>3, <1>4 DEF Typed, Restamped
<1>6. Counted' /\ Requests'
  BY <1>1, <1>3, <1>4, CountedKept DEF Requests
<1>7. Decisions'
  <2>1. \A i \in 1 .. MaxOps : Decision(i)'
    BY <1>1, DecisionsKept DEF Decisions, Restamped
  <2>2. QueueMatchesServer'
    BY <1>1 DEF Decisions, QueueMatchesServer, Restamped
  <2> QED
    BY <1>4, <2>1, <2>2 DEF Decisions
<1>8. Creations'
  BY <1>1, CreationsKept
<1> QED
  BY <1>5, <1>6, <1>7, <1>8 DEF Sound

LEMMA TransportFailsKeeps ==
  ASSUME Sound, NEW l \in Loops, TransportFails(l)
  PROVE  Sound'
<1>1. ops \in Seq(Operations)
  BY DEF Sound, Typed
<1>2. /\ ops' = Requeue(InBatch(l), TRUE) /\ faults' = Append(faults, {}) /\ Leave(l) /\ Finish(l)
      /\ UNCHANGED <<feed, decided, window, records, conflicts, cursor>>
  BY DEF TransportFails
<1>3. /\ Restamped
      /\ \A i \in DOMAIN ops : i \in InBatch(l) => ops'[i].status = "PENDING"
      /\ \A i \in DOMAIN ops : i \notin InBatch(l) => ops'[i] = ops[i]
  BY <1>1, <1>2, RequeueRestamps
<1>4. faults' \in Seq(SUBSET (1 .. MaxOps))
  BY <1>2, FaultNoted DEF Sound
<1> QED
  BY <1>2, <1>3, <1>4, GivingUpKeeps

LEMMA RestartKeeps ==
  ASSUME Sound, NEW l \in Loops, Restart(l)
  PROVE  Sound'
<1>1. ops \in Seq(Operations)
  BY DEF Sound, Typed
<1>2. PICK dangling : dangling = {i \in DOMAIN ops : ops[i].status = "SYNCING"}
  OBVIOUS
<1>3. /\ \E sweep \in Sweeps :
           /\ ops' = IF sweep THEN Requeue(dangling, FALSE) ELSE ops
           /\ faults' = Append(faults, IF sweep \/ ~InFlight(l) THEN {} ELSE InBatch(l))
      /\ Leave(l) /\ Finish(l)
      /\ UNCHANGED <<feed, decided, window, records, conflicts, cursor>>
  BY <1>2, Zenon DEF Restart
<1>4. Restamped /\ \A i \in DOMAIN ops : ops'[i].status \in {ops[i].status, "PENDING"}
  <2>1. CASE ops' = Requeue(dangling, FALSE)
    BY <1>1, <2>1, RequeueRestamps
  <2>2. CASE ops' = ops
    BY <1>1, <2>2, StillRestamps
  <2> QED
    BY <1>3, <2>1, <2>2
<1>5. faults' \in Seq(SUBSET (1 .. MaxOps))
  <2>1. InBatch(l) \subseteq 1 .. MaxOps
    BY QueueDomain DEF Sound, Typed, Requests, Request
  <2>2. PICK S \in SUBSET (1 .. MaxOps) : faults' = Append(faults, S)
    BY <1>3, <2>1
  <2> QED
    BY <2>2, FaultNoted DEF Sound
<1> QED
  BY <1>3, <1>4, <1>5, GivingUpKeeps

-----------------------------------------------------------------------------
(* The steps of a batch and of the server.                                   *)

LEMMA CollectKeeps ==
  ASSUME Sound, NEW l \in Loops, Collect(l)
  PROVE  Sound'
<1>1. Typed /\ Counted /\ Requests /\ Decisions /\ Creations
  BY DEF Sound
<1>2. PICK seq \in NextBatch : seq # <<>> /\ batch' = [batch EXCEPT ![l] = seq]
  BY DEF Collect
<1>3. /\ pc[l] = "idle" /\ pc' = [pc EXCEPT ![l] = "collected"]
      /\ UNCHANGED <<server, client, answers, faults>>
  BY DEF Collect
<1>4. /\ seq \in Seq(1 .. MaxOps) /\ Len(seq) <= BatchSize
      /\ \A n \in DOMAIN seq : seq[n] \in DOMAIN ops
  BY <1>1, BatchFits DEF Typed
<1>5. /\ feed' = feed /\ decided' = decided /\ window' = window /\ orphans' = orphans
      /\ records' = records /\ ops' = ops /\ conflicts' = conflicts /\ cursor' = cursor
      /\ answers' = answers /\ faults' = faults
  BY <1>3 DEF server, client
<1>6. /\ pc' \in [Loops -> Places] /\ batch' \in [Loops -> Seq(1 .. MaxOps)]
      /\ pc'[l] = "collected" /\ batch'[l] = seq
      /\ \A k \in Loops : k # l => pc'[k] = pc[k] /\ batch'[k] = batch[k]
      /\ answers[l] = <<>> /\ DOMAIN <<>> = {}
  <2>1. /\ pc \in [Loops -> Places] /\ batch \in [Loops -> Seq(1 .. MaxOps)]
        /\ "collected" \in Places
    BY <1>1 DEF Typed, Places
  <2>2. answers[l] = <<>>
    BY <1>1, <1>3 DEF Requests, Request
  <2> QED
    BY <1>2, <1>3, <1>4, <2>1, <2>2
<1>7. Typed'
  BY <1>1, <1>5, <1>6 DEF Typed
<1>8. Counted' /\ Creations'
  <2>1. Restamped
    BY <1>1, <1>5, StillRestamps DEF Typed
  <2> QED
    BY <1>1, <1>5, <2>1, CountedKept, CreationsKept
<1>9. Requests'
  <2>1. Request(l)'
    BY <1>2, <1>4, <1>5, <1>6 DEF Request, InBatch
  <2>2. \A k \in Loops : k # l => Request(k)'
    BY <1>1, <1>5, <1>6, RequestKept
  <2> QED
    BY <1>1, <1>5, <2>1, <2>2 DEF Requests
<1>10. Decisions'
  <2>1. Answered(l)'
    BY <1>5, <1>6 DEF Answered
  <2>2. \A k \in Loops : k # l => Answered(k)'
    BY <1>1, <1>5, <1>6, AnsweredKept DEF Decisions
  <2> QED
    BY <1>1, <1>5, <2>1, <2>2, DecisionsKept DEF Decisions, QueueMatchesServer
<1> QED
  BY <1>7, <1>8, <1>9, <1>10 DEF Sound

LEMMA SendKeeps ==
  ASSUME Sound, NEW l \in Loops, Send(l)
  PROVE  Sound'
<1>1. Typed /\ Counted /\ Requests /\ Decisions /\ Creations
  BY DEF Sound
<1>2. /\ pc[l] = "collected" /\ pc' = [pc EXCEPT ![l] = "sent"]
      /\ ops' = Set(InBatch(l), "SYNCING")
      /\ UNCHANGED <<server, records, conflicts, cursor, batch, answers, faults>>
  BY DEF Send
<1>3. /\ Restamped
      /\ \A i \in DOMAIN ops : i \in InBatch(l) => ops'[i].status = "SYNCING"
      /\ \A i \in DOMAIN ops : i \notin InBatch(l) => ops'[i] = ops[i]
  <2>1. ops \in Seq(Operations) /\ "SYNCING" \in Statuses
    BY <1>1 DEF Typed, Statuses
  <2> QED
    BY <1>2, <2>1, MarkRestamps
<1>4. /\ feed' = feed /\ decided' = decided /\ window' = window /\ orphans' = orphans
  BY <1>2 DEF server
<1>5. pc' \in [Loops -> Places] /\ pc'[l] = "sent" /\ \A k \in Loops : k # l => pc'[k] = pc[k]
  <2>1. pc \in [Loops -> Places] /\ "sent" \in Places
    BY <1>1 DEF Typed, Places
  <2> QED
    BY <1>2, <2>1
<1>6. Typed'
  BY <1>1, <1>2, <1>3, <1>4, <1>5 DEF Typed, Restamped
<1>7. Counted' /\ Creations'
  BY <1>1, <1>2, <1>3, <1>4, CountedKept, CreationsKept
<1>8. Requests'
  <2>1. Request(l)'
    <3>1. Request(l) /\ pc[l] = "collected" /\ batch' = batch /\ answers' = answers
      BY <1>1, <1>2 DEF Requests
    <3>2. batch[l] # <<>> /\ answers[l] = <<>> /\ Len(batch[l]) <= BatchSize
          /\ InBatch(l) \subseteq DOMAIN ops
      BY <3>1 DEF Request
    <3>3. InBatch(l)' = InBatch(l) /\ DOMAIN ops' = DOMAIN ops
      BY <1>3, <3>1 DEF InBatch, Restamped
    <3> QED
      BY <1>5, <3>1, <3>2, <3>3 DEF Request
  <2>2. \A k \in Loops : k # l => Request(k)'
    BY <1>1, <1>2, <1>3, <1>5, RequestKept DEF Restamped
  <2> QED
    BY <1>1, <1>3, <1>4, <2>1, <2>2 DEF Requests, Restamped
<1>9. Decisions'
  <2>1. \A k \in Loops : Answered(k)'
    BY <1>1, <1>2, <1>4, AnsweredKept DEF Decisions
  <2>2. QueueMatchesServer'
    BY <1>1, <1>3, <1>4 DEF Decisions, QueueMatchesServer, Restamped
  <2> QED
    BY <1>1, <1>2, <1>3, <1>4, <2>1, <2>2, DecisionsKept DEF Decisions, Restamped
<1> QED
  BY <1>6, <1>7, <1>8, <1>9 DEF Sound

LEMMA GateKeeps ==
  ASSUME Sound, NEW l \in Loops, Gate(l)
  PROVE  Sound'
<1>1. Typed /\ Counted /\ Requests /\ Decisions /\ Creations
  BY DEF Sound
<1>2. pc[l] = "sent" /\ UNCHANGED <<server, client, batch, faults>>
  BY DEF Gate
<1>3. /\ feed' = feed /\ decided' = decided /\ window' = window /\ orphans' = orphans
      /\ records' = records /\ ops' = ops /\ conflicts' = conflicts /\ cursor' = cursor
      /\ batch' = batch /\ faults' = faults
  BY <1>2 DEF server, client
<1>4. /\ pc \in [Loops -> Places] /\ batch \in [Loops -> Seq(1 .. MaxOps)]
      /\ answers \in [Loops -> Seq(Answers)]
      /\ Request(l) /\ answers[l] = <<>> /\ batch[l] # <<>> /\ Len(<<>>) = 0 /\ DOMAIN <<>> = {}
      /\ Len(batch[l]) \in Nat /\ DOMAIN batch[l] = 1 .. Len(batch[l]) /\ Len(batch[l]) >= 1
  BY <1>1, <1>2, LoopTyped DEF Typed, Requests, Request
<1>5. /\ pc' \in [Loops -> Places] /\ answers' \in [Loops -> Seq(Answers)]
      /\ \A k \in Loops : k # l => pc'[k] = pc[k] /\ answers'[k] = answers[k]
      /\ Request(l)' /\ Answered(l)'
  <2>1. CASE window = "active"
    <3>1. pc' = [pc EXCEPT ![l] = "served"] /\ answers' = answers
      BY <2>1 DEF Gate
    <3>2. /\ pc' \in [Loops -> Places] /\ pc'[l] = "served"
          /\ \A k \in Loops : k # l => pc'[k] = pc[k]
      BY <1>4, <3>1 DEF Places
    <3> QED
      BY <1>2, <1>3, <1>4, <3>1, <3>2 DEF Request, Answered, InBatch
  <2>2. CASE window # "active"
    <3>1. PICK a : a = Plain(IF window = "revoked" THEN "DEVICE_REVOKED" ELSE "REQUIRES_REVALIDATION")
      OBVIOUS
    <3>2. a \in Answers /\ a.status \in {"DEVICE_REVOKED", "REQUIRES_REVALIDATION"}
      <4>1. CASE window = "revoked"
        BY <3>1, <4>1, PlainTyped DEF Statuses
      <4>2. CASE window # "revoked"
        BY <3>1, <4>2, PlainTyped DEF Statuses
      <4> QED
        BY <4>1, <4>2
    <3>3. PICK f : f = [n \in DOMAIN batch[l] |-> a]
      OBVIOUS
    <3>4. pc' = [pc EXCEPT ![l] = "answered"] /\ answers' = [answers EXCEPT ![l] = f]
      BY <2>2, <3>1, <3>3 DEF Gate
    <3>5. f \in [1 .. Len(batch[l]) -> Answers]
      BY <1>4, <3>2, <3>3
    <3>6. f \in Seq(Answers) /\ Len(f) = Len(batch[l])
      BY <1>4, <3>5, FunctionIsSequence
    <3>7. /\ pc' \in [Loops -> Places] /\ pc'[l] = "answered"
          /\ answers' \in [Loops -> Seq(Answers)] /\ answers'[l] = f
          /\ \A k \in Loops : k # l => pc'[k] = pc[k] /\ answers'[k] = answers[k]
      BY <1>4, <3>4, <3>6 DEF Places
    <3>8. Request(l)'
      BY <1>2, <1>3, <1>4, <3>6, <3>7 DEF Request, InBatch
    <3>9. \A n \in DOMAIN f : f[n].status \in {"DEVICE_REVOKED", "REQUIRES_REVALIDATION"}
      BY <3>2, <3>3
    <3>10. Answered(l)'
      BY <3>7, <3>9 DEF Answered, Final
    <3> QED
      BY <3>7, <3>8, <3>10
  <2> QED
    BY <2>1, <2>2
<1>6. Typed'
  BY <1>1, <1>3, <1>5 DEF Typed
<1>7. Counted' /\ Creations'
  <2>1. Restamped
    BY <1>1, <1>3, StillRestamps DEF Typed
  <2> QED
    BY <1>1, <1>3, <2>1, CountedKept, CreationsKept
<1>8. \A k \in Loops : k # l => Request(k)' /\ Answered(k)'
  BY <1>1, <1>3, <1>5, RequestKept, AnsweredKept DEF Decisions
<1>9. Requests' /\ Decisions'
  BY <1>1, <1>3, <1>5, <1>8, DecisionsKept DEF Requests, Decisions, QueueMatchesServer
<1> QED
  BY <1>6, <1>7, <1>9 DEF Sound

(* An operation is decided, for a loop or for a request that was left.        *)
LEMMA DecisionKeeps ==
  ASSUME Sound, NEW o \in DOMAIN ops, Repeats \/ Applies(o) \/ TurnsDown(o),
         UNCHANGED <<window, client>>
  PROVE  /\ Decided /\ Counted' /\ Creations' /\ QueueMatchesServer'
         /\ \A i \in 1 .. MaxOps : Decision(i)'
         /\ feed' \in Seq(Entries) /\ decided' \in [1 .. MaxOps -> Answers]
         /\ cursor' \in 0 .. Len(feed')
         /\ window' = window /\ records' = records /\ ops' = ops /\ conflicts' = conflicts
<1>1. Typed /\ Counted /\ Requests /\ Decisions /\ Creations
  BY DEF Sound
<1>2. /\ window' = window /\ records' = records /\ ops' = ops /\ conflicts' = conflicts
      /\ cursor' = cursor
  BY DEF client
<1>3. Decided
  BY <1>1, DecisionsStand
<1>4. Creations'
  BY <1>1, <1>2, CreationKept DEF Decisions
<1>5. QueueMatchesServer'
  BY <1>1, <1>2, <1>3, QueueStillMatches DEF Decisions
<1>6. \A i \in 1 .. MaxOps : Decision(i)'
  BY <1>1, <1>2, DecisionKept DEF Decisions
<1>7. cursor' \in 0 .. Len(feed')
  <2>1. cursor \in 0 .. Len(feed) /\ Len(feed) \in Nat /\ Len(feed') \in Nat
    BY <1>1, <1>3 DEF Typed, Decided
  <2> QED
    BY <1>2, <1>3, <2>1 DEF Decided
<1> QED
  BY <1>2, <1>3, <1>4, <1>5, <1>6, <1>7 DEF Decided

LEMMA ServeKeeps ==
  ASSUME Sound, NEW l \in Loops, Serve(l)
  PROVE  Sound'
<1>1. Typed /\ Counted /\ Requests /\ Decisions /\ Creations
  BY DEF Sound
<1>2. pc[l] = "served" /\ UNCHANGED <<window, orphans, client, batch>>
  BY DEF Serve
<1>3. PICK o : o = Head(Rest(l))
  OBVIOUS
<1>4. PICK answer : /\ Evaluate(o, answer)
                    /\ answers' = [answers EXCEPT ![l] = Append(answers[l], answer)]
  BY <1>3 DEF Serve
<1>5. PICK k : k = Len(answers[l]) + 1
  OBVIOUS
<1>6. /\ Len(Rest(l)) = Len(batch[l]) - Len(answers[l])
      /\ k \in DOMAIN batch[l] /\ o = batch[l][k] /\ o \in DOMAIN ops
      /\ Len(batch[l]) \in Nat /\ Len(answers[l]) \in Nat /\ Len(answers[l]) < Len(batch[l])
      /\ answers[l] \in Seq(Answers) /\ Request(l)
  BY <1>1, <1>2, <1>3, <1>5, RestTyped, LoopTyped DEF Requests, Request
<1>7. /\ answer \in Answers
      /\ answer.status \in {"APPLIED", "CONFLICT", "REJECTED", "UNAUTHORIZED"}
      /\ answer.status \in {"APPLIED", "CONFLICT"} => decided'[o] = answer
      /\ faults' \in Seq(SUBSET (1 .. MaxOps))
      /\ Repeats \/ Applies(o) \/ TurnsDown(o)
  <2>1. Decision(o)
    BY <1>1, <1>6, OperationTyped DEF Decisions
  <2> QED
    BY <1>1, <1>4, <1>6, <2>1, EvaluateCases
<1>8. /\ Decided /\ Counted' /\ Creations' /\ QueueMatchesServer'
      /\ \A i \in 1 .. MaxOps : Decision(i)'
      /\ feed' \in Seq(Entries) /\ decided' \in [1 .. MaxOps -> Answers]
      /\ cursor' \in 0 .. Len(feed')
      /\ window' = window /\ records' = records /\ ops' = ops /\ conflicts' = conflicts
  BY <1>2, <1>6, <1>7, DecisionKeeps
<1>9. PICK list : list = Append(answers[l], answer)
  OBVIOUS
<1>10. /\ list \in Seq(Answers) /\ Len(list) = Len(answers[l]) + 1
       /\ DOMAIN list = DOMAIN answers[l] \cup {k} /\ list[k] = answer
       /\ \A n \in DOMAIN answers[l] : list[n] = answers[l][n]
  BY <1>5, <1>6, <1>7, <1>9, Extended
<1>11. /\ pc' = [pc EXCEPT ![l] = IF Len(Rest(l)) = 1 THEN "answered" ELSE "served"]
       /\ answers' = [answers EXCEPT ![l] = list] /\ batch' = batch /\ orphans' = orphans
  BY <1>2, <1>4, <1>9 DEF Serve
<1>12. /\ pc' \in [Loops -> Places] /\ answers' \in [Loops -> Seq(Answers)]
       /\ answers'[l] = list
       /\ pc'[l] = IF Len(Rest(l)) = 1 THEN "answered" ELSE "served"
       /\ \A m \in Loops : m # l => pc'[m] = pc[m] /\ answers'[m] = answers[m]
  <2>1. /\ pc \in [Loops -> Places] /\ answers \in [Loops -> Seq(Answers)]
        /\ "answered" \in Places /\ "served" \in Places
    BY <1>1 DEF Typed, Places
  <2> QED
    BY <1>10, <1>11, <2>1
<1>13. Typed'
  BY <1>1, <1>7, <1>8, <1>11, <1>12 DEF Typed
<1>14. Requests'
  <2>1. Request(l)'
    <3>1. InBatch(l)' = InBatch(l) /\ batch'[l] = batch[l] /\ DOMAIN ops' = DOMAIN ops
      BY <1>8, <1>11 DEF InBatch
    <3>2. batch[l] # <<>> /\ Len(batch[l]) <= BatchSize /\ InBatch(l) \subseteq DOMAIN ops
      BY <1>2, <1>6 DEF Request
    <3>3. CASE Len(Rest(l)) = 1
      <4>0. Len(list) = Len(batch[l])
        <5>1. Len(answers[l]) + 1 = Len(batch[l])
          <6>1. /\ 1 = Len(batch[l]) - Len(answers[l])
                /\ Len(batch[l]) \in Nat /\ Len(answers[l]) \in Nat
            BY <1>6, <3>3
          <6> QED
            BY <6>1
        <5> QED
          BY <1>10, <5>1
      <4>1. pc'[l] = "answered" /\ Len(answers'[l]) = Len(batch'[l])
        BY <1>12, <3>1, <3>3, <4>0
      <4> QED
        BY <3>1, <3>2, <4>1 DEF Request
    <3>4. CASE Len(Rest(l)) # 1
      <4>0. Len(list) < Len(batch[l])
        <5>1. Len(answers[l]) + 1 # Len(batch[l])
          BY <1>6, <3>4
        <5> QED
          BY <1>6, <1>10, <5>1
      <4>1. pc'[l] = "served" /\ Len(answers'[l]) < Len(batch'[l])
        BY <1>12, <3>1, <3>4, <4>0
      <4> QED
        BY <3>1, <3>2, <4>1 DEF Request
    <3> QED
      BY <3>3, <3>4
  <2>2. \A m \in Loops : m # l => Request(m)'
    BY <1>1, <1>8, <1>11, <1>12, RequestKept
  <2> QED
    BY <1>1, <1>8, <1>11, <2>1, <2>2 DEF Requests
<1>15. Decisions'
  <2>1. Answered(l)'
    <3>1. ASSUME NEW n \in DOMAIN answers[l]
          PROVE  /\ list[n].status \in Final
                 /\ list[n].status \in {"APPLIED", "CONFLICT"} => decided'[batch[l][n]] = list[n]
      <4>1. /\ list[n] = answers[l][n] /\ list[n].status \in Final
            /\ list[n].status \in {"APPLIED", "CONFLICT"} => decided[batch[l][n]] = list[n]
        BY <1>1, <1>10 DEF Decisions, Answered
      <4>2. batch[l][n] \in 1 .. MaxOps
        BY <1>1, LoopTyped
      <4>3. list[n].status \in {"APPLIED", "CONFLICT"} => decided[batch[l][n]] # NoAnswer
        BY <4>1, PlainAnswers
      <4> QED
        BY <1>8, <4>1, <4>2, <4>3 DEF Decided
    <3>2. /\ list[k].status \in Final
          /\ list[k].status \in {"APPLIED", "CONFLICT"} => decided'[batch[l][k]] = list[k]
      BY <1>6, <1>7, <1>10 DEF Final
    <3> QED
      BY <1>10, <1>11, <1>12, <3>1, <3>2 DEF Answered
  <2>2. \A m \in Loops : m # l => Answered(m)'
    BY <1>1, <1>8, <1>11, <1>12, AnsweredKept DEF Decisions, Decided
  <2> QED
    BY <1>8, <2>1, <2>2 DEF Decisions
<1> QED
  BY <1>8, <1>13, <1>14, <1>15 DEF Sound

LEMMA ServeOrphanKeeps ==
  ASSUME Sound, NEW s \in orphans, ServeOrphan(s)
  PROVE  Sound'
<1>1. Typed /\ Counted /\ Requests /\ Decisions /\ Creations
  BY DEF Sound
<1>2. UNCHANGED <<window, client, loop>>
  BY DEF ServeOrphan
<1>3. PICK o : o = Head(s)
  OBVIOUS
<1>4. PICK answer : Evaluate(o, answer)
  BY <1>3 DEF ServeOrphan
<1>5. s \in Seq(1 .. MaxOps) /\ s # <<>> /\ \A n \in DOMAIN s : s[n] \in DOMAIN ops
  BY <1>1 DEF Typed, Requests
<1>6. PICK R : R = 1 .. MaxOps
  OBVIOUS
<1>7. s \in Seq(R)
  BY <1>5, <1>6
<1>8. /\ Len(s) \in Nat /\ Len(s) >= 1 /\ DOMAIN s = 1 .. Len(s) /\ Head(s) = s[1]
      /\ Tail(s) \in Seq(R) /\ Len(Tail(s)) = Len(s) - 1
      /\ \A n \in 1 .. Len(s) - 1 : Tail(s)[n] = s[n + 1]
  BY <1>5, <1>7
<1>9. o \in DOMAIN ops
  BY <1>3, <1>5, <1>8
<1>10. /\ faults' \in Seq(SUBSET (1 .. MaxOps))
       /\ Repeats \/ Applies(o) \/ TurnsDown(o)
  <2>1. Decision(o)
    BY <1>1, <1>9, OperationTyped DEF Decisions
  <2> QED
    BY <1>1, <1>4, <1>9, <2>1, EvaluateCases
<1>11. /\ Decided /\ Counted' /\ Creations' /\ QueueMatchesServer'
       /\ \A i \in 1 .. MaxOps : Decision(i)'
       /\ feed' \in Seq(Entries) /\ decided' \in [1 .. MaxOps -> Answers]
       /\ cursor' \in 0 .. Len(feed')
       /\ window' = window /\ records' = records /\ ops' = ops /\ conflicts' = conflicts
  BY <1>2, <1>9, <1>10, DecisionKeeps
<1>12. ASSUME Len(s) # 1
       PROVE  Tail(s) \in Seq(R) /\ Tail(s) # <<>> /\ \A n \in DOMAIN Tail(s) : Tail(s)[n] \in DOMAIN ops
  <2>1. DOMAIN Tail(s) = 1 .. Len(s) - 1
    BY <1>8, SequenceData
  <2>2. \A n \in 1 .. Len(s) - 1 : n + 1 \in DOMAIN s
    BY <1>8
  <2>3. Len(Tail(s)) # 0
    BY <1>8, <1>12
  <2> QED
    BY <1>5, <1>8, <2>1, <2>2, <2>3
<1>13. /\ orphans' \subseteq Seq(1 .. MaxOps)
       /\ \A r \in orphans' : r # <<>> /\ \A n \in DOMAIN r : r[n] \in DOMAIN ops
  <2>1. /\ orphans \subseteq Seq(1 .. MaxOps)
        /\ \A r \in orphans : r # <<>> /\ \A n \in DOMAIN r : r[n] \in DOMAIN ops
    BY <1>1 DEF Typed, Requests
  <2>2. orphans' = (orphans \ {s}) \cup (IF Len(s) = 1 THEN {} ELSE {Tail(s)})
    BY DEF ServeOrphan
  <2>3. CASE Len(s) = 1
    BY <2>1, <2>2, <2>3
  <2>4. CASE Len(s) # 1
    <3>1. orphans' = (orphans \ {s}) \cup {Tail(s)}
      BY <2>2, <2>4
    <3> QED
      BY <1>6, <1>12, <2>1, <2>4, <3>1
  <2> QED
    BY <2>3, <2>4
<1>14. Typed'
  BY <1>1, <1>2, <1>10, <1>11, <1>13 DEF Typed, loop
<1>15. Requests'
  <2>1. \A l \in Loops : Request(l)'
    BY <1>1, <1>2, <1>11, RequestKept DEF loop
  <2> QED
    BY <1>11, <1>13, <2>1 DEF Requests
<1>16. Decisions'
  <2>1. \A l \in Loops : Answered(l)'
    BY <1>1, <1>2, <1>11, AnsweredKept DEF Decisions, Decided, loop
  <2> QED
    BY <1>11, <2>1 DEF Decisions
<1> QED
  BY <1>11, <1>14, <1>15, <1>16 DEF Sound

(* The report of a batch, operation by operation.                            *)
Told(o, a) ==
  /\ a \in Answers
  /\ \/ /\ a.status = "APPLIED" /\ decided[o] = a
        /\ ops'[o].status = "SYNCED" /\ conflicts'[o] = conflicts[o]
     \/ /\ a.status = "CONFLICT" /\ a.type = "EDIT_DELETE" /\ decided[o] = a
        /\ ops'[o].status = "REJECTED"
        /\ conflicts'[o] = [status |-> "RESOLVED", version |-> a.version, edits |-> a.edits]
     \/ /\ a.status = "CONFLICT" /\ a.type = "EDIT_EDIT" /\ decided[o] = a
        /\ ops'[o].status = "CONFLICT"
        /\ conflicts'[o] = [status |-> "PENDING", version |-> a.version, edits |-> a.edits]
     \/ /\ a.status = "UNAUTHORIZED"
        /\ ops'[o] = ops[o] /\ conflicts'[o] = conflicts[o]
     \/ /\ a.status \in {"REJECTED", "DEVICE_REVOKED", "REQUIRES_REVALIDATION"}
        /\ ops'[o].status = a.status /\ conflicts'[o] = conflicts[o]

LEMMA ReplyCases ==
  ASSUME Sound, NEW l \in Loops, Reply(l)
  PROVE  /\ Restamped /\ Finish(l) /\ conflicts' \in [1 .. MaxOps -> ConflictRecords]
         /\ UNCHANGED <<server, records, cursor, faults>>
         /\ InBatch(l) \subseteq DOMAIN ops /\ pc[l] = "answered"
         /\ \A o \in 1 .. MaxOps : o \notin InBatch(l) => conflicts'[o] = conflicts[o]
         /\ \A o \in DOMAIN ops : o \notin InBatch(l) => ops'[o] = ops[o]
         /\ \A o \in InBatch(l) :
              \E n \in DOMAIN answers[l] : batch[l][n] = o /\ Told(o, answers[l][n])
<1> DEFINE at(o) == CHOOSE n \in DOMAIN batch[l] : batch[l][n] = o
           answer(o) == answers[l][at(o)]
<1>1. Typed /\ Counted /\ Requests /\ Decisions /\ Creations
  BY DEF Sound
<1>2. /\ pc[l] = "answered" /\ Finish(l) /\ UNCHANGED <<server, records, cursor, faults>>
      /\ ops' = [o \in DOMAIN ops |->
                   IF o \notin InBatch(l) \/ answer(o).status = "UNAUTHORIZED" THEN ops[o]
                   ELSE [ops[o] EXCEPT !.status = StatusAfter(answer(o)),
                                       !.delayed = @ /\ answer(o).status # "APPLIED"]]
      /\ conflicts' = [o \in DOMAIN conflicts |->
                         IF o \in InBatch(l) /\ answer(o).status = "CONFLICT"
                         THEN ConflictFrom(answer(o)) ELSE conflicts[o]]
  BY Zenon DEF Reply
<1>3. /\ DOMAIN batch[l] = DOMAIN answers[l] /\ InBatch(l) \subseteq DOMAIN ops
      /\ InBatch(l) \subseteq 1 .. MaxOps /\ answers[l] \in Seq(Answers)
      /\ ops \in Seq(Operations) /\ DOMAIN ops \subseteq 1 .. MaxOps
      /\ conflicts \in [1 .. MaxOps -> ConflictRecords]
      /\ \A o \in DOMAIN ops : ops[o] \in Operations
  <2>1. Len(answers[l]) = Len(batch[l])
    BY <1>1, <1>2 DEF Requests, Request
  <2>2. DOMAIN batch[l] = DOMAIN answers[l]
    BY <1>1, <2>1, LoopTyped
  <2> QED
    BY <1>1, <2>2, LoopTyped, BatchMember, OperationTyped DEF Typed
<1>4. ASSUME NEW o \in InBatch(l)
      PROVE  /\ at(o) \in DOMAIN answers[l] /\ batch[l][at(o)] = o
             /\ answer(o) \in Answers /\ answer(o).status \in Final
             /\ answer(o).status \in {"APPLIED", "CONFLICT"} => decided[o] = answer(o)
             /\ answer(o).status = "CONFLICT" => answer(o).type \in {"EDIT_EDIT", "EDIT_DELETE"}
  <2>1. \E n \in DOMAIN batch[l] : batch[l][n] = o
    BY DEF InBatch
  <2>2. at(o) \in DOMAIN batch[l] /\ batch[l][at(o)] = o
    BY <2>1
  <2> HIDE DEF at
  <2>3. at(o) \in DOMAIN answers[l] /\ answers[l][at(o)] \in Answers
    BY <1>3, <2>2
  <2>4. /\ answer(o).status \in Final
        /\ answer(o).status \in {"APPLIED", "CONFLICT"} => decided[o] = answer(o)
    BY <1>1, <2>2, <2>3 DEF Decisions, Answered
  <2>5. answer(o).status = "CONFLICT" => answer(o).type \in {"EDIT_EDIT", "EDIT_DELETE"}
    BY <1>1, <1>3, <2>4 DEF Decisions, Decision
  <2> QED
    BY <2>2, <2>3, <2>4, <2>5
<1>5. ASSUME NEW o \in InBatch(l)
      PROVE  /\ StatusAfter(answer(o)) \in Statuses \cup {"UNAUTHORIZED"}
             /\ answer(o).status = "APPLIED" => StatusAfter(answer(o)) = "SYNCED"
             /\ answer(o).status = "CONFLICT" /\ answer(o).type = "EDIT_DELETE" =>
                  StatusAfter(answer(o)) = "REJECTED"
             /\ answer(o).status = "CONFLICT" /\ answer(o).type = "EDIT_EDIT" =>
                  StatusAfter(answer(o)) = "CONFLICT"
             /\ answer(o).status \notin {"APPLIED", "CONFLICT"} =>
                  StatusAfter(answer(o)) = answer(o).status
  <2>1. PICK a : a = answer(o)
    OBVIOUS
  <2>2. a.status \in Final
    BY <1>4, <2>1
  <2> HIDE DEF answer
  <2>3. /\ StatusAfter(a) \in Statuses \cup {"UNAUTHORIZED"}
        /\ a.status = "APPLIED" => StatusAfter(a) = "SYNCED"
        /\ a.status = "CONFLICT" /\ a.type = "EDIT_DELETE" => StatusAfter(a) = "REJECTED"
        /\ a.status = "CONFLICT" /\ a.type = "EDIT_EDIT" => StatusAfter(a) = "CONFLICT"
        /\ a.status \notin {"APPLIED", "CONFLICT"} => StatusAfter(a) = a.status
    BY <2>2 DEF StatusAfter, Statuses, Final
  <2> QED
    BY <2>1, <2>3
<1> HIDE DEF at, answer
<1>6. ASSUME NEW o \in InBatch(l), answer(o).status = "UNAUTHORIZED" PROVE ops'[o] = ops[o]
  BY <1>2, <1>3, <1>6
<1>7. ASSUME NEW o \in InBatch(l), answer(o).status # "UNAUTHORIZED"
      PROVE  /\ ops'[o] \in Operations /\ Same(ops'[o], ops[o])
             /\ ops'[o].status = StatusAfter(answer(o))
  <2>1. PICK b : b = (answer(o).status # "APPLIED")
    OBVIOUS
  <2>2. PICK s : s = StatusAfter(answer(o))
    OBVIOUS
  <2>3. PICK x : x = ops[o]
    OBVIOUS
  <2>4. PICK y : y = ops'[o]
    OBVIOUS
  <2>5. s \in Statuses
    BY <1>4, <1>5, <1>7, <2>2 DEF Statuses, Final
  <2>6. x \in Operations
    BY <1>3, <2>3
  <2>7. y = [x EXCEPT !.status = s, !.delayed = @ /\ b]
    BY <1>2, <1>3, <1>7, <2>1, <2>2, <2>3, <2>4
  <2>8. y \in Operations /\ Same(y, x) /\ y.status = s
    <3>1. PICK d : d = (x.delayed /\ b)
      OBVIOUS
    <3>2. d \in BOOLEAN
      BY <2>6, <3>1 DEF Operations
    <3>3. y = [x EXCEPT !.status = s, !.delayed = d]
      BY <2>7, <3>1
    <3> QED
      BY <2>5, <2>6, <3>2, <3>3 DEF Operations, Same
  <2> QED
    BY <2>2, <2>3, <2>4, <2>8
<1>8. \A o \in DOMAIN ops : o \notin InBatch(l) => ops'[o] = ops[o]
  BY <1>2
<1>9. Restamped
  <2>1. DOMAIN ops' = DOMAIN ops /\ ops' = [o \in DOMAIN ops |-> ops'[o]]
    BY <1>2
  <2>2. \A o \in DOMAIN ops : ops'[o] \in Operations /\ Same(ops'[o], ops[o])
    BY <1>3, <1>6, <1>7, <1>8 DEF Same
  <2>3. ops' \in Seq(Operations) /\ Len(ops') = Len(ops)
    BY <1>3, <2>1, <2>2, OpsSequence
  <2> QED
    BY <2>1, <2>2, <2>3 DEF Restamped
<1>10. ASSUME NEW o \in InBatch(l)
       PROVE  /\ answer(o).status # "CONFLICT" => conflicts'[o] = conflicts[o]
              /\ answer(o).status = "CONFLICT" =>
                   conflicts'[o] = [status |-> IF answer(o).type = "EDIT_DELETE" THEN "RESOLVED"
                                               ELSE "PENDING",
                                    version |-> answer(o).version, edits |-> answer(o).edits]
  BY <1>2, <1>3 DEF ConflictFrom
<1>11. /\ \A o \in 1 .. MaxOps : o \notin InBatch(l) => conflicts'[o] = conflicts[o]
       /\ DOMAIN conflicts' = 1 .. MaxOps /\ conflicts' = [o \in 1 .. MaxOps |-> conflicts'[o]]
  BY <1>2, <1>3
<1>12. conflicts' \in [1 .. MaxOps -> ConflictRecords]
  <2>1. ASSUME NEW o \in InBatch(l) PROVE conflicts'[o] \in ConflictRecords
    <3>1. CASE answer(o).status # "CONFLICT"
      BY <1>3, <1>10, <3>1
    <3>2. CASE answer(o).status = "CONFLICT"
      <4>1. PICK a : a = answer(o)
        OBVIOUS
      <4>2. PICK s \in {"RESOLVED", "PENDING"} :
              conflicts'[o] = [status |-> s, version |-> a.version, edits |-> a.edits]
        BY <1>10, <3>2, <4>1
      <4>3. a.version \in Nat /\ a.edits \in SUBSET Edits
        BY <1>4, <4>1 DEF Answers
      <4> QED
        BY <4>2, <4>3 DEF ConflictRecords
    <3> QED
      BY <3>1, <3>2
  <2>2. \A o \in 1 .. MaxOps : conflicts'[o] \in ConflictRecords
    BY <1>3, <1>11, <2>1
  <2> QED
    BY <1>11, <2>2
<1>13. ASSUME NEW o \in InBatch(l)
       PROVE  \E n \in DOMAIN answers[l] : batch[l][n] = o /\ Told(o, answers[l][n])
  <2>1. at(o) \in DOMAIN answers[l] /\ batch[l][at(o)] = o /\ answer(o) = answers[l][at(o)]
    BY <1>4 DEF answer
  <2>2. Told(o, answer(o))
    <3>1. CASE answer(o).status = "APPLIED"
      BY <1>4, <1>5, <1>7, <1>10, <3>1 DEF Told
    <3>2. CASE answer(o).status = "CONFLICT" /\ answer(o).type = "EDIT_DELETE"
      BY <1>4, <1>5, <1>7, <1>10, <3>2 DEF Told
    <3>3. CASE answer(o).status = "CONFLICT" /\ answer(o).type = "EDIT_EDIT"
      BY <1>4, <1>5, <1>7, <1>10, <3>3 DEF Told
    <3>4. CASE answer(o).status = "UNAUTHORIZED"
      BY <1>4, <1>6, <1>10, <3>4 DEF Told
    <3>5. CASE answer(o).status \in {"REJECTED", "DEVICE_REVOKED", "REQUIRES_REVALIDATION"}
      BY <1>4, <1>5, <1>7, <1>10, <3>5 DEF Told
    <3> QED
      BY <1>4, <3>1, <3>2, <3>3, <3>4, <3>5 DEF Final
  <2> QED
    BY <2>1, <2>2
<1> QED
  BY <1>2, <1>3, <1>8, <1>9, <1>11, <1>12, <1>13

LEMMA ReplyKeeps ==
  ASSUME Sound, NEW l \in Loops, Reply(l)
  PROVE  Sound'
<1>1. Typed /\ Counted /\ Requests /\ Decisions /\ Creations
  BY DEF Sound
<1>2. /\ Restamped /\ Finish(l) /\ conflicts' \in [1 .. MaxOps -> ConflictRecords]
      /\ UNCHANGED <<server, records, cursor, faults>>
      /\ \A o \in 1 .. MaxOps : o \notin InBatch(l) => conflicts'[o] = conflicts[o]
      /\ \A o \in DOMAIN ops : o \notin InBatch(l) => ops'[o] = ops[o]
      /\ \A o \in InBatch(l) : \E a : Told(o, a)
      /\ InBatch(l) \subseteq DOMAIN ops
  BY ReplyCases
<1>3. /\ feed' = feed /\ decided' = decided /\ window' = window /\ orphans' = orphans
      /\ DOMAIN ops' = DOMAIN ops
  BY <1>2 DEF server, Restamped
<1>4. /\ pc' \in [Loops -> Places] /\ batch' \in [Loops -> Seq(1 .. MaxOps)]
      /\ answers' \in [Loops -> Seq(Answers)]
      /\ \A k \in Loops : Request(k)' /\ Answered(k)'
  BY <1>1, <1>2, <1>3, FinishKeeps DEF Decisions
<1>5. Typed'
  BY <1>1, <1>2, <1>3, <1>4 DEF Typed, Restamped
<1>6. Counted' /\ Requests'
  BY <1>1, <1>3, <1>4, CountedKept DEF Requests
<1>7. \A i \in 1 .. MaxOps : Decision(i)'
  <2>1. ASSUME NEW i \in 1 .. MaxOps, i \notin InBatch(l) PROVE Decision(i)'
    BY <1>1, <1>2, <1>3, <2>1 DEF Decisions, Decision
  <2>2. ASSUME NEW i \in 1 .. MaxOps, i \in InBatch(l) PROVE Decision(i)'
    <3>1. Decision(i) /\ i \in DOMAIN ops
      BY <1>1, <1>2, <2>2 DEF Decisions
    <3>2. \/ conflicts'[i] = conflicts[i]
          \/ /\ decided[i].status = "CONFLICT" /\ conflicts'[i].version = decided[i].version
             /\ conflicts'[i].edits = decided[i].edits
             /\ conflicts'[i].status = "PENDING" => decided[i].type = "EDIT_EDIT"
      <4>1. PICK a : Told(i, a)
        BY <1>2, <2>2
      <4>2. CASE conflicts'[i] = conflicts[i]
        BY <4>2
      <4>3. CASE /\ a.status = "CONFLICT" /\ decided[i] = a
                 /\ \/ conflicts'[i] = [status |-> "RESOLVED", version |-> a.version, edits |-> a.edits]
                    \/ /\ a.type = "EDIT_EDIT"
                       /\ conflicts'[i] = [status |-> "PENDING", version |-> a.version,
                                           edits |-> a.edits]
        BY <4>3
      <4> QED
        BY <4>1, <4>2, <4>3 DEF Told
    <3> QED
      BY <1>3, <3>1, <3>2 DEF Decision
  <2> QED
    BY <2>1, <2>2
<1>8. QueueMatchesServer'
  <2>1. ASSUME NEW i \in InBatch(l)
        PROVE  /\ ops'[i].status = "SYNCED" => decided[i].status = "APPLIED"
               /\ ops'[i].status = "CONFLICT" =>
                    decided[i].status = "CONFLICT" /\ decided[i].type = "EDIT_EDIT"
    <3>1. PICK a : Told(i, a)
      BY <1>2
    <3>2. CASE ops'[i] = ops[i]
      BY <1>1, <1>2, <3>2 DEF Decisions, QueueMatchesServer
    <3>3. CASE ops'[i] # ops[i]
      BY <3>1, <3>3 DEF Told
    <3> QED
      BY <3>2, <3>3
  <2> QED
    BY <1>1, <1>2, <1>3, <2>1 DEF Decisions, QueueMatchesServer
<1>9. Creations'
  BY <1>1, <1>2, <1>3, CreationsKept
<1>10. Decisions'
  BY <1>4, <1>7, <1>8 DEF Decisions
<1> QED
  BY <1>5, <1>6, <1>9, <1>10 DEF Sound

-----------------------------------------------------------------------------
(* Other devices, the device itself, and the pull.                           *)

LEMMA EntriesCounted ==
  ASSUME Typed
  PROVE  LET others == {i \in DOMAIN feed : feed[i].edit > MaxOps}
         IN  IsFiniteSet(others) /\ Len(feed) = Cardinality(Own) + Cardinality(others)
             /\ Cardinality(others) \in Nat
<1> DEFINE others == {i \in DOMAIN feed : feed[i].edit > MaxOps}
<1>1. /\ DOMAIN feed = 1 .. Len(feed) /\ Len(feed) \in Nat /\ MaxOps \in Nat
      /\ \A i \in DOMAIN feed : feed[i].edit \in Nat
  <2>1. feed \in Seq(Entries) /\ MaxOps \in Nat
    BY DeviceAssumption DEF Typed
  <2>2. \A x \in Entries : x.edit \in Nat
    BY DEF Entries, Edits
  <2> QED
    BY <2>1, <2>2
<1>2. others \in SUBSET (1 .. Len(feed))
  BY <1>1
<1>3. Own \cup others = 1 .. Len(feed) /\ Own \cap others = {}
  BY <1>1 DEF Own
<1> HIDE DEF others
<1>4. IsFiniteSet(others) /\ Cardinality(others) \in Nat
  BY <1>1, <1>2, Positions
<1>5. IsFiniteSet(Own) /\ Cardinality(Own) \in Nat
  BY OwnFinite
<1>6. Cardinality(Own \cup others) = Cardinality(Own) + Cardinality(others) - Cardinality(Own \cap others)
  BY <1>4, <1>5, FS_Union
<1>7. Cardinality(Own \cap others) = 0
  BY <1>3, FS_EmptySet
<1>8. Cardinality(1 .. Len(feed)) = Len(feed)
  BY <1>1, FS_Interval
<1>9. Len(feed) = Cardinality(Own) + Cardinality(others)
  <2>1. Cardinality(Own \cup others) = Len(feed)
    BY <1>3, <1>8
  <2> QED
    BY <1>1, <1>4, <1>5, <1>6, <1>7, <2>1
<1> QED
  BY <1>4, <1>9 DEF others

LEMMA PeerEditTyped ==
  ASSUME Typed, Counted, NEW e \in Entities, NEW tombstone \in BOOLEAN, PeerEdit(e, tombstone)
  PROVE  \E x \in Entries :
           /\ x.entity = e /\ x.edit = MaxOps + Len(feed) + 1 /\ x.tombstone = tombstone
           /\ x.edit > MaxOps /\ feed' = Append(feed, x)
<1>1. PICK x : x = [entity |-> e, edit |-> MaxOps + Len(feed) + 1, tombstone |-> tombstone]
  OBVIOUS
<1>2. /\ feed' = Append(feed, x)
      /\ Cardinality({i \in DOMAIN feed : feed[i].edit > MaxOps}) < MaxPeerEdits
  BY <1>1 DEF PeerEdit
<1>3. PICK others : others = {i \in DOMAIN feed : feed[i].edit > MaxOps}
  OBVIOUS
<1>4. Len(feed) = Cardinality(Own) + Cardinality(others) /\ Cardinality(others) \in Nat
  BY <1>3, EntriesCounted
<1>5. /\ Cardinality(Own) \in Nat /\ Cardinality(Applied) \in Nat
      /\ Cardinality(Applied) <= MaxOps /\ Cardinality(Own) <= Cardinality(Applied)
  BY OwnFinite DEF Counted
<1>6. MaxOps \in Nat /\ MaxPeerEdits \in Nat
  BY EditsTyped
<1>7. Cardinality(others) < MaxPeerEdits
  BY <1>2, <1>3
<1>8. Len(feed) \in 0 .. MaxOps + MaxPeerEdits - 1
  BY <1>4, <1>5, <1>6, <1>7
<1>9. MaxOps + Len(feed) + 1 \in Edits /\ MaxOps + Len(feed) + 1 > MaxOps
  BY <1>8, EditsTyped
<1>10. x \in Entries /\ x.entity = e /\ x.edit = MaxOps + Len(feed) + 1 /\ x.tombstone = tombstone
  BY <1>1, <1>9 DEF Entries
<1> QED
  BY <1>2, <1>9, <1>10

LEMMA PeerEditKeeps ==
  ASSUME Sound, NEW e \in Entities, NEW tombstone \in BOOLEAN, PeerEdit(e, tombstone)
  PROVE  Sound'
<1>1. Typed /\ Counted /\ Requests /\ Decisions /\ Creations
  BY DEF Sound
<1>2. PICK x \in Entries : x.entity = e /\ x.edit > MaxOps /\ feed' = Append(feed, x)
  BY <1>1, PeerEditTyped
<1>3. /\ Exists(Row(e)) /\ UNCHANGED <<decided, window, orphans, client, loop, faults>>
  BY DEF PeerEdit, Alive
<1>4. /\ records' = records /\ ops' = ops /\ conflicts' = conflicts /\ cursor' = cursor
  BY <1>3 DEF client
<1>5. PICK new : new = Len(feed) + 1
  OBVIOUS
<1>6. /\ feed' \in Seq(Entries) /\ Len(feed') = Len(feed) + 1 /\ Len(feed) \in Nat
      /\ DOMAIN feed' = DOMAIN feed \cup {new} /\ new \notin DOMAIN feed
      /\ feed'[new] = x /\ \A n \in DOMAIN feed : feed'[n] = feed[n]
      /\ \A d \in Entities : d # e => Changes(d)' = Changes(d)
  BY <1>1, <1>2, <1>5, FeedGrows DEF Typed
<1>7. Typed'
  <2>1. cursor' \in 0 .. Len(feed')
    BY <1>1, <1>4, <1>6 DEF Typed
  <2> QED
    BY <1>1, <1>3, <1>4, <1>6, <2>1 DEF Typed, loop
<1>8. Counted'
  <2>1. ~(x.edit <= MaxOps)
    BY <1>2, EditsTyped DEF Entries, Edits
  <2>2. Own' = Own
    BY <1>6, <2>1 DEF Own
  <2> QED
    BY <1>1, <1>3, <2>2 DEF Counted, Applied
<1>9. Requests'
  BY <1>1, <1>3, <1>4, LoopsKept
<1>10. Decisions'
  <2>1. \A i \in 1 .. MaxOps : Decision(i)'
    BY <1>1, <1>3, <1>4, DecisionsKept DEF Decisions
  <2> QED
    BY <1>1, <1>3, <1>4, <2>1 DEF Decisions, Answered, QueueMatchesServer, loop
<1>11. Creations'
  <2> SUFFICES ASSUME NEW i \in DOMAIN ops PROVE Creation(i)'
    BY <1>4 DEF Creations
  <2>1. Creation(i) /\ ops[i].entity \in Entities /\ feed \in Seq(Entries)
    BY <1>1, OperationTyped DEF Creations, Typed
  <2>2. Creates(i) /\ decided[i] = NoAnswer => ops[i].entity # e
    <3>1. SUFFICES ASSUME Creates(i), decided[i] = NoAnswer, ops[i].entity = e PROVE FALSE
      OBVIOUS
    <3>2. Changes(e) = {} /\ e \notin Existing
      BY <2>1, <3>1 DEF Creation
    <3>3. Row(e).version = 0
      BY <2>1, <3>2, UnknownRow
    <3> QED
      BY <1>3, <3>3 DEF Exists
  <2>3. PICK d : d = ops[i].entity
    OBVIOUS
  <2>4. Creates(i) /\ decided[i] = NoAnswer => Changes(ops[i].entity)' = Changes(ops[i].entity)
    <3>1. d # e => Changes(d)' = Changes(d)
      BY <1>6, <2>1, <2>3
    <3>2. Changes(ops[i].entity)' = {j \in DOMAIN feed' : feed'[j].entity = d}
      BY <1>4, <2>3 DEF Changes
    <3>3. Changes(d)' = {j \in DOMAIN feed' : feed'[j].entity = d}
      BY DEF Changes
    <3> QED
      BY <2>2, <2>3, <3>1, <3>2, <3>3
  <2> QED
    BY <1>3, <1>4, <2>1, <2>4 DEF Creation, Creates
<1> QED
  BY <1>7, <1>8, <1>9, <1>10, <1>11 DEF Sound

LEMMA DeviceChangesKeeps ==
  ASSUME Sound, DeviceChanges
  PROVE  Sound'
<1>1. Typed /\ Counted /\ Requests /\ Decisions /\ Creations
  BY DEF Sound
<1>2. /\ feed' = feed /\ decided' = decided /\ orphans' = orphans
      /\ records' = records /\ ops' = ops /\ conflicts' = conflicts /\ cursor' = cursor
      /\ loop' = loop
  BY DEF DeviceChanges, client
<1>3. window' \in {"active", "expired", "revoked"} /\ faults' \in Seq(SUBSET (1 .. MaxOps))
  BY <1>1, FaultNoted DEF DeviceChanges, Typed
<1>4. Typed'
  BY <1>1, <1>2, <1>3 DEF Typed, loop
<1>5. Counted' /\ Requests' /\ Creations'
  <2>1. Restamped
    BY <1>1, <1>2, StillRestamps DEF Typed
  <2> QED
    BY <1>1, <1>2, <2>1, CountedKept, LoopsKept, CreationsKept
<1>6. Decisions'
  BY <1>1, <1>2, DecisionsKept DEF Decisions, Answered, QueueMatchesServer, loop
<1> QED
  BY <1>4, <1>5, <1>6 DEF Sound

(* What a pull does to a record.                                            *)
LEMMA PullCases ==
  ASSUME Typed, NEW k \in cursor + 1 .. Len(feed), Pull(k), NEW e \in Entities
  PROVE  /\ News(e, k) \in SUBSET Changes(e)
         /\ News(e, k) = {} => records'[e] = records[e]
         /\ News(e, k) # {} =>
              \E last \in News(e, k) :
                /\ \A m \in News(e, k) : m <= last
                /\ records'[e] = [version |-> VersionAt(last), deleted |-> feed[last].tombstone,
                                  edits |-> records[e].edits \cup {feed[i].edit : i \in News(e, k)}]
         /\ records'[e] \in Records
<1>1. News(e, k) \in SUBSET Changes(e)
  BY DEF News
<1>2. records'[e] = IF News(e, k) = {} THEN records[e]
                    ELSE [version |-> VersionAt(Max(News(e, k))),
                          deleted |-> feed[Max(News(e, k))].tombstone,
                          edits |-> records[e].edits \cup {feed[i].edit : i \in News(e, k)}]
  BY Zenon DEF Pull
<1>3. News(e, k) \in SUBSET (1 .. Len(feed)) /\ Len(feed) \in Nat /\ feed \in Seq(Entries)
      /\ \A n \in DOMAIN feed : feed[n] \in Entries
  BY <1>1, ChangesCounted DEF Typed
<1>4. CASE News(e, k) = {}
  BY <1>1, <1>2, <1>4 DEF Typed
<1>5. CASE News(e, k) # {}
  <2>1. PICK last : last = Max(News(e, k))
    OBVIOUS
  <2>2. last \in News(e, k) /\ \A m \in News(e, k) : m <= last
    BY <1>3, <1>5, <2>1, MaxBelow
  <2>3. records'[e] = [version |-> VersionAt(last), deleted |-> feed[last].tombstone,
                       edits |-> records[e].edits \cup {feed[i].edit : i \in News(e, k)}]
    BY <1>2, <1>5, <2>1
  <2>4. VersionAt(last) \in Nat
    BY <1>1, <1>3, <2>2, VersionsRise
  <2>5. feed[last].tombstone \in BOOLEAN
    BY <1>3, <2>2 DEF Entries
  <2>6. {feed[i].edit : i \in News(e, k)} \in SUBSET Edits
    BY <1>3 DEF Entries
  <2>7. records[e].edits \in SUBSET Edits
    BY DEF Typed, Records
  <2>8. records'[e] \in Records
    BY <2>3, <2>4, <2>5, <2>6, <2>7 DEF Records
  <2> QED
    BY <1>1, <1>5, <2>2, <2>3, <2>8
<1> QED
  BY <1>4, <1>5

LEMMA PullKeeps ==
  ASSUME Sound, NEW k \in cursor + 1 .. Len(feed), Pull(k)
  PROVE  Sound'
<1>1. Typed /\ Counted /\ Requests /\ Decisions /\ Creations
  BY DEF Sound
<1>2. cursor' = k /\ UNCHANGED <<server, ops, conflicts, loop, faults>>
  BY DEF Pull
<1>3. feed' = feed /\ decided' = decided /\ window' = window /\ orphans' = orphans
  BY <1>2 DEF server
<1>4. records' \in [Entities -> Records]
  <2>1. records' = [e \in Entities |-> records'[e]]
    BY DEF Pull
  <2>2. \A e \in Entities : records'[e] \in Records
    BY <1>1, PullCases
  <2> QED
    BY <2>1, <2>2
<1>5. Typed'
  <2>1. k \in 0 .. Len(feed)
    BY <1>1 DEF Typed
  <2> QED
    BY <1>1, <1>2, <1>3, <1>4, <2>1 DEF Typed, loop
<1>6. \A e \in Entities : Exists(records[e]) => Exists(records'[e])
  <2> SUFFICES ASSUME NEW e \in Entities, News(e, k) # {} PROVE Exists(records'[e])
    BY <1>1, PullCases
  <2>1. PICK last \in News(e, k) :
          records'[e] = [version |-> VersionAt(last), deleted |-> feed[last].tombstone,
                         edits |-> records[e].edits \cup {feed[i].edit : i \in News(e, k)}]
    BY <1>1, PullCases
  <2>2. last \in Changes(e) /\ feed \in Seq(Entries)
    BY <1>1, PullCases DEF Typed
  <2>3. VersionAt(last) \in Nat /\ FirstVersion(e) < VersionAt(last) /\ FirstVersion(e) \in Nat
    BY <2>2, VersionsRise, RowTyped
  <2>4. records'[e].version = VersionAt(last)
    BY <2>1
  <2> QED
    BY <2>3, <2>4 DEF Exists
<1>7. Counted' /\ Requests' /\ Creations'
  <2>1. Restamped
    BY <1>1, <1>2, StillRestamps DEF Typed
  <2> QED
    BY <1>1, <1>2, <1>3, <1>6, <2>1, CountedKept, LoopsKept, CreationsKept
<1>8. Decisions'
  BY <1>1, <1>2, <1>3, DecisionsKept DEF Decisions, Answered, QueueMatchesServer, loop
<1> QED
  BY <1>5, <1>7, <1>8 DEF Sound

-----------------------------------------------------------------------------
(* The invariant holds.                                                     *)

LEMMA SoundAtFirst ==
  ASSUME Init
  PROVE  Sound
<1>1. MaxOps \in Nat /\ BatchSize \in Nat /\ Existing \subseteq Entities
  BY DeviceAssumption
<1>2. NoAnswer \in Answers /\ NoAnswer.status = "NONE" /\ Plain("NONE") = NoAnswer
  BY PlainAnswers
<1>3. NoConflict \in ConflictRecords /\ NoConflict.status = "NONE"
  BY DEF NoConflict, ConflictRecords
<1>4. NoRecord \in Records /\ FirstRecord \in Records
  BY DEF NoRecord, FirstRecord, Records
<1>5. Typed
  <2>1. feed \in Seq(Entries) /\ ops \in Seq(Operations) /\ Len(ops) = 0 /\ Len(feed) = 0
    BY DEF Init
  <2>2. decided \in [1 .. MaxOps -> Answers] /\ conflicts \in [1 .. MaxOps -> ConflictRecords]
    BY <1>2, <1>3 DEF Init
  <2>3. records \in [Entities -> Records]
    BY <1>4 DEF Init
  <2>4. /\ pc \in [Loops -> Places] /\ batch \in [Loops -> Seq(1 .. MaxOps)]
        /\ answers \in [Loops -> Seq(Answers)]
    BY DEF Init, Places
  <2> QED
    BY <1>1, <2>1, <2>2, <2>3, <2>4 DEF Init, Typed
<1>6. Counted
  <2>1. Own = {}
    BY DEF Init, Own
  <2>2. Cardinality(Own) = 0 /\ Cardinality(Applied) \in Nat
    BY <1>5, <2>1, FS_EmptySet, OwnFinite
  <2> QED
    BY <2>2 DEF Counted
<1>7. Requests
  <2>1. Len(<<>>) = 0 /\ DOMAIN <<>> = {}
    OBVIOUS
  <2>2. \A l \in Loops : Request(l)
    BY <1>1, <2>1 DEF Init, Request, InBatch
  <2> QED
    BY <2>2 DEF Requests, Init
<1>8. Decisions
  <2>1. \A i \in 1 .. MaxOps : decided[i] = NoAnswer /\ conflicts[i] = NoConflict
    BY DEF Init
  <2>2. \A i \in 1 .. MaxOps : Decision(i)
    BY <1>2, <1>3, <2>1 DEF Decision
  <2>3. \A l \in Loops : Answered(l)
    BY DEF Init, Answered
  <2> QED
    BY <2>2, <2>3 DEF Decisions, QueueMatchesServer, Init
<1>9. Creations
  BY DEF Creations, Init
<1> QED
  BY <1>5, <1>6, <1>7, <1>8, <1>9 DEF Sound

LEMMA SoundStays ==
  ASSUME Sound, [Next]_vars
  PROVE  Sound'
<1>1. CASE Next
  <2>1. ASSUME NEW e \in Entities,
               CreateProject(e) \/ CreateBelow(e) \/ Update(e) \/ Delete(e)
        PROVE  Sound'
    BY <2>1, MutationsKeep
  <2>2. ASSUME NEW l \in Loops, Push(l) \/ TransportFails(l) \/ Restart(l)
        PROVE  Sound'
    BY <2>2, CollectKeeps, SendKeeps, GateKeeps, ServeKeeps, ReplyKeeps, TransportFailsKeeps,
       RestartKeeps DEF Push
  <2>3. ASSUME NEW s \in orphans, ServeOrphan(s)
        PROVE  Sound'
    BY <2>3, ServeOrphanKeeps
  <2>4. ASSUME NEW e \in Entities, NEW tombstone \in BOOLEAN, PeerEdit(e, tombstone)
        PROVE  Sound'
    BY <2>4, PeerEditKeeps
  <2>5. ASSUME NEW i \in DOMAIN ops,
               DelayEnds(i) \/ \E r \in {"KEEP_SERVER", "KEEP_MINE"} : Resolve(i, r)
        PROVE  Sound'
    BY <2>5, DelayEndsKeeps, ResolveKeeps
  <2>6. ASSUME NEW k \in cursor + 1 .. Len(feed), Pull(k)
        PROVE  Sound'
    BY <2>6, PullKeeps
  <2> QED
    BY <1>1, <2>1, <2>2, <2>3, <2>4, <2>5, <2>6, DeviceChangesKeeps, RevalidatedKeeps DEF Next
<1>2. CASE UNCHANGED vars
  <2>1. UNCHANGED <<server, records, conflicts, cursor, loop, faults>> /\ ops' = ops
    BY <1>2 DEF vars, client
  <2>2. Restamped
    BY <2>1, StillRestamps DEF Sound, Typed
  <2> QED
    BY <2>1, <2>2, QuietKeeps
<1> QED
  BY <1>1, <1>2

LEMMA AlwaysSound == Spec => []Sound
<1>1. Init => Sound
  BY SoundAtFirst
<1>2. Sound /\ [Next]_vars => Sound'
  BY SoundStays
<1> QED
  BY <1>1, <1>2, PTL DEF Spec

(* The types of the model, and of what a loop has under way.                  *)
THEOREM DeviceTypesCorrect == Spec => []TypeOK
<1>1. Sound => TypeOK
  <2> SUFFICES ASSUME Sound PROVE TypeOK
    OBVIOUS
  <2>1. Typed /\ Requests
    BY DEF Sound
  <2>2. ASSUME NEW l \in Loops
        PROVE  /\ pc[l] \in Places /\ (pc[l] = "idle" <=> batch[l] = <<>>)
               /\ Len(answers[l]) <= Len(batch[l])
               /\ pc[l] = "answered" <=> batch[l] # <<>> /\ Len(answers[l]) = Len(batch[l])
               /\ InBatch(l) \subseteq DOMAIN ops
    <3>1. Request(l) /\ Len(<<>>) = 0
      BY <2>1 DEF Requests
    <3> QED
      BY <2>1, <3>1, LoopTyped DEF Request, Places
  <2> QED
    BY <2>1, <2>2 DEF TypeOK, Typed, Requests, Entries, Records, Operations, ConflictRecords, Places
<1> QED
  BY <1>1, AlwaysSound, PTL

(* The queue says of an operation what the server decided.                    *)
THEOREM TheQueueMatchesTheServer == Spec => []QueueMatchesServer
<1>1. Sound => QueueMatchesServer
  BY DEF Sound, Decisions
<1> QED
  BY <1>1, AlwaysSound, PTL

(* No request leaves that the schemas of the server refuse.                   *)
THEOREM RequestsPassTheSchemas == Spec => []RequestsAreValid
<1>1. Sound => RequestsAreValid
  <2> SUFFICES ASSUME Sound, NEW l \in Loops, InFlight(l) PROVE pushRequestSchema(batch[l])
    BY DEF RequestsAreValid
  <2>1. Typed /\ Requests /\ Creations
    BY DEF Sound
  <2>2. pc[l] # "idle"
    BY DEF InFlight
  <2>3. Len(batch[l]) \in 1 .. BatchSize
    BY <2>1, <2>2, LoopTyped, DeviceAssumption DEF Requests, Request
  <2>4. ASSUME NEW n \in DOMAIN batch[l] PROVE syncOperationSchema(ops[batch[l][n]])
    <3>1. PICK o : o = batch[l][n]
      OBVIOUS
    <3>2. o \in DOMAIN ops
      BY <2>1, <3>1, LoopTyped
    <3>3. Creation(o) /\ ops[o].base \in Nat
      BY <2>1, <3>2, OperationTyped DEF Creations
    <3> QED
      BY <3>1, <3>3 DEF syncOperationSchema, Creation, Creates
  <2> QED
    BY <2>3, <2>4 DEF pushRequestSchema
<1> QED
  BY <1>1, AlwaysSound, PTL

-----------------------------------------------------------------------------
(* Convergence is kept.                                                     *)

(* The last change of an entity made it what its row is.                      *)
LEMMA LastVersion ==
  ASSUME feed \in Seq(Entries), NEW e \in Entities, Changes(e) # {}
  PROVE  \E n \in Changes(e) : VersionAt(n) = Row(e).version
<1>1. Changes(e) \in SUBSET (1 .. Len(feed)) /\ Len(feed) \in Nat
  BY ChangesCounted
<1>2. PICK n \in Changes(e) : \A m \in Changes(e) : m <= n
  BY <1>1, MaxBelow
<1>3. feed[n].entity = e
  BY DEF Changes
<1>4. Older(n) = Changes(e)
  BY <1>2, <1>3 DEF Older
<1>5. VersionAt(n) = FirstVersion(e) + Cardinality(Changes(e))
  BY <1>3, <1>4 DEF VersionAt
<1> QED
  BY <1>5, RowTyped

OpsKept ==
  /\ DOMAIN ops \subseteq DOMAIN ops' /\ \A i \in DOMAIN ops : Same(ops'[i], ops[i])

(* A record that will not be SYNCED as a whole stays so.                      *)
LEMMA SpoiledStays ==
  ASSUME Sound, NEW e \in Entities, Spoiled(e), OpsKept, Row(e).version' >= Row(e).version,
         Row(e).version' \in Nat,
         decided' = decided \/ \E o \in DOMAIN ops : Applies(o) \/ TurnsDown(o)
  PROVE  Spoiled(e)'
<1>1. Typed /\ Decisions /\ Creations
  BY DEF Sound
<1>2. PICK i \in Of(e) : \/ decided[i].status = "CONFLICT"
                         \/ decided[i] = NoAnswer /\ ops[i].base < Row(e).version
  BY DEF Spoiled
<1>3. /\ i \in DOMAIN ops /\ ops[i].entity = e /\ i \in Of(e)' /\ ops'[i].base = ops[i].base
      /\ i \in 1 .. MaxOps /\ ops[i].base \in Nat /\ decided \in [1 .. MaxOps -> Answers]
      /\ Row(e).version \in Nat
  BY <1>1, <1>2, OperationTyped, RowTyped DEF Of, OpsKept, Same, Typed
<1>4. CASE decided'[i] = decided[i]
  <2>1. decided[i] = NoAnswer => ops'[i].base < Row(e).version'
    BY <1>2, <1>3, PlainAnswers
  <2> QED
    BY <1>2, <1>3, <1>4, <2>1 DEF Spoiled
<1>5. CASE decided'[i] # decided[i]
  <2>1. PICK o \in DOMAIN ops : Applies(o) \/ TurnsDown(o)
    BY <1>5
  <2>2. i = o
    BY <1>3, <1>5, <2>1 DEF Applies, TurnsDown
  <2>3. CASE TurnsDown(o)
    <3>1. decided'[i].status = "CONFLICT"
      BY <1>3, <2>2, <2>3 DEF TurnsDown
    <3> QED
      BY <1>3, <3>1 DEF Spoiled
  <2>4. CASE Applies(o)
    <3>1. decided[i] = NoAnswer /\ ConflictOf(i) = "NONE" /\ ops[i].base < Row(e).version
      BY <1>2, <2>2, <2>4, PlainAnswers DEF Applies
    <3>2. CASE ops[i].kind = "CREATE"
      <4>1. ~Exists(Row(e))
        BY <1>1, <1>3, <3>1, <3>2, ConflictCases
      <4> QED
        BY <1>3, <3>1, <4>1 DEF Exists
    <3>3. CASE ops[i].kind # "CREATE"
      <4>1. Row(e).version = ops[i].base
        BY <1>1, <1>3, <3>1, <3>3, ConflictCases
      <4> QED
        BY <1>3, <3>1, <4>1
    <3> QED
      BY <3>2, <3>3
  <2> QED
    BY <2>1, <2>3, <2>4
<1> QED
  BY <1>4, <1>5

(* Nothing that concerns the record changes.                                 *)
LEMMA CurrentStays ==
  ASSUME Typed, NEW e \in Entities, Current(e), OpsKept, Of(e)' = Of(e),
         \A i \in Of(e) : decided'[i] = decided[i], records'[e] = records[e], cursor' = cursor,
         Changes(e)' = Changes(e), Row(e)' = Row(e),
         \A n \in Changes(e) : feed'[n] = feed[n] /\ VersionAt(n)' = VersionAt(n)
  PROVE  Current(e)'
<1>1. \A i \in Of(e) : /\ ops'[i].base = ops[i].base /\ ops'[i].edit = ops[i].edit
                       /\ ops'[i].kind = ops[i].kind /\ (Waits(i)' <=> Waits(i))
  BY DEF OpsKept, Same, Of, Waits
<1>2. FirstVersion(e)' = FirstVersion(e)
  BY DEF FirstVersion
<1>3. /\ FirstVersion(e) <= records'[e].version
      /\ \A i \in Of(e)' : ops'[i].base < records'[e].version /\ ops'[i].edit \in records'[e].edits
      /\ \A i \in Of(e)' : Waits(i)' => ops'[i].base >= Row(e)'.version
  BY <1>1 DEF Current
<1>4. \A v \in Nat : Row(e)'.version <= v /\ v < records'[e].version =>
        \E i \in Of(e)' : Waits(i)' /\ ops'[i].base = v
  BY <1>1 DEF Current
<1>5. /\ \A n \in Changes(e)' : n <= cursor' => VersionAt(n)' <= records'[e].version
      /\ \A n \in Changes(e)' : VersionAt(n)' <= records'[e].version =>
           feed'[n].edit \in records'[e].edits
  BY DEF Current
<1>6. \A x \in records'[e].edits :
        \/ \E n \in Changes(e)' : feed'[n].edit = x
        \/ \E i \in Of(e)' : Waits(i)' /\ ops'[i].edit = x
  BY <1>1 DEF Current
<1>7. records'[e].deleted <=>
        \/ \E n \in Changes(e)' : feed'[n].tombstone /\ VersionAt(n)' <= records'[e].version
        \/ \E i \in Of(e)' : Waits(i)' /\ ops'[i].kind = "DELETE"
  BY <1>1 DEF Current
<1> QED
  BY <1>2, <1>3, <1>4, <1>5, <1>6, <1>7 DEF Current

(* A step that leaves the records, the feed and the decisions alone.          *)
LEMMA ConvergingKept ==
  ASSUME Typed, Converging, Restamped, UNCHANGED <<feed, decided, records, cursor>>
  PROVE  Converging'
<1>1. OpsKept
  BY DEF OpsKept, Restamped
<1>2. ASSUME NEW e \in Entities PROVE Spoiled(e)' \/ Current(e)'
  <2>1. /\ Of(e)' = Of(e) /\ Changes(e)' = Changes(e) /\ Row(e)' = Row(e)
        /\ \A n : VersionAt(n)' = VersionAt(n)
    BY DEF Of, Restamped, Same, Changes, Row, VersionAt, Older, FirstVersion
  <2>2. CASE Current(e)
    BY <1>1, <2>1, <2>2, CurrentStays
  <2>3. CASE Spoiled(e)
    <3>1. \A i \in Of(e) : ops'[i].base = ops[i].base
      BY DEF Of, Restamped, Same
    <3> QED
      BY <2>1, <2>3, <3>1 DEF Spoiled
  <2> QED
    BY <2>2, <2>3 DEF Converging
<1>3. TombstonesLast'
  BY DEF Converging, TombstonesLast
<1> QED
  BY <1>2, <1>3 DEF Converging

(* What Current says, for a record whose feed and queue are typed.            *)
LEMMA CurrentTyped ==
  ASSUME Typed, NEW e \in Entities
  PROVE  /\ records[e].version \in Nat /\ records[e].deleted \in BOOLEAN
         /\ records[e].edits \in SUBSET Edits /\ records[e] \in Records
         /\ Row(e).version \in Nat /\ FirstVersion(e) \in Nat /\ cursor \in Nat
         /\ cursor <= Len(feed) /\ Len(feed) \in Nat /\ feed \in Seq(Entries)
         /\ \A i \in Of(e) : i \in DOMAIN ops /\ ops[i].entity = e /\ ops[i].base \in Nat
         /\ \A n \in Changes(e) : /\ VersionAt(n) \in Nat /\ VersionAt(n) <= Row(e).version
                                  /\ FirstVersion(e) < VersionAt(n)
                                  /\ n \in DOMAIN feed /\ feed[n].entity = e /\ n \in Nat
                                  /\ n <= Len(feed)
<1>1. feed \in Seq(Entries) /\ records[e] \in Records /\ cursor \in 0 .. Len(feed)
  BY DEF Typed
<1>2. /\ Row(e).version \in Nat /\ FirstVersion(e) \in Nat
      /\ \A n \in Changes(e) : /\ VersionAt(n) \in Nat /\ VersionAt(n) <= Row(e).version
                               /\ FirstVersion(e) < VersionAt(n)
  BY <1>1, RowTyped, VersionsRise
<1>3. \A i \in Of(e) : i \in DOMAIN ops /\ ops[i].entity = e /\ ops[i].base \in Nat
  BY OperationTyped DEF Of
<1>4. Len(feed) \in Nat /\ \A n \in Changes(e) : n \in DOMAIN feed /\ feed[n].entity = e /\ n \in Nat
                                                 /\ n <= Len(feed)
  BY <1>1, ChangesCounted DEF Changes
<1> QED
  BY <1>1, <1>2, <1>3, <1>4 DEF Records

(* An edit: the record is ahead of the server by one more operation.          *)
LEMMA ChangeConverges ==
  ASSUME Sound, Converging, NEW e \in Entities, NEW kind \in {"CREATE", "UPDATE", "DELETE"},
         Change(e, kind, records[e].version, records[e].version + 1),
         kind = "CREATE" \/ ~records[e].deleted, kind = "CREATE" => records[e].version = 0
  PROVE  Converging'
<1>1. Typed /\ Decisions
  BY DEF Sound
<1>2. ops \in Seq(Operations) /\ Len(ops) <= MaxOps /\ records \in [Entities -> Records]
  BY <1>1 DEF Typed
<1>3. records[e].version \in Nat /\ records[e].version + 1 \in Nat
  BY <1>1, CurrentTyped
<1>4. PICK x \in Operations :
        /\ Extends(x) /\ \A i \in DOMAIN ops : ops'[i] = ops[i]
        /\ x.entity = e /\ x.kind = kind /\ x.base = records[e].version /\ x.edit = Len(ops) + 1
        /\ \A d \in Entities : d # e => records'[d] = records[d]
        /\ records'[e].version = records[e].version + 1 /\ records'[e].deleted = (kind = "DELETE")
        /\ records'[e].edits = records[e].edits \cup {Len(ops) + 1}
        /\ UNCHANGED <<server, conflicts, cursor, loop, faults>>
  BY <1>2, <1>3, ChangeExtends
<1>5. PICK new : new = Len(ops) + 1
  OBVIOUS
<1>6. /\ DOMAIN ops' = DOMAIN ops \cup {new} /\ new \notin DOMAIN ops /\ ops'[new] = x
      /\ \A i \in DOMAIN ops : ops'[i] = ops[i]
      /\ feed' = feed /\ decided' = decided /\ cursor' = cursor
  BY <1>4, <1>5 DEF Extends, server
<1>7. OpsKept
  BY <1>6 DEF OpsKept, Same
<1>8. \A d : /\ Changes(d)' = Changes(d) /\ Row(d)' = Row(d) /\ Row(d).version' = Row(d).version
             /\ \A n : VersionAt(n)' = VersionAt(n)
  BY <1>6 DEF Changes, Row, VersionAt, Older, FirstVersion
<1>9. Of(e)' = Of(e) \cup {new} /\ \A d : d # e => Of(d)' = Of(d)
  BY <1>4, <1>6 DEF Of
<1>10. \A i \in DOMAIN ops : Waits(i)' <=> Waits(i)
  BY <1>6 DEF Waits
<1>11. decided[new] = NoAnswer /\ Waits(new)' /\ new \notin Of(e) /\ new = Len(ops) + 1
  <2>1. new \in 1 .. MaxOps
    <3>1. new = Len(ops) + 1 /\ Len(ops) \in Nat /\ Len(ops) + 1 <= MaxOps
      BY <1>2, <1>4, <1>5, QueueDomain DEF Extends
    <3> QED
      BY <3>1, DeviceAssumption
  <2>2. decided[new] = NoAnswer
    BY <1>1, <1>6, <2>1 DEF Decisions, Decision
  <2> QED
    BY <1>5, <1>6, <2>2, PlainAnswers DEF Waits, Of
<1>12. ASSUME NEW d \in Entities PROVE Spoiled(d)' \/ Current(d)'
  <2>1. CASE Spoiled(d)
    <3>1. Row(d).version \in Nat
      BY <1>1, CurrentTyped
    <3>2. Row(d).version' >= Row(d).version /\ Row(d).version' \in Nat
      BY <1>8, <3>1
    <3> QED
      BY <1>6, <1>7, <2>1, <3>2, SpoiledStays
  <2>2. CASE Current(d) /\ d # e
    BY <1>1, <1>4, <1>6, <1>7, <1>8, <1>9, <2>2, CurrentStays
  <2>3. CASE Current(d) /\ d = e /\ records[e].version < Row(e).version
    <3>1. ops'[new].base = records[e].version /\ new \in Of(e)'
      BY <1>4, <1>6, <1>9
    <3>2. decided'[new] = NoAnswer /\ ops'[new].base < Row(e)'.version
      BY <1>6, <1>8, <1>11, <2>3, <3>1
    <3> QED
      BY <2>3, <3>1, <3>2 DEF Spoiled
  <2>4. CASE Current(d) /\ d = e /\ ~(records[e].version < Row(e).version)
    <3>1. Current(e)
      BY <2>4
    <3>2. /\ records[e].version \in Nat /\ Row(e).version \in Nat /\ FirstVersion(e) \in Nat
          /\ Row(e).version <= records[e].version
          /\ \A n \in Changes(e) : VersionAt(n) \in Nat /\ VersionAt(n) <= records[e].version
                                   /\ FirstVersion(e) < VersionAt(n)
          /\ \A i \in Of(e) : i \in DOMAIN ops /\ ops[i].base \in Nat
      BY <1>1, <2>4, CurrentTyped
    <3>3. /\ records'[e].version = records[e].version + 1
          /\ records'[e].edits = records[e].edits \cup {new}
          /\ records'[e].deleted <=> kind = "DELETE"
          /\ ops'[new].base = records[e].version /\ ops'[new].edit = new /\ ops'[new].kind = kind
          /\ \A i \in Of(e) : ops'[i] = ops[i] /\ (Waits(i)' <=> Waits(i))
          /\ Changes(e)' = Changes(e) /\ feed' = feed /\ cursor' = cursor
          /\ Row(e)'.version = Row(e).version
          /\ \A n : VersionAt(n)' = VersionAt(n)
          /\ FirstVersion(e)' = FirstVersion(e)
      BY <1>4, <1>5, <1>6, <1>8, <1>10, <3>2 DEF FirstVersion
    <3>4. ~records[e].deleted
      <4>1. SUFFICES ASSUME kind = "CREATE" PROVE ~records[e].deleted
        OBVIOUS
      <4>2. records[e].version = 0
        BY <4>1
      <4>3. Of(e) = {} /\ \A n \in Changes(e) : ~(VersionAt(n) <= records[e].version)
        BY <3>1, <3>2, <4>2 DEF Current
      <4> QED
        BY <3>1, <4>3 DEF Current
    <3>5. /\ FirstVersion(e)' <= records'[e].version
          /\ \A i \in Of(e)' : ops'[i].base < records'[e].version
      BY <1>9, <3>1, <3>2, <3>3 DEF Current
    <3>6. \A i \in Of(e)' : ops'[i].edit \in records'[e].edits
      BY <1>9, <3>1, <3>3 DEF Current
    <3>7. \A i \in Of(e)' : Waits(i)' => ops'[i].base >= Row(e)'.version
      BY <1>9, <3>1, <3>2, <3>3 DEF Current
    <3>8. ASSUME NEW v \in Nat, Row(e)'.version <= v, v < records'[e].version
          PROVE  \E i \in Of(e)' : Waits(i)' /\ ops'[i].base = v
      <4>1. CASE v = records[e].version
        BY <1>9, <1>11, <3>3, <4>1
      <4>2. CASE v # records[e].version
        <5>1. v < records[e].version
          BY <3>2, <3>3, <3>8, <4>2
        <5>2. \E i \in Of(e) : Waits(i) /\ ops[i].base = v
          BY <3>1, <3>3, <3>8, <5>1 DEF Current
        <5> QED
          BY <1>9, <3>3, <5>2
      <4> QED
        BY <4>1, <4>2
    <3>9. \A n \in Changes(e)' : VersionAt(n)' <= records'[e].version
                                 /\ feed'[n].edit \in records'[e].edits
      BY <3>1, <3>2, <3>3 DEF Current
    <3>10. ASSUME NEW y \in records'[e].edits
           PROVE  \/ \E n \in Changes(e)' : feed'[n].edit = y
                  \/ \E i \in Of(e)' : Waits(i)' /\ ops'[i].edit = y
      <4>1. CASE y = new
        BY <1>9, <1>11, <3>3, <4>1
      <4>2. CASE y \in records[e].edits
        BY <1>9, <3>1, <3>3, <4>2 DEF Current
      <4> QED
        BY <3>3, <4>1, <4>2
    <3>11. records'[e].deleted <=>
             \/ \E n \in Changes(e)' : feed'[n].tombstone /\ VersionAt(n)' <= records'[e].version
             \/ \E i \in Of(e)' : Waits(i)' /\ ops'[i].kind = "DELETE"
      <4>1. /\ \A n \in Changes(e) : ~feed[n].tombstone
            /\ \A i \in Of(e) : ~(Waits(i) /\ ops[i].kind = "DELETE")
        BY <3>1, <3>2, <3>4 DEF Current
      <4>2. ~ \E n \in Changes(e)' : feed'[n].tombstone /\ VersionAt(n)' <= records'[e].version
        BY <3>3, <4>1
      <4>3. (\E i \in Of(e)' : Waits(i)' /\ ops'[i].kind = "DELETE") <=> kind = "DELETE"
        BY <1>9, <1>11, <3>3, <4>1
      <4> QED
        BY <3>3, <4>2, <4>3
    <3>12. Current(e)'
      BY <3>5, <3>6, <3>7, <3>8, <3>9, <3>10, <3>11 DEF Current
    <3> QED
      BY <2>4, <3>12
  <2> QED
    BY <2>1, <2>2, <2>3, <2>4 DEF Converging
<1>13. TombstonesLast'
  BY <1>6 DEF Converging, TombstonesLast
<1> QED
  BY <1>12, <1>13 DEF Converging

LEMMA MutationsConverge ==
  ASSUME Sound, Converging, NEW e \in Entities,
         CreateProject(e) \/ CreateBelow(e) \/ Update(e) \/ Delete(e)
  PROVE  Converging'
<1>1. records[e].version \in Nat
  BY DEF Sound, Typed, Records
<1>2. CASE CreateProject(e) \/ CreateBelow(e)
  <2>1. ~Exists(records[e]) /\ Change(e, "CREATE", 0, 1)
    BY <1>2 DEF CreateProject, CreateBelow
  <2>2. records[e].version = 0
    BY <1>1, <2>1 DEF Exists
  <2>3. Change(e, "CREATE", records[e].version, records[e].version + 1)
    <3>1. records[e].version + 1 = 1
      BY <2>2
    <3> QED
      BY <2>1, <2>2, <3>1
  <2> QED
    BY <2>2, <2>3, ChangeConverges
<1>3. CASE Update(e) \/ Delete(e)
  BY <1>3, ChangeConverges DEF Update, Delete, Alive
<1> QED
  BY <1>2, <1>3

(* The feed grows by a change of an entity: one operation that waited is it,   *)
(* or none is.                                                              *)
LEMMA GrowthConverges ==
  ASSUME Sound, Converging, NEW x \in Entries, feed' = Append(feed, x),
         ops' = ops, records' = records, cursor' = cursor, ~Row(x.entity).deleted,
         \/ decided' = decided
         \/ \E o \in DOMAIN ops :
              /\ Applies(o) /\ ops[o].entity = x.entity /\ ops[o].edit = x.edit
              /\ ops[o].base = Row(x.entity).version /\ (x.tombstone <=> ops[o].kind = "DELETE")
  PROVE  Converging'
<1>1. Typed /\ Decisions
  BY DEF Sound
<1>2. feed \in Seq(Entries) /\ decided \in [1 .. MaxOps -> Answers]
  BY <1>1 DEF Typed
<1>3. PICK e : e = x.entity
  OBVIOUS
<1>4. e \in Entities /\ x.tombstone \in BOOLEAN
  BY <1>3 DEF Entries
<1>5. PICK new : new = Len(feed) + 1
  OBVIOUS
<1>6. /\ DOMAIN feed' = DOMAIN feed \cup {new} /\ new \notin DOMAIN feed
      /\ feed'[new] = x /\ \A n \in DOMAIN feed : feed'[n] = feed[n] /\ n < new
      /\ Changes(e)' = Changes(e) \cup {new}
      /\ \A d \in Entities : d # e => Changes(d)' = Changes(d)
  BY <1>2, <1>3, <1>5, FeedGrows
<1>7. /\ \A d \in Entities : d # e => Row(d)' = Row(d)
      /\ Row(e).version' = Row(e).version + 1
  <2>1. /\ \A d \in Entities : d # x.entity => Row(d)' = Row(d)
        /\ Row(x.entity).version' = Row(x.entity).version + 1
    BY <1>2, RowGrows
  <2> QED
    BY <1>3, <2>1
<1>8. /\ \A n \in DOMAIN feed : VersionAt(n)' = VersionAt(n)
      /\ VersionAt(new)' = Row(e).version + 1
  BY <1>2, <1>3, <1>5, VersionsStay
<1>9. OpsKept /\ \A d : Of(d)' = Of(d)
  BY DEF OpsKept, Same, Of
<1>10. decided' = decided \/ \E o \in DOMAIN ops : Applies(o) /\ ops[o].entity = e
  BY <1>3
<1>11. \A d \in Entities : Row(d).version \in Nat
  BY <1>1, CurrentTyped
<1>12. ASSUME NEW d \in Entities, Spoiled(d) PROVE Spoiled(d)'
  <2>1. Row(d).version' >= Row(d).version /\ Row(d).version' \in Nat
    BY <1>7, <1>11
  <2> QED
    BY <1>9, <1>10, <1>12, <2>1, SpoiledStays
<1>13. ASSUME NEW d \in Entities, Current(d), d # e PROVE Current(d)'
  <2>1. \A i \in Of(d) : decided'[i] = decided[i]
    <3>1. \A i \in Of(d) : i \in DOMAIN ops /\ ops[i].entity # e /\ i \in 1 .. MaxOps
      BY <1>1, <1>13, OperationTyped DEF Of
    <3> QED
      BY <1>2, <1>10, <3>1 DEF Applies
  <2>2. \A n \in Changes(d) : feed'[n] = feed[n] /\ VersionAt(n)' = VersionAt(n)
    BY <1>6, <1>8 DEF Changes
  <2> QED
    BY <1>1, <1>6, <1>7, <1>9, <1>13, <2>1, <2>2, CurrentStays
<1>14. ASSUME Current(e), ~Spoiled(e), ~Spoiled(e)' PROVE Current(e)'
  <2>1. /\ records[e].version \in Nat /\ Row(e).version \in Nat /\ FirstVersion(e) \in Nat
        /\ cursor \in Nat /\ cursor <= Len(feed) /\ Len(feed) \in Nat
        /\ \A i \in Of(e) : i \in DOMAIN ops /\ ops[i].entity = e /\ ops[i].base \in Nat
        /\ \A n \in Changes(e) : VersionAt(n) \in Nat /\ VersionAt(n) <= Row(e).version
                                 /\ n \in DOMAIN feed /\ n \in Nat
    BY <1>1, <1>4, CurrentTyped
  <2>2. Row(e)'.version = Row(e).version + 1 /\ FirstVersion(e)' = FirstVersion(e)
    BY <1>7 DEF FirstVersion
  <2>3. \A i \in Of(e) : ~ \/ decided[i].status = "CONFLICT"
                           \/ decided[i] = NoAnswer /\ ops[i].base < Row(e).version
    BY <1>14 DEF Spoiled
  <2>4. \A i \in Of(e) : ~(decided'[i] = NoAnswer /\ ops[i].base < Row(e).version + 1)
    BY <1>9, <1>14, <2>2 DEF Spoiled
  <2>5. \A i \in Of(e) : Waits(i) => decided[i] = NoAnswer /\ ops[i].base >= Row(e).version
    <3>1. ASSUME NEW i \in Of(e), Waits(i) PROVE decided[i] = NoAnswer
      <4>1. i \in 1 .. MaxOps /\ Decision(i)
        BY <1>1, <2>1, OperationTyped DEF Decisions
      <4> QED
        BY <1>1, <2>3, <3>1, <4>1, DecidedAnswers DEF Waits
    <3> QED
      BY <1>14, <3>1 DEF Current
  (* The one operation that is now in the feed, if there is one.              *)
  <2>6. \A i \in Of(e) : Waits(i) /\ ~Waits(i)' =>
          ops[i].base = Row(e).version /\ ops[i].edit = x.edit
          /\ (x.tombstone <=> ops[i].kind = "DELETE") /\ decided' # decided
    <3>1. ASSUME NEW i \in Of(e), Waits(i), ~Waits(i)'
          PROVE  ops[i].base = Row(e).version /\ ops[i].edit = x.edit
                 /\ (x.tombstone <=> ops[i].kind = "DELETE") /\ decided' # decided
      <4>1. decided'[i] # decided[i] /\ i \in 1 .. MaxOps
        BY <1>1, <2>1, <3>1, OperationTyped DEF Waits
      <4>2. PICK o \in DOMAIN ops :
              /\ Applies(o) /\ ops[o].entity = x.entity /\ ops[o].edit = x.edit
              /\ ops[o].base = Row(x.entity).version /\ (x.tombstone <=> ops[o].kind = "DELETE")
        BY <4>1
      <4>3. i = o
        BY <1>2, <4>1, <4>2 DEF Applies
      <4> QED
        BY <1>3, <4>1, <4>2, <4>3
    <3> QED
      BY <3>1
  <2>7. \A i \in Of(e) : Waits(i)' => Waits(i)
    <3>1. ASSUME NEW i \in Of(e), Waits(i)' PROVE Waits(i)
      <4>1. i \in 1 .. MaxOps
        BY <1>1, <2>1, OperationTyped
      <4>2. CASE decided'[i] = decided[i]
        BY <3>1, <4>2 DEF Waits
      <4>3. CASE decided'[i] # decided[i]
        <5>1. \E o \in DOMAIN ops : Applies(o)
          BY <4>3
        <5>2. decided[i] = NoAnswer
          BY <1>2, <4>1, <4>3, <5>1 DEF Applies
        <5> QED
          BY <5>2, PlainAnswers DEF Waits
      <4> QED
        BY <4>2, <4>3
    <3> QED
      BY <3>1
  (* Nothing that waits has the base that the server had.                     *)
  <2>8. \A i \in Of(e) : Waits(i) /\ Waits(i)' => ops[i].base >= Row(e).version + 1
    <3>1. ASSUME NEW i \in Of(e), Waits(i), Waits(i)' PROVE ops[i].base >= Row(e).version + 1
      <4>1. decided[i] = NoAnswer /\ i \in 1 .. MaxOps
        BY <1>1, <2>1, <2>5, <3>1, OperationTyped
      <4>2. decided'[i] = decided[i]
        <5>1. SUFFICES ASSUME decided'[i] # decided[i] PROVE FALSE
          OBVIOUS
        <5>2. PICK o \in DOMAIN ops : Applies(o)
          BY <5>1
        <5>3. decided'[i] = Plain("APPLIED")
          BY <1>2, <4>1, <5>1, <5>2 DEF Applies
        <5> QED
          BY <3>1, <5>3, PlainTyped DEF Waits
      <4> QED
        BY <2>1, <2>4, <4>1, <4>2
    <3> QED
      BY <3>1
  <2>9. \A i \in Of(e)' : Waits(i)' => ops'[i].base >= Row(e)'.version
    BY <1>9, <2>2, <2>7, <2>8
  <2>10. ASSUME NEW v \in Nat, Row(e)'.version <= v, v < records'[e].version
         PROVE  \E i \in Of(e)' : Waits(i)' /\ ops'[i].base = v
    <3>1. Row(e).version <= v /\ v # Row(e).version /\ v < records[e].version
      BY <2>1, <2>2, <2>10
    <3>2. PICK i \in Of(e) : Waits(i) /\ ops[i].base = v
      BY <1>14, <3>1 DEF Current
    <3>3. Waits(i)'
      BY <2>6, <3>1, <3>2
    <3> QED
      BY <1>9, <3>2, <3>3
  <2>11. \A n \in Changes(e)' : n <= cursor' => VersionAt(n)' <= records'[e].version
    <3>1. ~(new <= cursor)
      BY <1>5, <2>1
    <3> QED
      BY <1>6, <1>8, <1>14, <2>1, <3>1 DEF Current
  (* When the record is past the new change, the operation is of this device.  *)
  <2>12. ASSUME Row(e).version + 1 <= records[e].version
         PROVE  \E i \in Of(e) : Waits(i) /\ ~Waits(i)'
    <3>1. PICK i \in Of(e) : Waits(i) /\ ops[i].base = Row(e).version
      <4>1. PICK v \in Nat : v = Row(e).version
        BY <1>4, <1>11
      <4>2. Row(e).version <= v /\ v < records[e].version
        BY <2>1, <2>12, <4>1
      <4>3. \E i \in Of(e) : Waits(i) /\ ops[i].base = v
        BY <1>14, <4>2, Zenon DEF Current
      <4> QED
        BY <4>1, <4>3
    <3>2. ~Waits(i)'
      <4>1. SUFFICES ASSUME Waits(i)' PROVE FALSE
        OBVIOUS
      <4>2. ops[i].base >= Row(e).version + 1
        BY <2>8, <3>1, <4>1
      <4> QED
        BY <2>1, <3>1, <4>2
    <3> QED
      BY <3>1, <3>2
  <2>13. \A n \in Changes(e)' : VersionAt(n)' <= records'[e].version =>
           feed'[n].edit \in records'[e].edits
    <3>1. VersionAt(new)' <= records[e].version => x.edit \in records[e].edits
      BY <1>8, <1>14, <2>6, <2>12 DEF Current
    <3> QED
      BY <1>6, <1>8, <1>14, <2>1, <3>1 DEF Current
  <2>14. ASSUME NEW y \in records'[e].edits
         PROVE  \/ \E n \in Changes(e)' : feed'[n].edit = y
                \/ \E i \in Of(e)' : Waits(i)' /\ ops'[i].edit = y
    <3>1. CASE \E n \in Changes(e) : feed[n].edit = y
      BY <1>6, <2>1, <3>1
    <3>2. CASE \E i \in Of(e) : Waits(i) /\ ops[i].edit = y
      <4>1. PICK i \in Of(e) : Waits(i) /\ ops[i].edit = y
        BY <3>2
      <4>2. CASE Waits(i)'
        BY <1>9, <4>1, <4>2
      <4>3. CASE ~Waits(i)'
        <5>1. x.edit = y
          BY <2>6, <4>1, <4>3
        <5> QED
          BY <1>6, <5>1
      <4> QED
        BY <4>2, <4>3
    <3> QED
      BY <1>14, <3>1, <3>2 DEF Current
  <2>15. records'[e].deleted <=>
           \/ \E n \in Changes(e)' : feed'[n].tombstone /\ VersionAt(n)' <= records'[e].version
           \/ \E i \in Of(e)' : Waits(i)' /\ ops'[i].kind = "DELETE"
    <3>1. records[e].deleted <=>
            \/ \E n \in Changes(e) : feed[n].tombstone /\ VersionAt(n) <= records[e].version
            \/ \E i \in Of(e) : Waits(i) /\ ops[i].kind = "DELETE"
      BY <1>14 DEF Current
    <3>2. (\E n \in Changes(e)' : feed'[n].tombstone /\ VersionAt(n)' <= records'[e].version)
            <=> \/ \E n \in Changes(e) : feed[n].tombstone /\ VersionAt(n) <= records[e].version
                \/ x.tombstone /\ Row(e).version + 1 <= records[e].version
      BY <1>6, <1>8, <2>1
    <3>3. ASSUME x.tombstone, Row(e).version + 1 <= records[e].version
          PROVE  \E i \in Of(e) : Waits(i) /\ ops[i].kind = "DELETE"
      BY <2>6, <2>12, <3>3
    <3>4. ASSUME NEW i \in Of(e), Waits(i), ops[i].kind = "DELETE"
          PROVE  Waits(i)' \/ (x.tombstone /\ Row(e).version + 1 <= records[e].version)
      <4>1. SUFFICES ASSUME ~Waits(i)' PROVE x.tombstone /\ Row(e).version + 1 <= records[e].version
        OBVIOUS
      <4>2. ops[i].base = Row(e).version /\ x.tombstone
        BY <2>6, <3>4, <4>1
      <4>3. ops[i].base < records[e].version
        BY <1>14 DEF Current
      <4> QED
        BY <2>1, <4>2, <4>3
    <3> QED
      BY <1>9, <2>7, <3>1, <3>2, <3>3, <3>4
  <2>16. /\ FirstVersion(e)' <= records'[e].version
         /\ \A i \in Of(e)' : ops'[i].base < records'[e].version /\ ops'[i].edit \in records'[e].edits
    BY <1>9, <1>14, <2>2 DEF Current
  <2> QED
    BY <2>9, <2>10, <2>11, <2>13, <2>14, <2>15, <2>16 DEF Current
<1>15. \A d \in Entities : Spoiled(d)' \/ Current(d)'
  BY <1>4, <1>12, <1>13, <1>14 DEF Converging
<1>16. TombstonesLast'
  <2>1. \A m \in DOMAIN feed : feed[m].entity = e => ~feed[m].tombstone
    BY <1>2, <1>3, <1>4, RowTyped DEF Changes
  <2>2. ASSUME NEW m \in DOMAIN feed', NEW n \in DOMAIN feed', feed'[m].tombstone,
               feed'[n].entity = feed'[m].entity
        PROVE  n <= m
    <3>1. CASE m = new
      <4>1. new \in Nat /\ \A k \in DOMAIN feed : k < new
        BY <1>2, <1>5, <1>6
      <4>2. \A k \in DOMAIN feed : k \in Nat
        BY <1>2
      <4> QED
        BY <1>6, <3>1, <4>1, <4>2
    <3>2. CASE m \in DOMAIN feed /\ n = new
      BY <1>3, <1>6, <2>1, <2>2, <3>2
    <3>3. CASE m \in DOMAIN feed /\ n \in DOMAIN feed
      BY <1>6, <2>2, <3>3 DEF Converging, TombstonesLast
    <3> QED
      BY <1>6, <3>1, <3>2, <3>3
  <2> QED
    BY <2>2 DEF TombstonesLast
<1> QED
  BY <1>15, <1>16 DEF Converging

(* A decision, of whichever kind.                                            *)
LEMMA DecisionConverges ==
  ASSUME Sound, Converging, NEW o \in DOMAIN ops, Repeats \/ Applies(o) \/ TurnsDown(o),
         ops' = ops, records' = records, cursor' = cursor
  PROVE  Converging'
<1>1. Typed /\ Decisions /\ Creations
  BY DEF Sound
<1>2. /\ ops[o].entity \in Entities /\ feed \in Seq(Entries) /\ ops \in Seq(Operations)
      /\ o \in 1 .. MaxOps /\ decided \in [1 .. MaxOps -> Answers]
  BY <1>1, OperationTyped DEF Typed
<1>3. CASE Repeats
  <2>1. Restamped
    BY <1>2, StillRestamps
  <2> QED
    BY <1>1, <1>3, <2>1, ConvergingKept DEF Repeats
<1>4. CASE Applies(o)
  <2>1. PICK x \in Entries :
          /\ x.entity = ops[o].entity /\ x.edit = ops[o].edit
          /\ x.tombstone <=> ops[o].kind = "DELETE"
          /\ feed' = Append(feed, x)
    BY <1>4 DEF Applies
  <2>2. PICK e : e = ops[o].entity
    OBVIOUS
  <2>3. ~Row(e).deleted /\ ops[o].base = Row(e).version
    <3>1. ConflictOf(o) = "NONE"
      BY <1>4 DEF Applies
    <3>2. CASE ops[o].kind # "CREATE"
      BY <1>1, <2>2, <3>1, <3>2, ConflictCases
    <3>3. CASE ops[o].kind = "CREATE"
      <4>1. ~Exists(Row(e))
        BY <1>1, <2>2, <3>1, <3>3, ConflictCases
      <4>2. /\ Row(e).version = FirstVersion(e) + Cardinality(Changes(e))
            /\ FirstVersion(e) \in Nat /\ Cardinality(Changes(e)) \in Nat
            /\ IsFiniteSet(Changes(e))
            /\ Row(e).deleted <=> \E i \in Changes(e) : feed[i].tombstone
        BY <1>2, <2>2, RowTyped, ChangesCounted
      <4>3. Row(e).version = 0 /\ Cardinality(Changes(e)) = 0
        BY <4>1, <4>2 DEF Exists
      <4>4. Changes(e) = {}
        BY <4>2, <4>3, FS_EmptySet
      <4>5. ops[o].base = 0
        BY <1>1, <3>3 DEF Creations, Creation, Creates
      <4> QED
        BY <4>2, <4>3, <4>4, <4>5
    <3> QED
      BY <3>2, <3>3
  <2> QED
    BY <1>4, <2>1, <2>2, <2>3, GrowthConverges
<1>5. CASE TurnsDown(o)
  <2>1. feed' = feed
    BY <1>5 DEF TurnsDown
  <2>2. OpsKept /\ \A d : Of(d)' = Of(d)
    BY DEF OpsKept, Same, Of
  <2>3. \A d : /\ Changes(d)' = Changes(d) /\ Row(d)' = Row(d) /\ Row(d).version' = Row(d).version
               /\ \A n : VersionAt(n)' = VersionAt(n)
    BY <2>1 DEF Changes, Row, VersionAt, Older, FirstVersion
  <2>4. decided'[o].status = "CONFLICT" /\ \A i \in 1 .. MaxOps : i # o => decided'[i] = decided[i]
    BY <1>2, <1>5 DEF TurnsDown
  <2>5. ASSUME NEW d \in Entities PROVE Spoiled(d)' \/ Current(d)'
    <3>1. CASE d = ops[o].entity
      BY <2>4, <3>1 DEF Spoiled, Of
    <3>2. CASE d # ops[o].entity /\ Spoiled(d)
      <4>1. Row(d).version' >= Row(d).version /\ Row(d).version' \in Nat
        BY <1>1, <2>3, CurrentTyped
      <4> QED
        BY <1>5, <2>2, <3>2, <4>1, SpoiledStays
    <3>3. CASE d # ops[o].entity /\ Current(d)
      <4>1. \A i \in Of(d) : decided'[i] = decided[i]
        <5>1. \A i \in Of(d) : i \in 1 .. MaxOps /\ i # o
          BY <1>1, <3>3, OperationTyped DEF Of
        <5> QED
          BY <2>4, <5>1
      <4> QED
        BY <1>1, <2>1, <2>2, <2>3, <3>3, <4>1, CurrentStays
    <3> QED
      BY <3>1, <3>2, <3>3 DEF Converging
  <2>6. TombstonesLast'
    BY <2>1 DEF Converging, TombstonesLast
  <2> QED
    BY <2>5, <2>6 DEF Converging
<1> QED
  BY <1>3, <1>4, <1>5

LEMMA PeerEditConverges ==
  ASSUME Sound, Converging, NEW e \in Entities, NEW tombstone \in BOOLEAN, PeerEdit(e, tombstone)
  PROVE  Converging'
<1>1. Typed /\ Counted
  BY DEF Sound
<1>2. PICK x \in Entries : x.entity = e /\ feed' = Append(feed, x)
  BY <1>1, PeerEditTyped
<1>3. ~Row(e).deleted /\ decided' = decided /\ ops' = ops /\ records' = records /\ cursor' = cursor
  BY DEF PeerEdit, Alive, client
<1> QED
  BY <1>2, <1>3, GrowthConverges

(* A pull moves a record only when nothing of it waits.                       *)
LEMMA PullConverges ==
  ASSUME Sound, Converging, NEW k \in cursor + 1 .. Len(feed), Pull(k)
  PROVE  Converging'
<1>1. Typed
  BY DEF Sound
<1>2. /\ cursor' = k /\ ops' = ops /\ feed' = feed /\ decided' = decided
      /\ ops \in Seq(Operations) /\ feed \in Seq(Entries)
  BY <1>1 DEF Pull, server, Typed
<1>3. \A d : /\ Of(d)' = Of(d) /\ Changes(d)' = Changes(d) /\ Row(d)' = Row(d)
             /\ FirstVersion(d)' = FirstVersion(d)
             /\ \A n : VersionAt(n)' = VersionAt(n) /\ (Waits(n)' <=> Waits(n))
  BY <1>2 DEF Of, Changes, Row, VersionAt, Older, FirstVersion, Waits
<1>4. ASSUME NEW e \in Entities, Spoiled(e) PROVE Spoiled(e)'
  BY <1>2, <1>3, <1>4 DEF Spoiled
<1>5. ASSUME NEW e \in Entities, Current(e) PROVE Current(e)'
  <2>1. /\ records[e].version \in Nat /\ records[e].edits \in SUBSET Edits
        /\ Row(e).version \in Nat /\ FirstVersion(e) \in Nat
        /\ cursor \in Nat /\ cursor <= Len(feed) /\ Len(feed) \in Nat
        /\ \A i \in Of(e) : i \in DOMAIN ops /\ ops[i].base \in Nat
        /\ \A n \in Changes(e) : VersionAt(n) \in Nat /\ VersionAt(n) <= Row(e).version
                                 /\ FirstVersion(e) < VersionAt(n) /\ n \in Nat
                                 /\ n \in DOMAIN feed /\ feed[n].entity = e
    BY <1>1, CurrentTyped
  <2>2. \A n \in Changes(e) : n \in News(e, k) <=>
          cursor < n /\ n <= k /\ VersionAt(n) > records[e].version
    BY DEF News
  <2>3. k \in Nat /\ cursor < k
    BY <2>1
  <2>4. CASE News(e, k) = {}
    <3>1. records'[e] = records[e]
      BY <1>1, <2>4, PullCases
    <3>2. ASSUME NEW n \in Changes(e), n <= k PROVE VersionAt(n) <= records[e].version
      <4>1. CASE n <= cursor
        BY <1>5, <4>1 DEF Current
      <4>2. CASE ~(n <= cursor)
        BY <2>1, <2>2, <2>4, <3>2, <4>2
      <4> QED
        BY <4>1, <4>2
    <3>3. /\ FirstVersion(e)' <= records'[e].version
          /\ \A i \in Of(e)' : ops'[i].base < records'[e].version /\ ops'[i].edit \in records'[e].edits
          /\ \A i \in Of(e)' : Waits(i)' => ops'[i].base >= Row(e)'.version
          /\ \A v \in Nat : Row(e)'.version <= v /\ v < records'[e].version =>
               \E i \in Of(e)' : Waits(i)' /\ ops'[i].base = v
          /\ \A x \in records'[e].edits :
               \/ \E n \in Changes(e)' : feed'[n].edit = x
               \/ \E i \in Of(e)' : Waits(i)' /\ ops'[i].edit = x
      BY <1>2, <1>3, <1>5, <3>1 DEF Current
    <3>4. /\ \A n \in Changes(e)' : n <= cursor' => VersionAt(n)' <= records'[e].version
          /\ \A n \in Changes(e)' : VersionAt(n)' <= records'[e].version =>
               feed'[n].edit \in records'[e].edits
          /\ records'[e].deleted <=>
               \/ \E n \in Changes(e)' : feed'[n].tombstone /\ VersionAt(n)' <= records'[e].version
               \/ \E i \in Of(e)' : Waits(i)' /\ ops'[i].kind = "DELETE"
      BY <1>2, <1>3, <1>5, <3>1, <3>2 DEF Current
    <3> QED
      BY <3>3, <3>4 DEF Current
  <2>5. CASE News(e, k) # {}
    <3>1. PICK last \in News(e, k) :
            /\ \A m \in News(e, k) : m <= last
            /\ records'[e] = [version |-> VersionAt(last), deleted |-> feed[last].tombstone,
                              edits |-> records[e].edits \cup {feed[i].edit : i \in News(e, k)}]
      BY <1>1, <2>5, PullCases
    <3>2. /\ last \in Changes(e) /\ cursor < last /\ last <= k
          /\ VersionAt(last) > records[e].version
          /\ VersionAt(last) \in Nat /\ VersionAt(last) <= Row(e).version
          /\ FirstVersion(e) < VersionAt(last) /\ last \in Nat
      BY <2>1 DEF News
    <3>3. /\ records'[e].version = VersionAt(last) /\ records'[e].deleted = feed[last].tombstone
          /\ records'[e].edits = records[e].edits \cup {feed[i].edit : i \in News(e, k)}
      BY <3>1
    <3>4. \A i \in Of(e) : ~Waits(i)
      <4>1. \A i \in Of(e) : Waits(i) => ops[i].base >= Row(e).version
        BY <1>5 DEF Current
      <4>2. \A i \in Of(e) : ops[i].base < records[e].version
        BY <1>5 DEF Current
      <4> QED
        BY <2>1, <3>2, <4>1, <4>2
    (* The changes that are up to the last one of the pull.                    *)
    <3>5. ASSUME NEW n \in Changes(e), VersionAt(n) <= VersionAt(last)
          PROVE  n <= last /\ (n \in News(e, k) \/ VersionAt(n) <= records[e].version)
      <4>0. n \in Nat /\ last \in Nat /\ k \in Nat /\ cursor \in Nat /\ VersionAt(n) \in Nat
            /\ VersionAt(last) \in Nat /\ records[e].version \in Nat /\ last <= k
        BY <2>1, <2>3, <3>2
      <4>1. n <= last
        <5>1. last < n => VersionAt(last) < VersionAt(n)
          BY <1>2, <3>2, VersionsRise
        <5>2. VersionAt(n) <= VersionAt(last)
          BY <3>5
        <5> QED
          BY <4>0, <5>1, <5>2
      <4>2. CASE n <= cursor
        BY <1>5, <4>1, <4>2 DEF Current
      <4>3. CASE ~(n <= cursor)
        <5>1. cursor < n /\ n <= k
          BY <4>0, <4>1, <4>3
        <5>2. n \in News(e, k) <=> VersionAt(n) > records[e].version
          BY <2>2, <5>1
        <5> QED
          BY <4>0, <4>1, <5>2
      <4> QED
        BY <4>1, <4>2, <4>3
    <3>6. ASSUME NEW n \in Changes(e), n <= k PROVE VersionAt(n) <= VersionAt(last)
      <4>0. n \in Nat /\ last \in Nat /\ k \in Nat /\ cursor \in Nat /\ VersionAt(n) \in Nat
            /\ VersionAt(last) \in Nat /\ records[e].version \in Nat
            /\ VersionAt(last) > records[e].version
        BY <2>1, <2>3, <3>2
      <4>1. CASE n <= cursor
        <5>1. VersionAt(n) <= records[e].version
          BY <1>5, <4>1 DEF Current
        <5> QED
          BY <4>0, <5>1
      <4>2. CASE ~(n <= cursor) /\ n \notin News(e, k)
        <5>1. cursor < n /\ n <= k
          BY <3>6, <4>0, <4>2
        <5>2. ~(VersionAt(n) > records[e].version)
          BY <2>2, <4>2, <5>1
        <5> QED
          BY <4>0, <5>2
      <4>3. CASE n \in News(e, k)
        <5>1. n <= last
          BY <3>1, <4>3
        <5>2. n < last => VersionAt(n) < VersionAt(last)
          BY <1>2, <3>2, VersionsRise
        <5>3. CASE n = last
          BY <4>0, <5>3
        <5>4. CASE n < last
          BY <4>0, <5>2, <5>4
        <5> QED
          BY <4>0, <5>1, <5>3, <5>4
      <4> QED
        BY <4>1, <4>2, <4>3
    <3>7. /\ FirstVersion(e)' <= records'[e].version
          /\ \A i \in Of(e)' : Waits(i)' => ops'[i].base >= Row(e)'.version
          /\ \A v \in Nat : Row(e)'.version <= v /\ v < records'[e].version =>
               \E i \in Of(e)' : Waits(i)' /\ ops'[i].base = v
      BY <1>2, <1>3, <2>1, <3>2, <3>3, <3>4
    <3>8. \A i \in Of(e)' : ops'[i].base < records'[e].version /\ ops'[i].edit \in records'[e].edits
      <4>1. \A i \in Of(e) : ops[i].base < records[e].version /\ ops[i].edit \in records[e].edits
        BY <1>5 DEF Current
      <4> QED
        BY <1>2, <1>3, <2>1, <3>2, <3>3, <4>1
    <3>9. \A n \in Changes(e)' : n <= cursor' => VersionAt(n)' <= records'[e].version
      BY <1>2, <1>3, <3>3, <3>6
    <3>10. \A n \in Changes(e)' : VersionAt(n)' <= records'[e].version =>
             feed'[n].edit \in records'[e].edits
      <4>1. ASSUME NEW n \in Changes(e), VersionAt(n) <= VersionAt(last)
            PROVE  feed[n].edit \in records'[e].edits
        <5>1. CASE n \in News(e, k)
          BY <3>3, <5>1
        <5>2. CASE VersionAt(n) <= records[e].version
          BY <1>5, <3>3, <5>2 DEF Current
        <5> QED
          BY <3>5, <4>1, <5>1, <5>2
      <4> QED
        BY <1>2, <1>3, <3>3, <4>1
    <3>11. ASSUME NEW x \in records'[e].edits
           PROVE  \E n \in Changes(e)' : feed'[n].edit = x
      <4>1. CASE x \in records[e].edits
        BY <1>2, <1>3, <1>5, <3>4, <4>1 DEF Current
      <4>2. CASE x \in {feed[i].edit : i \in News(e, k)}
        BY <1>2, <1>3, <2>1, <4>2 DEF News
      <4> QED
        BY <3>3, <4>1, <4>2
    <3>12. records'[e].deleted <=>
             \E n \in Changes(e)' : feed'[n].tombstone /\ VersionAt(n)' <= records'[e].version
      <4>1. ASSUME NEW n \in Changes(e), feed[n].tombstone, VersionAt(n) <= VersionAt(last)
            PROVE  n = last
        <5>1. n <= last
          BY <3>5, <4>1
        <5>2. last <= n
          BY <2>1, <3>2, <4>1 DEF Converging, TombstonesLast
        <5>3. n \in Nat /\ last \in Nat
          BY <2>1, <3>2
        <5> QED
          BY <5>1, <5>2, <5>3
      <4>2. VersionAt(last) <= VersionAt(last)
        BY <3>2
      <4>3. records'[e].deleted <=> feed[last].tombstone
        BY <3>3
      <4> QED
        BY <1>2, <1>3, <3>2, <3>3, <4>1, <4>2, <4>3
    <3>13. ~ \E i \in Of(e)' : Waits(i)' /\ ops'[i].kind = "DELETE"
      BY <1>3, <3>4
    <3> QED
      BY <3>7, <3>8, <3>9, <3>10, <3>11, <3>12, <3>13 DEF Current
  <2> QED
    BY <2>4, <2>5
<1>6. TombstonesLast'
  BY <1>2 DEF Converging, TombstonesLast
<1> QED
  BY <1>4, <1>5, <1>6 DEF Converging

(* A record whose conflict is resolved has an operation that was turned down. *)
LEMMA ResolveConverges ==
  ASSUME Sound, Converging, NEW o \in DOMAIN ops, NEW r, Resolve(o, r)
  PROVE  Converging'
<1>1. Typed /\ Decisions
  BY DEF Sound
<1>2. Settles(o) /\ (KeepsServer(o) \/ KeepsMine(o))
  BY <1>1, ResolveCases
<1>3. decided[o].status = "CONFLICT" /\ o \in 1 .. MaxOps
  BY <1>1, <1>2, OperationTyped DEF Decisions, Decision, Settles
<1>4. feed' = feed /\ decided' = decided /\ cursor' = cursor
  BY <1>2 DEF Settles, server
<1>5. \A d : /\ Changes(d)' = Changes(d) /\ Row(d)' = Row(d)
             /\ \A n : VersionAt(n)' = VersionAt(n)
  BY <1>4 DEF Changes, Row, VersionAt, Older, FirstVersion
<1>6. /\ OpsKept
      /\ \A d \in Entities : d # ops[o].entity => Of(d)' = Of(d) /\ records'[d] = records[d]
  <2>1. CASE KeepsServer(o)
    BY <2>1 DEF KeepsServer, OpsKept, Restamped, Of, Same
  <2>2. CASE KeepsMine(o)
    <3>1. PICK x : Extends(x) /\ x.entity = ops[o].entity
      BY <2>2 DEF KeepsMine
    <3>2. PICK new : new = Len(ops) + 1
      OBVIOUS
    <3>3. /\ DOMAIN ops' = DOMAIN ops \cup {new} /\ new \notin DOMAIN ops /\ ops'[new] = x
          /\ \A i \in DOMAIN ops : Same(ops'[i], ops[i])
      BY <3>1, <3>2 DEF Extends
    <3> QED
      BY <2>2, <3>1, <3>3 DEF KeepsMine, OpsKept, Of, Same
  <2> QED
    BY <1>2, <2>1, <2>2
<1>7. ASSUME NEW d \in Entities PROVE Spoiled(d)' \/ Current(d)'
  <2>1. CASE d = ops[o].entity
    <3>1. o \in Of(d)' /\ decided'[o].status = "CONFLICT"
      BY <1>3, <1>4, <1>6, <2>1 DEF Of, OpsKept, Same
    <3> QED
      BY <3>1 DEF Spoiled
  <2>2. CASE d # ops[o].entity /\ Current(d)
    BY <1>1, <1>4, <1>5, <1>6, <2>2, CurrentStays
  <2>3. CASE d # ops[o].entity /\ Spoiled(d)
    <3>1. \A i \in Of(d) : ops'[i].base = ops[i].base
      BY <1>6 DEF OpsKept, Same, Of
    <3> QED
      BY <1>4, <1>5, <1>6, <2>3, <3>1 DEF Spoiled
  <2> QED
    BY <2>1, <2>2, <2>3 DEF Converging
<1>8. TombstonesLast'
  BY <1>4 DEF Converging, TombstonesLast
<1> QED
  BY <1>7, <1>8 DEF Converging

LEMMA ConvergingAtFirst ==
  ASSUME Init
  PROVE  Converging
<1>1. Sound
  BY SoundAtFirst
<1>2. Typed
  BY <1>1 DEF Sound
<1>3. TombstonesLast
  BY DEF Init, TombstonesLast
<1>4. ASSUME NEW e \in Entities PROVE Current(e)
  <2>1. Of(e) = {} /\ Changes(e) = {} /\ cursor = 0
    BY DEF Init, Of, Changes
  <2>2. records[e] = IF e \in Existing THEN FirstRecord ELSE NoRecord
    BY DEF Init
  <2>3. records[e].version = FirstVersion(e) /\ records[e].edits = {} /\ ~records[e].deleted
    BY <2>2 DEF FirstVersion, FirstRecord, NoRecord
  <2>4. Row(e).version = FirstVersion(e) /\ FirstVersion(e) \in Nat
    <3>1. Row(e).version = FirstVersion(e) + Cardinality(Changes(e))
      BY <1>2, RowTyped DEF Typed
    <3> QED
      BY <2>1, <3>1, FS_EmptySet, FirstVersions
  <2> QED
    BY <2>1, <2>3, <2>4 DEF Current
<1> QED
  BY <1>3, <1>4 DEF Converging

LEMMA ConvergingStays ==
  ASSUME Sound, Converging, [Next]_vars
  PROVE  Converging'
<1>1. Typed /\ Requests /\ ops \in Seq(Operations) /\ "SYNCING" \in Statuses
  BY DEF Sound, Typed, Statuses
<1>2. CASE Next
  <2>1. ASSUME NEW e \in Entities,
               CreateProject(e) \/ CreateBelow(e) \/ Update(e) \/ Delete(e)
        PROVE  Converging'
    BY <2>1, MutationsConverge
  <2>2. ASSUME NEW l \in Loops, Collect(l) \/ Send(l) \/ Gate(l)
        PROVE  Converging'
    <3>1. Restamped
      BY <1>1, <2>2, StillRestamps, MarkRestamps DEF Collect, Send, Gate, client
    <3>2. UNCHANGED <<feed, decided, records, cursor>>
      BY <2>2 DEF Collect, Send, Gate, server, client
    <3> QED
      BY <1>1, <3>1, <3>2, ConvergingKept
  <2>3. ASSUME NEW l \in Loops, Reply(l)
        PROVE  Converging'
    <3>1. Restamped /\ UNCHANGED <<feed, decided, records, cursor>>
      BY <2>3, ReplyCases DEF server
    <3> QED
      BY <1>1, <3>1, ConvergingKept
  <2>4. ASSUME NEW l \in Loops, TransportFails(l) \/ Restart(l)
        PROVE  Converging'
    <3>1. UNCHANGED <<feed, decided, records, cursor>>
      BY <2>4 DEF TransportFails, Restart
    <3>2. \/ ops' = ops
          \/ \E S : \E d \in BOOLEAN : ops' = Requeue(S, d)
      BY <2>4 DEF TransportFails, Restart
    <3>3. Restamped
      BY <1>1, <3>2, StillRestamps, RequeueRestamps
    <3> QED
      BY <1>1, <3>1, <3>3, ConvergingKept
  <2>5. ASSUME NEW l \in Loops, Serve(l)
        PROVE  Converging'
    <3>1. PICK o : o = Head(Rest(l))
      OBVIOUS
    <3>2. o \in DOMAIN ops
      BY <1>1, <2>5, <3>1, RestTyped DEF Serve
    <3>3. \E answer : Evaluate(o, answer)
      BY <2>5, <3>1 DEF Serve
    <3>4. Decision(o)
      BY <1>1, <3>2, OperationTyped DEF Sound, Decisions
    <3>5. Repeats \/ Applies(o) \/ TurnsDown(o)
      BY <1>1, <3>2, <3>3, <3>4, EvaluateCases
    <3>6. ops' = ops /\ records' = records /\ cursor' = cursor
      BY <2>5 DEF Serve, client
    <3> QED
      BY <3>2, <3>5, <3>6, DecisionConverges
  <2>6. ASSUME NEW s \in orphans, ServeOrphan(s)
        PROVE  Converging'
    <3>1. PICK o : o = Head(s)
      OBVIOUS
    <3>2. o \in DOMAIN ops
      <4>1. s \in Seq(1 .. MaxOps) /\ s # <<>> /\ \A n \in DOMAIN s : s[n] \in DOMAIN ops
        BY <1>1 DEF Typed, Requests
      <4>2. PICK R : R = 1 .. MaxOps
        OBVIOUS
      <4>3. 1 \in DOMAIN s /\ Head(s) = s[1]
        BY <4>1, <4>2
      <4> QED
        BY <3>1, <4>1, <4>3
    <3>3. \E answer : Evaluate(o, answer)
      BY <2>6, <3>1 DEF ServeOrphan
    <3>4. Decision(o)
      BY <1>1, <3>2, OperationTyped DEF Sound, Decisions
    <3>5. Repeats \/ Applies(o) \/ TurnsDown(o)
      BY <1>1, <3>2, <3>3, <3>4, EvaluateCases
    <3>6. ops' = ops /\ records' = records /\ cursor' = cursor
      BY <2>6 DEF ServeOrphan, client
    <3> QED
      BY <3>2, <3>5, <3>6, DecisionConverges
  <2>7. ASSUME NEW e \in Entities, NEW tombstone \in BOOLEAN, PeerEdit(e, tombstone)
        PROVE  Converging'
    BY <2>7, PeerEditConverges
  <2>8. ASSUME DeviceChanges
        PROVE  Converging'
    BY <1>1, <2>8, StillRestamps, ConvergingKept DEF DeviceChanges, client
  <2>9. ASSUME NEW i \in DOMAIN ops, DelayEnds(i)
        PROVE  Converging'
    BY <1>1, <2>9, DelayRestamps, ConvergingKept DEF DelayEnds, server
  <2>10. ASSUME NEW i \in DOMAIN ops, NEW r, Resolve(i, r)
         PROVE  Converging'
    BY <2>10, ResolveConverges
  <2>11. ASSUME Revalidated
         PROVE  Converging'
    <3>1. /\ \E S : ops' = Requeue(S, FALSE)
          /\ UNCHANGED <<feed, decided, records, cursor>>
      BY <2>11 DEF Revalidated, server
    <3> QED
      BY <1>1, <3>1, RequeueRestamps, ConvergingKept
  <2>12. ASSUME NEW k \in cursor + 1 .. Len(feed), Pull(k)
         PROVE  Converging'
    BY <2>12, PullConverges
  <2> QED
    BY <1>2, <2>1, <2>2, <2>3, <2>4, <2>5, <2>6, <2>7, <2>8, <2>9, <2>10, <2>11, <2>12
       DEF Next, Push
<1>3. CASE UNCHANGED vars
  <2>1. UNCHANGED <<feed, decided, records, cursor, ops>>
    BY <1>3 DEF vars, client, server
  <2> QED
    BY <1>1, <2>1, StillRestamps, ConvergingKept
<1> QED
  BY <1>2, <1>3

(* When all operations of a record are SYNCED and the feed has been pulled,   *)
(* the record is what the server has.                                       *)
THEOREM RecordsConverge == Spec => []SyncedRecordsConverge
<1>1. Init => Sound /\ Converging
  BY SoundAtFirst, ConvergingAtFirst
<1>2. Sound /\ Converging /\ [Next]_vars => Sound' /\ Converging'
  BY SoundStays, ConvergingStays
<1>3. Sound /\ Converging => SyncedRecordsConverge
  <2> SUFFICES ASSUME Sound, Converging, cursor = Len(feed), NEW e \in Entities,
                      \A i \in DOMAIN ops : ops[i].entity = e => ops[i].status = "SYNCED"
               PROVE  records[e] = Row(e)
    BY DEF SyncedRecordsConverge
  <2>1. Typed /\ QueueMatchesServer
    BY DEF Sound, Decisions
  <2>2. \A i \in Of(e) : decided[i].status = "APPLIED" /\ decided[i] # NoAnswer
    <3>1. \A i \in Of(e) : decided[i].status = "APPLIED"
      BY <2>1 DEF Of, QueueMatchesServer
    <3> QED
      BY <3>1, PlainAnswers
  <2>3. Current(e) /\ \A i \in Of(e) : ~Waits(i)
    BY <2>2 DEF Converging, Spoiled, Waits
  <2>4. /\ records[e] \in Records /\ records[e].version \in Nat
        /\ records[e].deleted \in BOOLEAN
        /\ Row(e).version \in Nat /\ FirstVersion(e) \in Nat
        /\ feed \in Seq(Entries) /\ Len(feed) \in Nat
        /\ \A n \in Changes(e) : VersionAt(n) \in Nat /\ VersionAt(n) <= Row(e).version
                                 /\ n <= Len(feed)
    BY <2>1, CurrentTyped
  <2>5. /\ Row(e).deleted \in BOOLEAN
        /\ Row(e).deleted <=> \E i \in Changes(e) : feed[i].tombstone
        /\ Row(e).edits = {feed[i].edit : i \in Changes(e)}
        /\ Row(e).version = FirstVersion(e) + Cardinality(Changes(e)) /\ Row(e) \in Records
    BY <2>4, RowTyped
  <2>6. \A n \in Changes(e) : VersionAt(n) <= records[e].version
    BY <2>3, <2>4 DEF Current
  <2>7. Row(e).version <= records[e].version
    <3>1. CASE Changes(e) = {}
      BY <2>3, <2>4, <2>5, <3>1, FS_EmptySet DEF Current
    <3>2. CASE Changes(e) # {}
      BY <2>4, <2>6, <3>2, LastVersion
    <3> QED
      BY <3>1, <3>2
  <2>8. records[e].version = Row(e).version
    <3>1. ~(Row(e).version < records[e].version)
      BY <2>3, <2>4 DEF Current
    <3> QED
      BY <2>4, <2>7, <3>1
  <2>9. records[e].edits = Row(e).edits
    <3>1. \A x \in records[e].edits : \E n \in Changes(e) : feed[n].edit = x
      BY <2>3 DEF Current
    <3>2. \A n \in Changes(e) : feed[n].edit \in records[e].edits
      BY <2>3, <2>6 DEF Current
    <3> QED
      BY <2>5, <3>1, <3>2
  <2>10. records[e].deleted = Row(e).deleted
    <3>1. records[e].deleted <=> \E n \in Changes(e) : feed[n].tombstone
      BY <2>3, <2>6 DEF Current
    <3> QED
      BY <2>4, <2>5, <3>1
  <2>11. ASSUME NEW r1 \in Records, NEW r2 \in Records, r1.version = r2.version,
                r1.edits = r2.edits, r1.deleted = r2.deleted
         PROVE  r1 = r2
    BY <2>11 DEF Records
  <2> QED
    BY <2>4, <2>5, <2>8, <2>9, <2>10, <2>11
<1> QED
  BY <1>1, <1>2, <1>3, PTL DEF Spec
=============================================================================
