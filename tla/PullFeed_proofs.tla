--------------------------- MODULE PullFeed_proofs ---------------------------
(***************************************************************************)
(* Types of PullFeed, and what its operators on pages and records return.   *)
(***************************************************************************)
EXTENDS PullFeed, FiniteSetTheorems, SequenceTheorems, TLAPS

-----------------------------------------------------------------------------
(* Data.                                                                   *)

(* A finite, nonempty set of naturals has a maximum: otherwise the numbers   *)
(* of elements below its elements would be too few to be different.         *)
LEMMA MaxInSet ==
  ASSUME NEW S \in SUBSET Nat, S # {}, IsFiniteSet(S)
  PROVE  Max(S) \in S /\ \A s \in S : s <= Max(S)
<1> DEFINE below(x) == {y \in S : y < x}
           m == Cardinality(S)
           f == [x \in S |-> Cardinality(below(x))]
<1>1. m \in Nat
  BY FS_CardinalityType
<1>2. \A x \in S : IsFiniteSet(below(x)) /\ Cardinality(below(x)) \in Nat
  <2> SUFFICES ASSUME NEW x \in S PROVE IsFiniteSet(below(x)) /\ Cardinality(below(x)) \in Nat
    OBVIOUS
  <2>1. below(x) \in SUBSET S
    OBVIOUS
  <2>2. IsFiniteSet(below(x))
    BY <2>1, FS_Subset
  <2> QED
    BY <2>2, FS_CardinalityType
<1>3. \E x \in S : \A y \in S : y <= x
  <2> SUFFICES ASSUME \A x \in S : \E y \in S : x < y PROVE FALSE
    OBVIOUS
  <2>1. \A x \in S : Cardinality(below(x)) <= m - 2
    <3> SUFFICES ASSUME NEW x \in S PROVE Cardinality(below(x)) <= m - 2
      OBVIOUS
    <3>1. PICK y \in S : x < y
      OBVIOUS
    <3>2. IsFiniteSet(S \ {x}) /\ Cardinality(S \ {x}) = m - 1
      BY FS_RemoveElement
    <3>3. IsFiniteSet((S \ {x}) \ {y}) /\ Cardinality((S \ {x}) \ {y}) = m - 2
      <4>1. y \in S \ {x} /\ (m - 1) - 1 = m - 2
        BY <1>1, <3>1
      <4> QED
        BY <3>2, <4>1, FS_RemoveElement
    <3>4. below(x) \in SUBSET ((S \ {x}) \ {y})
      BY <3>1
    <3> QED
      BY <3>3, <3>4, FS_Subset
  <2>2. m - 2 \in Int /\ 0 \in Int /\ m - 2 >= 0
    <3>1. PICK x \in S : TRUE
      OBVIOUS
    <3>2. Cardinality(below(x)) \in Nat /\ Cardinality(below(x)) <= m - 2
      BY <1>2, <2>1
    <3> QED
      BY <1>1, <3>2
  <2>3. f \in [S -> 0 .. (m - 2)]
    <3>1. \A x \in S : Cardinality(below(x)) \in 0 .. (m - 2)
      BY <1>1, <1>2, <2>1
    <3> QED
      BY <3>1
  <2>4. IsFiniteSet(0 .. (m - 2)) /\ Cardinality(0 .. (m - 2)) < m
    BY <1>1, <2>2, FS_Interval
  <2>5. PICK x \in S, y \in S : x # y /\ f[x] = f[y]
    <3> HIDE DEF f
    <3> QED
      BY <2>3, <2>4, FS_PigeonHole
  <2>6. ASSUME NEW u \in S, NEW v \in S, u < v, f[u] = f[v] PROVE FALSE
    <3>0. S \subseteq Nat /\ u < v
      BY <2>6
    <3>1. below(u) \in SUBSET below(v) /\ u \in below(v) /\ u \notin below(u)
      <4>1. \A z \in S : z < u => z < v
        BY <3>0
      <4>2. u \in below(v) /\ u \notin below(u)
        BY <3>0
      <4> QED
        BY <4>1, <4>2
    <3>2. below(v) = below(u)
      <4>1. Cardinality(below(v)) = Cardinality(below(u))
        BY <2>6
      <4> HIDE DEF below
      <4> QED
        BY <1>2, <3>1, <4>1, FS_Subset
    <3> QED
      BY <3>1, <3>2
  <2>7. x < y \/ y < x
    BY <2>5
  <2> QED
    BY <2>5, <2>6, <2>7
<1> QED
  BY <1>3 DEF Max

(* The first page of a finite set is closed downwards.                      *)
LEMMA PageClosed ==
  ASSUME NEW S \in SUBSET Changes, IsFiniteSet(S), NEW d \in FirstPage(S),
         NEW c \in S, c.sequence <= d.sequence
  PROVE  c \in FirstPage(S)
<1> DEFINE below(x) == {b \in S : b.sequence <= x.sequence}
<1>1. below(c) \subseteq below(d) /\ below(d) \subseteq S
  BY DEF FirstPage, Changes
<1>2. IsFiniteSet(below(d))
  BY <1>1, FS_Subset
<1>3. Cardinality(below(c)) <= Cardinality(below(d)) /\ IsFiniteSet(below(c))
  BY <1>1, <1>2, FS_Subset
<1>4. Cardinality(below(d)) <= Limit
  BY DEF FirstPage
<1>5. Cardinality(below(c)) \in Nat /\ Cardinality(below(d)) \in Nat
  BY <1>2, <1>3, FS_CardinalityType
<1>6. Cardinality(below(c)) <= Limit
  BY <1>3, <1>4, <1>5, FeedAssumption
<1> QED
  BY <1>6 DEF FirstPage

-----------------------------------------------------------------------------
(* Types.                                                                  *)

(* The answer to a query: a part of the log, and its highest sequence.      *)
LEMMA QueryAnswer ==
  ASSUME TypeOK, IsFiniteSet(log), NEW p \in Pullers,
         NEW S, S = FirstPage(Visible(p))
  PROVE  /\ S \subseteq Visible(p) /\ Visible(p) \subseteq log
         /\ IsFiniteSet(Visible(p)) /\ IsFiniteSet(S)
         /\ Latest(p, S) \in Nat /\ Latest(p, S) >= after[p]
         /\ S = {} => Latest(p, S) = after[p]
         /\ S # {} => \E d \in S : Latest(p, S) = d.sequence
         /\ \A c \in S : c.sequence <= Latest(p, S)
<1>1. S \subseteq Visible(p) /\ Visible(p) \subseteq log /\ log \subseteq Changes
  BY DEF FirstPage, Visible, TypeOK
<1>2. IsFiniteSet(Visible(p)) /\ IsFiniteSet(S)
  <2>1. IsFiniteSet(Visible(p))
    BY <1>1, FS_Subset
  <2> QED
    BY <1>1, <2>1, FS_Subset
<1>3. CASE S = {}
  BY <1>1, <1>2, <1>3 DEF Latest, TypeOK
<1>4. CASE S # {}
  <2> DEFINE Q == {c.sequence : c \in S}
  <2>1. Q \in SUBSET Nat /\ Q # {}
    BY <1>1, <1>4 DEF Changes
  <2>2. IsFiniteSet(Q)
    <3>1. [c \in S |-> c.sequence] \in Surjection(S, Q)
      BY DEF Surjection
    <3> QED
      BY <1>2, <3>1, FS_Surjection
  <2>3. Max(Q) \in Q /\ \A q \in Q : q <= Max(Q)
    BY <2>1, <2>2, MaxInSet
  <2>4. Latest(p, S) = Max(Q)
    BY <1>4 DEF Latest
  <2>5. PICK d \in S : Max(Q) = d.sequence
    BY <2>3
  <2>6. d.sequence > after[p] /\ after[p] \in Nat /\ d.sequence \in Nat
    BY <1>1, <2>5 DEF Visible, TypeOK, Changes
  <2>7. \A c \in S : c.sequence <= Max(Q)
    BY <2>3
  <2>8. Latest(p, S) = d.sequence /\ \A c \in S : c.sequence <= Latest(p, S)
    BY <2>4, <2>5, <2>7
  <2>9. Latest(p, S) \in Nat /\ Latest(p, S) >= after[p]
    BY <2>6, <2>8
  <2> QED
    BY <1>1, <1>2, <1>4, <2>8, <2>9
<1> QED
  BY <1>3, <1>4

(* The number of changes of an entity, and what a commit makes of it.       *)
LEMMA VersionType ==
  ASSUME IsFiniteSet(log), NEW e
  PROVE  VersionOf(e) \in Nat /\ Cardinality(log) \in Nat
<1>1. {c \in log : c.entity = e} \in SUBSET log
  OBVIOUS
<1>2. IsFiniteSet({c \in log : c.entity = e})
  BY <1>1, FS_Subset
<1> QED
  BY <1>2, FS_CardinalityType DEF VersionOf

(* What a page makes of a record.                                           *)
LEMMA MergeType ==
  ASSUME NEW r \in Records, NEW C \in SUBSET Changes, IsFiniteSet(C)
  PROVE  /\ Merge(r, C) \in Records
         /\ C = {} => Merge(r, C) = r
         /\ C # {} => \E d \in C :
              /\ \A c \in C : c.version <= d.version
              /\ Merge(r, C).version = d.version
              /\ Merge(r, C).deleted = (\E c \in C : c.version = d.version /\ c.tombstone)
         /\ Merge(r, C).merged = r.merged \cup {c.payload : c \in C}
<1>1. CASE C = {}
  BY <1>1 DEF Merge
<1>2. CASE C # {}
  <2> DEFINE V == {c.version : c \in C}
             P == {c.payload : c \in C}
             dead(n) == \E c \in C : c.version = n /\ c.tombstone
  <2>1. V \in SUBSET Nat /\ V # {}
    BY <1>2 DEF Changes
  <2>2. IsFiniteSet(V)
    <3>1. [c \in C |-> c.version] \in Surjection(C, V)
      BY DEF Surjection
    <3> QED
      BY <3>1, FS_Surjection
  <2>3. Max(V) \in V /\ \A v \in V : v <= Max(V)
    BY <2>1, <2>2, MaxInSet
  <2>4. Merge(r, C) = [version |-> Max(V), deleted |-> dead(Max(V)), merged |-> r.merged \cup P]
    BY <1>2 DEF Merge
  <2>5. PICK d \in C : d.version = Max(V)
    BY <2>3
  <2>6. Max(V) \in Nat /\ dead(Max(V)) \in BOOLEAN /\ r.merged \cup P \in SUBSET Nat
    BY <2>1, <2>3 DEF Records, Changes
  <2>7. Merge(r, C) \in Records
    <3> HIDE DEF V, P, dead
    <3> QED
      BY <2>4, <2>6 DEF Records
  <2>8. /\ Merge(r, C).version = d.version /\ Merge(r, C).deleted = dead(d.version)
        /\ Merge(r, C).merged = r.merged \cup P
    <3> HIDE DEF V, P, dead
    <3> QED
      BY <2>4, <2>5
  <2>9. \A c \in C : c.version <= d.version
    BY <2>3, <2>5
  <2> QED
    BY <1>2, <2>7, <2>8, <2>9
<1> QED
  BY <1>1, <1>2

(* A page is cut from the log.                                              *)
Typed ==
  /\ TypeOK
  /\ IsFiniteSet(log)
  /\ \A p \in Pullers : page[p].changes \subseteq log

LEMMA TypedInit == Init => Typed
<1> SUFFICES ASSUME Init PROVE Typed
  OBVIOUS
<1>1. NoRecord \in Records /\ NoPage \in [changes : SUBSET Changes, latest : Nat, more : BOOLEAN]
  BY DEF NoRecord, Records, NoPage
<1>2. TypeOK
  BY <1>1, FeedAssumption DEF Init, TypeOK
<1> QED
  BY <1>2, FS_EmptySet DEF Init, Typed, NoPage

(* The state of the loops that Quit leaves is that of no loop.              *)
LEMMA QuitTyped ==
  ASSUME TypeOK, NEW p \in Pullers, Quit(p)
  PROVE  /\ pc' \in [Pullers -> {"idle", "read", "gate", "members", "query", "record", "apply"}]
         /\ scope' \in [Pullers -> Scopes \cup {Default}]
         /\ after' \in [Pullers -> Nat]
         /\ granted' \in [Pullers -> SUBSET Projects]
         /\ page' \in [Pullers -> [changes : SUBSET Changes, latest : Nat, more : BOOLEAN]]
         /\ \A q \in Pullers :
              /\ pc'[q] # "idle" => scope'[q] \in Scopes
              /\ pc'[q] \in {"record", "apply"} => page'[q].latest >= after'[q]
<1>1. NoPage \in [changes : SUBSET Changes, latest : Nat, more : BOOLEAN]
  BY DEF NoPage
<1> QED
  BY <1>1 DEF Quit, TypeOK

(* The steps that only the device's edits take, and what they leave alone.   *)
Local ==
  \/ \E e \in Edited : Create(e) \/ \E tombstone \in BOOLEAN : Edit(e, tombstone)
  \/ \E i \in DOMAIN edits :
       Push(i) \/ TurnDown(i) \/ Learn(i) \/ KeepServer(i) \/ KeepMine(i)

LEMMA LocalFrame ==
  ASSUME Local
  PROVE  UNCHANGED <<log, joined, window, cursor, loop, pulls>>
BY DEF Local, Create, Edit, Mutate, Push, Insert, TurnDown, Learn, KeepServer, KeepMine,
       server, client, queue, loop

(* An operation keeps what it says; only its status and conflict change.     *)
Same(x, y) ==
  /\ y.entity = x.entity /\ y.base = x.base
  /\ y.tombstone = x.tombstone /\ y.payload = x.payload

Grown ==
  /\ edits' \in Seq(Operations)
  /\ DOMAIN edits = 1 .. Len(edits) /\ DOMAIN edits' = 1 .. Len(edits')
  /\ Len(edits) \in Nat /\ Len(edits') \in Nat /\ Len(edits) <= Len(edits')
  /\ \A i \in DOMAIN edits : Same(edits[i], edits'[i])

LEMMA EditsKept == ASSUME TypeOK, edits' = edits PROVE Grown
BY LenProperties DEF TypeOK, Grown, Same

LEMMA EditsSet ==
  ASSUME TypeOK, NEW i \in DOMAIN edits, NEW y \in Operations, Same(edits[i], y),
         edits' = [edits EXCEPT ![i] = y]
  PROVE  Grown /\ Len(edits') = Len(edits)
<1>1. edits \in Seq(Operations) /\ Len(edits) \in Nat /\ DOMAIN edits = 1 .. Len(edits)
  BY LenProperties DEF TypeOK
<1>2. /\ edits' \in Seq(Operations) /\ Len(edits') = Len(edits)
      /\ \A j \in 1 .. Len(edits) : edits'[j] = IF j = i THEN y ELSE edits[j]
  BY <1>1, ExceptSeq
<1>3. DOMAIN edits' = 1 .. Len(edits')
  BY <1>2, LenProperties
<1> QED
  BY <1>1, <1>2, <1>3 DEF Grown, Same

LEMMA EditsAppended ==
  ASSUME TypeOK, NEW old \in Seq(Operations), NEW y \in Operations, edits' = Append(old, y),
         Len(old) = Len(edits), \A i \in DOMAIN edits : Same(edits[i], old[i])
  PROVE  Grown /\ Len(edits') = Len(edits) + 1 /\ edits'[Len(edits) + 1] = y
<1>1. edits \in Seq(Operations) /\ Len(edits) \in Nat /\ DOMAIN edits = 1 .. Len(edits)
  BY LenProperties DEF TypeOK
<1>2. /\ edits' \in Seq(Operations) /\ Len(edits') = Len(edits) + 1
      /\ \A i \in 1 .. Len(edits) : edits'[i] = old[i]
      /\ edits'[Len(edits) + 1] = y
  BY <1>1, AppendProperties
<1>3. DOMAIN edits' = 1 .. Len(edits')
  BY <1>2, LenProperties
<1> QED
  BY <1>1, <1>2, <1>3 DEF Grown

(* One operation is replaced by itself with another status or conflict.     *)
LEMMA StatusSet ==
  ASSUME TypeOK, NEW i \in DOMAIN edits, NEW y \in Operations, Same(edits[i], y),
         NEW new, new = [edits EXCEPT ![i] = y]
  PROVE  /\ new \in Seq(Operations) /\ Len(new) = Len(edits)
         /\ DOMAIN edits = 1 .. Len(edits) /\ DOMAIN new = DOMAIN edits /\ Len(edits) \in Nat
         /\ \A j \in DOMAIN edits : Same(edits[j], new[j])
         /\ \A j \in DOMAIN edits : j # i => new[j] = edits[j]
         /\ new[i] = y
<1>1. edits \in Seq(Operations) /\ Len(edits) \in Nat /\ DOMAIN edits = 1 .. Len(edits)
  BY LenProperties DEF TypeOK
<1>2. /\ new \in Seq(Operations) /\ Len(new) = Len(edits)
      /\ \A j \in 1 .. Len(edits) : new[j] = IF j = i THEN y ELSE edits[j]
  BY <1>1, ExceptSeq
<1>3. DOMAIN new = 1 .. Len(new)
  BY <1>2, LenProperties
<1> QED
  BY <1>1, <1>2, <1>3 DEF Same

(* What each step makes of the operations and of the records.               *)
LEMMA MutateEdits ==
  ASSUME TypeOK, NEW e \in Entities, NEW base \in Nat, NEW tombstone \in BOOLEAN,
         Mutate(e, base, tombstone)
  PROVE  /\ Grown /\ Len(edits') = Len(edits) + 1 /\ Len(edits) + 1 <= MaxEdits
         /\ edits'[Len(edits) + 1] =
              [entity |-> e, base |-> base, tombstone |-> tombstone,
               payload |-> Len(edits) + 1, status |-> "queued", version |-> 0]
         /\ \A i \in DOMAIN edits : edits'[i] = edits[i]
         /\ store' = [store EXCEPT ![e] = [version |-> base + 1, deleted |-> tombstone,
                                           merged |-> store[e].merged \cup {Len(edits) + 1}]]
         /\ store' \in [Entities -> Records]
         /\ UNCHANGED <<server, cursor, undone, loop, pulls>>
<1> DEFINE y == [entity |-> e, base |-> base, tombstone |-> tombstone,
                 payload |-> Len(edits) + 1, status |-> "queued", version |-> 0]
           r == [version |-> base + 1, deleted |-> tombstone,
                 merged |-> store[e].merged \cup {Len(edits) + 1}]
<1>1. edits \in Seq(Operations) /\ Len(edits) \in Nat /\ DOMAIN edits = 1 .. Len(edits)
  BY LenProperties DEF TypeOK
<1>2. y \in Operations
  BY <1>1 DEF Operations
<1>3. edits' = Append(edits, y) /\ store' = [store EXCEPT ![e] = r] /\ Len(edits) < MaxEdits
      /\ UNCHANGED <<server, cursor, undone, loop, pulls>>
  BY DEF Mutate
<1>4. \A i \in DOMAIN edits : Same(edits[i], edits[i])
  BY DEF Same
<1>5. r \in Records
  BY <1>1 DEF TypeOK, Records
<1>6. Grown /\ Len(edits') = Len(edits) + 1 /\ edits'[Len(edits) + 1] = y
  <2> HIDE DEF y
  <2> QED
    BY <1>1, <1>2, <1>3, <1>4, EditsAppended
<1>7. \A i \in DOMAIN edits : edits'[i] = edits[i]
  <2> HIDE DEF y
  <2> QED
    BY <1>1, <1>2, <1>3, AppendProperties
<1>8. store' \in [Entities -> Records]
  <2> HIDE DEF r
  <2> QED
    BY <1>3, <1>5 DEF TypeOK
<1>9. Len(edits) + 1 <= MaxEdits
  BY <1>1, <1>3, FeedAssumption
<1> QED
  BY <1>3, <1>6, <1>7, <1>8, <1>9

LEMMA KeepServerStore ==
  ASSUME TypeOK, NEW i \in DOMAIN edits, KeepServer(i)
  PROVE  /\ edits[i] \in Operations /\ edits[i].entity \in Entities
         /\ Snapshot(i) \subseteq Nat
         /\ store' \in [Entities -> Records] /\ undone' \subseteq Nat
         /\ undone \subseteq undone'
         /\ \A e \in Entities : store'[e] # store[e] =>
              /\ e = edits[i].entity /\ ~store[e].deleted
              /\ store'[e].version = edits[i].version /\ ~store'[e].deleted
              /\ store'[e].merged = Snapshot(i)
         /\ \A e \in Entities : store[e].merged \subseteq store'[e].merged \cup undone'
<1> DEFINE e == edits[i].entity
           r == [version |-> edits[i].version, deleted |-> FALSE, merged |-> Snapshot(i)]
<1>1. edits[i] \in Operations
  BY LenProperties, ElementOfSeq DEF TypeOK
<1>2. e \in Entities /\ edits[i].version \in Nat
  BY <1>1 DEF Operations
<1>3. Snapshot(i) \subseteq Nat
  BY DEF Snapshot, TypeOK, Changes
<1>4. r \in Records
  BY <1>2, <1>3 DEF Records
<1>5. CASE store[e].deleted
  <2>1. store' = store /\ undone' = undone
    BY <1>5 DEF KeepServer
  <2> QED
    BY <1>1, <1>2, <1>3, <2>1 DEF TypeOK
<1>6. CASE ~store[e].deleted
  <2>1. store' = [store EXCEPT ![e] = r] /\ undone' = undone \cup (store[e].merged \ Snapshot(i))
    BY <1>6 DEF KeepServer
  <2>2. store[e].merged \subseteq Nat /\ undone \subseteq Nat /\ store \in [Entities -> Records]
    BY <1>2 DEF TypeOK, Records
  <2>3. r.version = edits[i].version /\ ~r.deleted /\ r.merged = Snapshot(i)
    OBVIOUS
  <2> HIDE DEF r
  <2>4. store' \in [Entities -> Records] /\ store'[e] = r
        /\ \A f \in Entities : f # e => store'[f] = store[f]
    BY <1>2, <1>4, <2>1, <2>2
  <2>5. undone' \subseteq Nat /\ undone \subseteq undone'
        /\ store[e].merged \subseteq r.merged \cup undone'
    BY <2>1, <2>2, <2>3
  <2> QED
    BY <1>1, <1>2, <1>3, <1>6, <2>3, <2>4, <2>5
<1> QED
  BY <1>5, <1>6

LEMMA KeepMineEdits ==
  ASSUME TypeOK, NEW i \in DOMAIN edits, KeepMine(i)
  PROVE  /\ Grown /\ Len(edits') = Len(edits) + 1
         /\ Same(edits[i], edits'[i]) /\ edits'[i].status = "resolved"
         /\ \A j \in DOMAIN edits : j # i => edits'[j] = edits[j]
         /\ edits'[Len(edits) + 1] \in Operations
         /\ edits'[Len(edits) + 1].entity = edits[i].entity
         /\ edits'[Len(edits) + 1].payload = edits[i].payload
         /\ edits'[Len(edits) + 1].status = "queued"
         /\ UNCHANGED <<undone, server, client, loop, pulls>>
<1> DEFINE e == edits[i].entity
           m == Max({store[e].version, edits[i].version})
<1>1. edits \in Seq(Operations) /\ Len(edits) \in Nat /\ DOMAIN edits = 1 .. Len(edits)
      /\ edits[i] \in Operations
  BY LenProperties, ElementOfSeq DEF TypeOK
<1>2. PICK z : z = [edits[i] EXCEPT !.status = "resolved"]
  OBVIOUS
<1>3. edits[i].version \in Nat /\ e \in Entities
  BY <1>1 DEF Operations
<1>4. z \in Operations /\ Same(edits[i], z) /\ z.status = "resolved"
  BY <1>1, <1>2 DEF Operations, Same
<1>11. PICK old : old = [edits EXCEPT ![i] = z]
  OBVIOUS
<1>12. /\ old \in Seq(Operations) /\ Len(old) = Len(edits)
       /\ \A j \in DOMAIN edits : Same(edits[j], old[j])
       /\ \A j \in DOMAIN edits : j # i => old[j] = edits[j]
       /\ old[i].status = "resolved"
  BY <1>4, <1>11, StatusSet
<1>5. m \in Nat
  <2> DEFINE Q == {store[e].version, edits[i].version}
  <2>1. Q \in SUBSET Nat /\ Q # {}
    BY <1>3 DEF TypeOK, Records
  <2>2. IsFiniteSet(Q)
    <3>1. IsFiniteSet({store[e].version})
      BY FS_Singleton
    <3>2. Q = {store[e].version} \cup {edits[i].version}
      OBVIOUS
    <3> QED
      BY <3>1, <3>2, FS_AddElement
  <2>3. Max(Q) \in Q
    <3> HIDE DEF Q
    <3> QED
      BY <2>1, <2>2, MaxInSet
  <2> QED
    BY <2>1, <2>3
<1>6. PICK y : y = [edits[i] EXCEPT !.base = m, !.status = "queued", !.version = 0]
  OBVIOUS
<1>7. /\ y \in Operations /\ y.entity = edits[i].entity /\ y.payload = edits[i].payload
      /\ y.status = "queued"
  <2> HIDE DEF m
  <2> QED
    BY <1>1, <1>5, <1>6 DEF Operations
<1>8. edits' = Append(old, y)
  BY <1>2, <1>6, <1>11 DEF KeepMine
<1>9. Grown /\ Len(edits') = Len(edits) + 1 /\ edits'[Len(edits) + 1] = y
  BY <1>12, <1>7, <1>8, EditsAppended
<1>10. \A j \in DOMAIN edits : edits'[j] = old[j]
  BY <1>1, <1>7, <1>8, <1>12, AppendProperties
<1> QED
  BY <1>12, <1>7, <1>9, <1>10 DEF KeepMine

(* TurnDown, Learn, KeepServer and a commit change one status.              *)
LEMMA StatusStep ==
  ASSUME TypeOK, NEW i \in DOMAIN edits, TurnDown(i) \/ Learn(i) \/ KeepServer(i),
         IsFiniteSet(log)
  PROVE  /\ Grown /\ Len(edits') = Len(edits)
         /\ \A j \in DOMAIN edits : j # i => edits'[j] = edits[j]
         /\ edits'[i].version =
              IF TurnDown(i) THEN VersionOf(edits[i].entity) ELSE edits[i].version
         /\ TurnDown(i) => edits[i].status = "queued" /\ edits'[i].status = "conflict"
         /\ Learn(i) => edits[i].status = "conflict" /\ edits'[i].status = "pending"
         /\ KeepServer(i) => edits[i].status = "pending" /\ edits'[i].status = "resolved"
<1>1. edits \in Seq(Operations) /\ edits[i] \in Operations
  BY LenProperties, ElementOfSeq DEF TypeOK
<1>2. edits[i].version \in Nat /\ VersionOf(edits[i].entity) \in Nat
  BY <1>1, VersionType DEF Operations
<1>3. PICK st, v, y :
        /\ st \in {"conflict", "pending", "resolved"} /\ v \in Nat
        /\ edits' = [edits EXCEPT ![i] = y]
        /\ \/ y = [edits[i] EXCEPT !.status = st, !.version = v]
           \/ y = [edits[i] EXCEPT !.status = st] /\ v = edits[i].version
        /\ v = IF TurnDown(i) THEN VersionOf(edits[i].entity) ELSE edits[i].version
        /\ TurnDown(i) => edits[i].status = "queued" /\ st = "conflict"
        /\ Learn(i) => edits[i].status = "conflict" /\ st = "pending"
        /\ KeepServer(i) => edits[i].status = "pending" /\ st = "resolved"
  <2>1. CASE TurnDown(i)
    <3>1. ~Learn(i) /\ ~KeepServer(i)
      BY <2>1 DEF TurnDown, Learn, KeepServer
    <3> QED
      BY <1>2, <2>1, <3>1 DEF TurnDown
  <2>2. CASE Learn(i)
    <3>1. ~TurnDown(i) /\ ~KeepServer(i)
      BY <2>2 DEF TurnDown, Learn, KeepServer
    <3> QED
      BY <1>2, <2>2, <3>1 DEF Learn
  <2>3. CASE KeepServer(i)
    <3>1. ~TurnDown(i) /\ ~Learn(i)
      BY <2>3 DEF TurnDown, Learn, KeepServer
    <3> QED
      BY <1>2, <2>3, <3>1 DEF KeepServer
  <2> QED
    BY <2>1, <2>2, <2>3
<1>4. y \in Operations /\ Same(edits[i], y) /\ y.status = st /\ y.version = v
  <2>1. edits[i].version \in Nat
    BY <1>2
  <2> QED
    BY <1>1, <1>3, <2>1 DEF Operations, Same
<1>5. /\ edits' \in Seq(Operations) /\ Len(edits') = Len(edits)
      /\ DOMAIN edits = 1 .. Len(edits) /\ DOMAIN edits' = DOMAIN edits /\ Len(edits) \in Nat
      /\ \A j \in DOMAIN edits : Same(edits[j], edits'[j])
      /\ \A j \in DOMAIN edits : j # i => edits'[j] = edits[j]
      /\ edits'[i] = y
  <2>1. PICK new : new = [edits EXCEPT ![i] = y]
    OBVIOUS
  <2>2. /\ new \in Seq(Operations) /\ Len(new) = Len(edits)
        /\ DOMAIN edits = 1 .. Len(edits) /\ DOMAIN new = DOMAIN edits /\ Len(edits) \in Nat
        /\ \A j \in DOMAIN edits : Same(edits[j], new[j])
        /\ \A j \in DOMAIN edits : j # i => new[j] = edits[j]
        /\ new[i] = y
    BY <1>4, <2>1, StatusSet
  <2>3. edits' = new
    BY <1>3, <2>1
  <2> QED
    BY <2>2, <2>3
<1>6. Grown
  BY <1>5 DEF Grown
<1> QED
  BY <1>3, <1>4, <1>5, <1>6

LEMMA CommitEdits ==
  ASSUME TypeOK, NEW t \in open, CommitChange(t)
  PROVE  /\ Grown /\ Len(edits') = Len(edits)
         /\ \A i \in DOMAIN edits : i # t.op => edits'[i] = edits[i]
         /\ t.op \in DOMAIN edits => edits'[t.op].status = "applied"
<1>1. edits \in Seq(Operations) /\ Len(edits) \in Nat /\ DOMAIN edits = 1 .. Len(edits)
  BY LenProperties DEF TypeOK
<1>2. edits' = [i \in DOMAIN edits |->
                  IF i = t.op THEN [edits[i] EXCEPT !.status = "applied"] ELSE edits[i]]
  BY DEF CommitChange
<1>3. CASE t.op \in DOMAIN edits
  <2>1. edits[t.op] \in Operations
    BY <1>1, <1>3, ElementOfSeq
  <2>2. PICK y : y = [edits[t.op] EXCEPT !.status = "applied"]
    OBVIOUS
  <2>3. edits' = [edits EXCEPT ![t.op] = y]
    BY <1>1, <1>2, <1>3, <2>2
  <2>4. y \in Operations /\ Same(edits[t.op], y) /\ y.status = "applied"
    BY <2>1, <2>2 DEF Operations, Same
  <2>5. /\ edits' \in Seq(Operations) /\ Len(edits') = Len(edits)
        /\ DOMAIN edits' = DOMAIN edits
        /\ \A j \in DOMAIN edits : Same(edits[j], edits'[j])
        /\ \A j \in DOMAIN edits : j # t.op => edits'[j] = edits[j]
        /\ edits'[t.op] = y
    <3>0. PICK k \in DOMAIN edits : k = t.op
      BY <1>3
    <3>1. PICK new : new = [edits EXCEPT ![k] = y]
      OBVIOUS
    <3>2. /\ new \in Seq(Operations) /\ Len(new) = Len(edits)
          /\ DOMAIN new = DOMAIN edits
          /\ \A j \in DOMAIN edits : Same(edits[j], new[j])
          /\ \A j \in DOMAIN edits : j # k => new[j] = edits[j]
          /\ new[k] = y
      <4>1. Same(edits[k], y)
        BY <2>4, <3>0
      <4> QED
        BY <2>4, <3>1, <4>1, StatusSet
    <3>3. edits' = new
      BY <2>3, <3>0, <3>1
    <3> QED
      BY <3>0, <3>2, <3>3
  <2> QED
    BY <1>1, <2>4, <2>5 DEF Grown
<1>4. CASE t.op \notin DOMAIN edits
  <2>1. edits' = edits
    <3>1. \A i \in DOMAIN edits : edits'[i] = edits[i]
      BY <1>2, <1>4
    <3>2. edits' = [i \in DOMAIN edits |-> edits[i]]
      BY <1>2, <1>4
    <3>3. edits = [i \in DOMAIN edits |-> edits[i]]
      BY <1>1
    <3> QED
      BY <3>2, <3>3
  <2> QED
    BY <1>4, <2>1, EditsKept
<1> QED
  BY <1>3, <1>4

LEMMA PagesFromLog ==
  ASSUME Typed, [Next]_vars
  PROVE  log \subseteq log' /\ \A p \in Pullers : page'[p].changes \subseteq log'
<1>0. TypeOK /\ IsFiniteSet(log) /\ \A p \in Pullers : page[p].changes \subseteq log
  BY DEF Typed
<1> USE <1>0 DEF server, client, queue, loop
<1>1. log \subseteq log'
  BY LocalFrame
     DEF Local, Next, vars, Write, Insert, CommitChange, RollBack, Join, DeviceChanges, Start,
         Pull, ReadCursor, Gate, ReadMemberships, Query, Record, Apply, Stop
<1>2. ASSUME NEW p \in Pullers, Query(p) PROVE \A q \in Pullers : page'[q].changes \subseteq log
  <2> DEFINE S == FirstPage(Visible(p))
             full == Cardinality(S) = Limit
             answer == [changes |-> S, latest |-> Latest(p, S), more |-> full]
  <2>1. page' = [page EXCEPT ![p] = answer]
    BY <1>2 DEF Query
  <2>2. S \subseteq log
    BY DEF FirstPage, Visible
  <2>3. answer.changes \subseteq log
    <3> HIDE DEF S, full
    <3> QED
      BY <2>2
  <2> HIDE DEF answer
  <2> QED
    BY <2>1, <2>3 DEF TypeOK
<1>3. ASSUME NEW p \in Pullers, ReadMemberships(p)
      PROVE  \A q \in Pullers : page'[q].changes \subseteq log
  <2>1. [changes |-> {}, latest |-> after[p], more |-> FALSE].changes = {}
    OBVIOUS
  <2> QED
    BY <1>3, <2>1 DEF ReadMemberships, TypeOK
<1>4. ASSUME NEW p \in Pullers, Gate(p) \/ Apply(p) \/ Stop(p)
      PROVE  \A q \in Pullers : page'[q].changes \subseteq log
  <2>1. page' = page \/ page' = [page EXCEPT ![p] = NoPage]
    BY <1>4 DEF Gate, Apply, Stop, Quit
  <2>2. NoPage.changes = {}
    BY DEF NoPage
  <2>3. page \in [Pullers -> [changes : SUBSET Changes, latest : Nat, more : BOOLEAN]]
    BY DEF TypeOK
  <2>4. \A q \in Pullers : page'[q] = page[q] \/ page'[q] = NoPage
    BY <2>1, <2>3
  <2> QED
    BY <2>2, <2>4
<1>5. \/ page' = page
      \/ \E p \in Pullers : \/ Query(p) \/ ReadMemberships(p)
                           \/ Gate(p) \/ Apply(p) \/ Stop(p)
  BY LocalFrame
     DEF Local, Next, vars, Write, Insert, CommitChange, RollBack, Join, DeviceChanges, Start,
         Pull, ReadCursor, Record
<1> QED
  BY <1>1, <1>2, <1>3, <1>4, <1>5

LEMMA TypedNext == Typed /\ [Next]_vars => Typed'
<1> SUFFICES ASSUME Typed, [Next]_vars PROVE Typed'
  OBVIOUS
<1>0. TypeOK /\ IsFiniteSet(log)
  BY DEF Typed
<1> SUFFICES TypeOK' /\ IsFiniteSet(log')
  BY PagesFromLog DEF Typed
<1> USE <1>0 DEF server, client, queue, loop
<1>1. ASSUME NEW e \in Entities, NEW tombstone \in BOOLEAN, NEW op \in 0 .. Len(edits),
             Insert(e, tombstone, op)
      PROVE  TypeOK' /\ IsFiniteSet(log')
  <2> DEFINE t == [sequence |-> nextSeq, entity |-> e, tombstone |-> tombstone, op |-> op]
  <2>1. Len(edits) \in Nat
    BY LenProperties DEF TypeOK
  <2>2. t \in Writes /\ t.op \in 0 .. Len(edits)
    BY <2>1 DEF Writes, TypeOK
  <2>3. open' = open \cup {t}
    BY <1>1 DEF Insert
  <2> HIDE DEF t
  <2>4. open' \subseteq Writes /\ \A u \in open' : u.op \in 0 .. Len(edits)
    BY <2>2, <2>3 DEF TypeOK
  <2> QED
    BY <1>1, <2>4 DEF Insert, TypeOK
<1>2. ASSUME NEW t \in open, CommitChange(t) PROVE TypeOK' /\ IsFiniteSet(log')
  <2>1. PICK n : n = PayloadOf(t)
    OBVIOUS
  <2>2. n \in Nat
    <3>1. CASE t.op = 0
      BY <2>1, <3>1, FeedAssumption DEF PayloadOf, TypeOK, Writes
    <3>2. CASE t.op # 0
      <4>1. t.op \in 1 .. Len(edits)
        BY <3>2, LenProperties DEF TypeOK
      <4>2. edits[t.op] \in Operations
        BY <4>1, ElementOfSeq DEF TypeOK
      <4> QED
        BY <2>1, <3>2, <4>2 DEF PayloadOf, Operations
    <3> QED
      BY <3>1, <3>2
  <2> DEFINE c == [sequence |-> t.sequence, entity |-> t.entity,
                   version |-> VersionOf(t.entity) + 1, tombstone |-> t.tombstone,
                   payload |-> n, at |-> Cardinality(log)]
  <2>3. c \in Changes
    BY <2>2, VersionType DEF TypeOK, Changes, Writes
  <2>4. log' = log \cup {c} /\ open' = open \ {t}
    BY <1>2, <2>1 DEF CommitChange
  <2> HIDE DEF c
  <2>5. IsFiniteSet(log')
    BY <2>4, FS_AddElement
  <2>6. Grown /\ Len(edits') = Len(edits)
    BY <1>2, CommitEdits
  <2>7. log' \subseteq Changes /\ open' \subseteq open /\ edits' \in Seq(Operations)
    BY <2>3, <2>4, <2>6 DEF TypeOK, Grown
  <2>8. UNCHANGED <<nextSeq, joined, window, client, undone, loop, pulls>>
    BY <1>2 DEF CommitChange
  <2> QED
    BY <2>5, <2>6, <2>7, <2>8 DEF TypeOK
<1>15. ASSUME NEW e \in Entities, NEW base \in Nat, NEW tombstone \in BOOLEAN,
              Mutate(e, base, tombstone)
       PROVE  TypeOK' /\ IsFiniteSet(log')
  <2>1. /\ Grown /\ Len(edits') = Len(edits) + 1 /\ store' \in [Entities -> Records]
        /\ UNCHANGED <<server, cursor, undone, loop, pulls>>
    BY <1>15, MutateEdits
  <2> QED
    BY <2>1 DEF TypeOK, Grown
<1>16. ASSUME NEW i \in DOMAIN edits, TurnDown(i) \/ Learn(i) \/ KeepServer(i)
       PROVE  TypeOK' /\ IsFiniteSet(log')
  <2>1. Grown /\ Len(edits') = Len(edits)
    BY <1>16, StatusStep
  <2>2. store' \in [Entities -> Records] /\ undone' \subseteq Nat
    BY <1>16, KeepServerStore DEF TurnDown, Learn, TypeOK
  <2>3. UNCHANGED <<server, cursor, loop, pulls>>
    BY <1>16 DEF TurnDown, Learn, KeepServer
  <2> QED
    BY <2>1, <2>2, <2>3 DEF TypeOK, Grown
<1>17. ASSUME NEW i \in DOMAIN edits, KeepMine(i) PROVE TypeOK' /\ IsFiniteSet(log')
  <2>1. /\ Grown /\ Len(edits') = Len(edits) + 1
        /\ UNCHANGED <<undone, server, client, loop, pulls>>
    BY <1>17, KeepMineEdits
  <2> QED
    BY <2>1 DEF TypeOK, Grown
<1>18. ASSUME Local PROVE TypeOK' /\ IsFiniteSet(log')
  <2>0. /\ DOMAIN edits = 1 .. Len(edits) /\ Len(edits) \in Nat
        /\ \A i \in DOMAIN edits : edits[i] \in Operations
    BY LenProperties, ElementOfSeq DEF TypeOK
  <2>1. ASSUME NEW e \in Edited, Create(e) PROVE TypeOK' /\ IsFiniteSet(log')
    <3>1. Mutate(e, 0, FALSE) /\ e \in Entities
      BY <2>1, FeedAssumption DEF Create
    <3> QED
      BY <1>15, <3>1
  <2>2. ASSUME NEW e \in Edited, NEW tombstone \in BOOLEAN, Edit(e, tombstone)
        PROVE  TypeOK' /\ IsFiniteSet(log')
    <3>1. Mutate(e, store[e].version, tombstone) /\ e \in Entities
      BY <2>2, FeedAssumption DEF Edit
    <3>2. store[e].version \in Nat
      BY <3>1 DEF TypeOK, Records
    <3> QED
      BY <1>15, <3>1, <3>2
  <2>3. ASSUME NEW i \in DOMAIN edits, Push(i) PROVE TypeOK' /\ IsFiniteSet(log')
    <3>1. Insert(edits[i].entity, edits[i].tombstone, i)
      BY <2>3 DEF Push
    <3>2. edits[i].entity \in Entities /\ edits[i].tombstone \in BOOLEAN /\ i \in 0 .. Len(edits)
      BY <2>0 DEF Operations
    <3> QED
      BY <1>1, <3>1, <3>2
  <2> QED
    BY <1>16, <1>17, <1>18, <2>1, <2>2, <2>3 DEF Local
<1>3. ASSUME NEW t \in open, RollBack(t) PROVE TypeOK' /\ IsFiniteSet(log')
  BY <1>3 DEF RollBack, TypeOK
<1>4. ASSUME NEW x \in Projects, Join(x) PROVE TypeOK' /\ IsFiniteSet(log')
  BY <1>4 DEF Join, TypeOK
<1>5. ASSUME DeviceChanges PROVE TypeOK' /\ IsFiniteSet(log')
  BY <1>5 DEF DeviceChanges, TypeOK
<1>6. ASSUME NEW p \in Pullers, NEW s \in Scopes, Start(p, s) PROVE TypeOK' /\ IsFiniteSet(log')
  BY <1>6 DEF Start, TypeOK
<1>7. ASSUME NEW p \in Pullers, ReadCursor(p) PROVE TypeOK' /\ IsFiniteSet(log')
  BY <1>7 DEF ReadCursor, TypeOK
<1>8. ASSUME NEW p \in Pullers, Gate(p) PROVE TypeOK' /\ IsFiniteSet(log')
  <2>1. CASE Quit(p)
    BY <1>8, <2>1, QuitTyped DEF Gate, TypeOK
  <2>2. CASE ~Quit(p)
    BY <1>8, <2>2 DEF Gate, TypeOK
  <2> QED
    BY <2>1, <2>2
<1>9. ASSUME NEW p \in Pullers, ReadMemberships(p) PROVE TypeOK' /\ IsFiniteSet(log')
  <2>1. [changes |-> {}, latest |-> after[p], more |-> FALSE]
          \in [changes : SUBSET Changes, latest : Nat, more : BOOLEAN]
    BY DEF NoPage, TypeOK
  <2> DEFINE none == [changes |-> {}, latest |-> after[p], more |-> FALSE]
  <2>2. /\ page' = page \/ page' = [page EXCEPT ![p] = none]
        /\ \/ pc' = [pc EXCEPT ![p] = "query"]
           \/ pc' = [pc EXCEPT ![p] = "apply"] /\ page' = [page EXCEPT ![p] = none]
        /\ pc[p] = "members"
    BY <1>9 DEF ReadMemberships
  <2>3. none.latest >= after[p]
    <3>1. after[p] \in Nat
      BY DEF TypeOK
    <3> QED
      BY <3>1
  <2>4. granted' \in [Pullers -> SUBSET Projects]
    BY <1>9 DEF ReadMemberships, TypeOK
  <2> HIDE DEF none
  <2>5. page' \in [Pullers -> [changes : SUBSET Changes, latest : Nat, more : BOOLEAN]]
    BY <2>1, <2>2 DEF none, TypeOK
  <2>6. /\ UNCHANGED <<log, open, nextSeq, joined, window, store, cursor, edits, undone,
                       scope, after, pulls>>
        /\ pc' \in [Pullers -> {"idle", "read", "gate", "members", "query", "record", "apply"}]
    BY <1>9 DEF ReadMemberships, TypeOK
  <2>7. \A q \in Pullers : /\ pc'[q] # "idle" => scope'[q] \in Scopes
                           /\ pc'[q] \in {"record", "apply"} => page'[q].latest >= after'[q]
    BY <2>2, <2>3, <2>6 DEF TypeOK
  <2> QED
    BY <2>4, <2>5, <2>6, <2>7 DEF TypeOK
<1>10. ASSUME NEW p \in Pullers, Query(p) PROVE TypeOK' /\ IsFiniteSet(log')
  <2> DEFINE S == FirstPage(Visible(p))
             answer == [changes |-> S, latest |-> Latest(p, S), more |-> Cardinality(S) = Limit]
  <2>1. page' = [page EXCEPT ![p] = answer] /\ pc' = [pc EXCEPT ![p] = "record"]
        /\ UNCHANGED <<server, client, queue, scope, after, granted, pulls>> /\ pc[p] = "query"
    BY <1>10 DEF Query
  <2>2. /\ S \in SUBSET Changes /\ Latest(p, S) \in Nat /\ Latest(p, S) >= after[p]
    BY QueryAnswer DEF TypeOK
  <2>3. /\ answer \in [changes : SUBSET Changes, latest : Nat, more : BOOLEAN]
        /\ answer.latest >= after[p]
    <3> DEFINE full == Cardinality(S) = Limit
    <3>1. full \in BOOLEAN
      OBVIOUS
    <3> HIDE DEF S, full
    <3> QED
      BY <2>2, <3>1
  <2> HIDE DEF answer, S
  <2> QED
    BY <2>1, <2>3 DEF TypeOK
<1>11. ASSUME NEW p \in Pullers, Record(p) PROVE TypeOK' /\ IsFiniteSet(log')
  BY <1>11 DEF Record, TypeOK
<1>12. ASSUME NEW p \in Pullers, Apply(p) PROVE TypeOK' /\ IsFiniteSet(log')
  <2>1. \A e \in Entities : Merge(store[e], Fresh(p, e)) \in Records
    <3> SUFFICES ASSUME NEW e \in Entities PROVE Merge(store[e], Fresh(p, e)) \in Records
      OBVIOUS
    <3>1. Fresh(p, e) \in SUBSET log
      BY DEF Fresh, Typed
    <3>2. Fresh(p, e) \in SUBSET Changes /\ IsFiniteSet(Fresh(p, e))
      BY <3>1, FS_Subset DEF TypeOK
    <3> QED
      BY <3>2, MergeType DEF TypeOK
  <2>2. store' \in [Entities -> Records] /\ cursor' \in [Scopes -> Nat]
    BY <1>12, <2>1 DEF Apply, TypeOK
  <2>3. CASE Quit(p)
    BY <1>12, <2>2, <2>3, QuitTyped DEF Apply, TypeOK
  <2>4. CASE ~Quit(p)
    <3>1. NoPage \in [changes : SUBSET Changes, latest : Nat, more : BOOLEAN]
      BY DEF NoPage
    <3>2. /\ pc' = [pc EXCEPT ![p] = "read"] /\ page' = [page EXCEPT ![p] = NoPage]
          /\ granted' = [granted EXCEPT ![p] = {}] /\ pc[p] = "apply"
          /\ UNCHANGED <<scope, after, log, open, nextSeq, joined, window, edits, undone, pulls>>
      BY <1>12, <2>4 DEF Apply
    <3>3. /\ page' \in [Pullers -> [changes : SUBSET Changes, latest : Nat, more : BOOLEAN]]
          /\ \A q \in Pullers : q # p => page'[q] = page[q]
      BY <3>1, <3>2 DEF TypeOK
    <3>4. granted' \in [Pullers -> SUBSET Projects]
      BY <3>2 DEF TypeOK
    <3>5. \A q \in Pullers : /\ pc'[q] # "idle" => scope'[q] \in Scopes
                             /\ pc'[q] \in {"record", "apply"} => page'[q].latest >= after'[q]
      BY <3>2, <3>3 DEF TypeOK
    <3> QED
      BY <2>2, <3>2, <3>3, <3>4, <3>5 DEF TypeOK
  <2> QED
    BY <2>3, <2>4
<1>13. ASSUME NEW p \in Pullers, Stop(p) PROVE TypeOK' /\ IsFiniteSet(log')
  BY <1>13, QuitTyped DEF Stop, TypeOK
<1>14. CASE UNCHANGED vars
  BY <1>14 DEF vars, TypeOK
<1>19. ASSUME NEW e \in Entities, NEW tombstone \in BOOLEAN, Write(e, tombstone)
       PROVE  TypeOK' /\ IsFiniteSet(log')
  <2>1. Insert(e, tombstone, 0) /\ 0 \in 0 .. Len(edits)
    BY <1>19, LenProperties DEF Write, TypeOK
  <2> QED
    BY <1>1, <2>1
<1> QED
  BY <1>2, <1>18, <1>19, <1>3, <1>4, <1>5, <1>6, <1>7, <1>8, <1>9, <1>10, <1>11, <1>12, <1>13, <1>14
     DEF Next, Local, Pull

(* The variables have their types in every reachable state.                 *)
THEOREM FeedTypeCorrect == Spec => []TypeOK
<1>1. Typed => TypeOK
  BY DEF Typed
<1> QED
  BY <1>1, TypedInit, TypedNext, PTL DEF Spec
=============================================================================
