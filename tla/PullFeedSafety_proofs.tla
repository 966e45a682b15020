------------------------ MODULE PullFeedSafety_proofs ------------------------
(***************************************************************************)
(* The safety theorems of PullFeed.  The inductive invariant says what a    *)
(* sequence number in the hands of a client stands for: it is 0 or that of  *)
(* a committed change, and every change below it that had been committed by *)
(* then is in the store or in the page that is on its way there, but for    *)
(* what was overtaken, outrun or undone; and what a record has above the    *)
(* versions of the server stands for an edit made here.                     *)
(***************************************************************************)
EXTENDS PullFeed_proofs

-----------------------------------------------------------------------------
(* The inductive invariant.                                                *)

Sequences == {c.sequence : c \in log}

(* Committed changes are apart by sequence and by commit, and the versions   *)
(* of an entity are in the order of their sequences.                        *)
LogSound ==
  /\ IsFiniteSet(log)
  /\ \A c \in log : /\ 0 < c.sequence /\ c.sequence < nextSeq
                    /\ 0 < c.version /\ c.at < Cardinality(log)
  /\ \A c, d \in log : c.sequence = d.sequence => c = d
  /\ \A c, d \in log : c.entity = d.entity =>
       /\ c.version = d.version => c = d
       /\ c.version < d.version => c.sequence < d.sequence
       /\ c.tombstone => d.version <= c.version
  /\ \A c \in log : c.version <= VersionOf(c.entity)
  /\ \A e \in Entities : VersionOf(e) > 0 =>
       \E c \in log : c.entity = e /\ c.version = VersionOf(e)

(* A transaction that is open comes after the committed changes of its       *)
(* entity, and is alone on it.                                              *)
OpenSound ==
  /\ \A t \in open : 0 < t.sequence /\ t.sequence < nextSeq /\ t.sequence \notin Sequences
  /\ \A t, u \in open : t.entity = u.entity \/ t.sequence = u.sequence => t = u
  /\ \A t \in open, c \in log :
       c.entity = t.entity => c.sequence < t.sequence /\ ~c.tombstone

(* A sequence number a client holds.                                        *)
Known(q) == q = 0 \/ q \in Sequences

NumbersKnown ==
  /\ \A s \in Scopes : Known(cursor[s])
  /\ \A p \in Pullers : Known(after[p]) /\ Known(page[p].latest)

(* A change of a project of the user is in the store, or one of the cases    *)
(* that keep it out.                                                        *)
Kept(c) == Held(c) \/ Overtaken(c) \/ Outrun(c) \/ Undone(c)
Owed(s, c) == Covers(s, c.entity) /\ ProjectOf[c.entity] \in Home

RequestsSound ==
  \A p \in Pullers : pc[p] \in {"gate", "members", "query", "record", "apply"} =>
    \A c \in log : Owed(scope[p], c) /\ c.sequence <= after[p] => Kept(c)

MembersSound ==
  /\ Home \subseteq joined
  /\ \A p \in Pullers : granted[p] \subseteq joined
  /\ \A p \in Pullers : pc[p] = "query" =>
       /\ Home \subseteq granted[p]
       /\ scope[p] # Default => scope[p] \in granted[p]

(* A page is what a loop has between the query and the transaction: its      *)
(* changes, and the owed ones that it leaves out.                           *)
PageSound(p) ==
  /\ \A d \in page[p].changes :
       /\ d.sequence <= page[p].latest
       /\ ProjectOf[d.entity] \in joined
       /\ scope[p] # Default => ProjectOf[d.entity] = scope[p]
  /\ IF pc[p] \in {"record", "apply"}
     THEN \A c \in log : Owed(scope[p], c) /\ c.sequence <= page[p].latest =>
            c \in page[p].changes \/ Kept(c)
     ELSE page[p].changes = {}

PagesSound == \A p \in Pullers : PageSound(p)

(* Only a record can be deleted.                                            *)
DeletedExist == \A e \in Entities : store[e].deleted => store[e].version > 0

(* The payload of an operation was put into its record; a conflict is at a   *)
(* version of the log; and a transaction of the device is on the row of its *)
(* operation.                                                               *)
EditSound(i) ==
  /\ edits[i].payload \in store[edits[i].entity].merged \cup undone
  /\ ProjectOf[edits[i].entity] \in joined
  /\ edits[i].status \in {"conflict", "pending"} =>
       \E c \in log : /\ c.entity = edits[i].entity /\ c.version = edits[i].version
                      /\ ~c.tombstone

EditsSound ==
  /\ \A i \in DOMAIN edits : EditSound(i)
  /\ \A t \in open : t.op # 0 => edits[t.op].entity = t.entity

(* The versions a record has above the server's are edits made here.        *)
AheadByEdits ==
  \A e \in Entities, w \in Nat : VersionOf(e) < w /\ w <= store[e].version =>
    \E i \in DOMAIN edits : MadeHere(i, e) /\ edits[i].base + 1 = w

Replicated ==
  /\ Typed
  /\ LogSound /\ OpenSound /\ NumbersKnown /\ RequestsSound /\ MembersSound /\ PagesSound
  /\ NothingSkipped /\ RecordsAreWhole /\ StoreMatchesLog /\ DeletedExist
  /\ EditsSound /\ AheadByEdits

-----------------------------------------------------------------------------
(* The log.                                                                *)

LEMMA LogStep ==
  ASSUME Typed, LogSound, OpenSound, [Next]_vars
  PROVE  LogSound' /\ OpenSound'
<1> USE DEF server, client, queue, loop
<1>0. TypeOK /\ IsFiniteSet(log) /\ log \subseteq Changes /\ nextSeq \in Nat
      /\ open \subseteq Writes
  BY DEF Typed, TypeOK
<1>1. ASSUME UNCHANGED <<log, open, nextSeq>> PROVE LogSound' /\ OpenSound'
  BY <1>1 DEF LogSound, OpenSound, VersionOf, Sequences
<1>2. ASSUME NEW e \in Entities, NEW tombstone \in BOOLEAN, NEW op \in Nat,
             Insert(e, tombstone, op)
      PROVE  LogSound' /\ OpenSound'
  <2> DEFINE t == [sequence |-> nextSeq, entity |-> e, tombstone |-> tombstone, op |-> op]
  <2>1. /\ log' = log /\ open' = open \cup {t} /\ nextSeq' = nextSeq + 1
        /\ \A u \in open : u.entity # e
        /\ \A c \in log : c.entity = e => ~c.tombstone
    BY <1>2 DEF Insert, Alive
  <2>2. LogSound'
    BY <1>0, <2>1 DEF LogSound, VersionOf, Changes
  <2>3. nextSeq > 0 /\ \A c \in log : c.sequence < nextSeq
    BY <1>0 DEF LogSound, TypeOK
  <2>4. nextSeq \notin Sequences /\ Sequences' = Sequences
    BY <1>0, <2>1, <2>3 DEF Sequences
  <2>5. OpenSound'
    BY <1>0, <2>1, <2>3, <2>4 DEF OpenSound, Changes, Writes
  <2> QED
    BY <2>2, <2>5
<1>3. ASSUME NEW t \in open, RollBack(t) PROVE LogSound' /\ OpenSound'
  BY <1>3 DEF RollBack, LogSound, OpenSound, VersionOf, Sequences
<1>4. ASSUME NEW t \in open, CommitChange(t) PROVE LogSound' /\ OpenSound'
  <2> DEFINE n == [sequence |-> t.sequence, entity |-> t.entity,
                   version |-> VersionOf(t.entity) + 1, tombstone |-> t.tombstone,
                   payload |-> PayloadOf(t), at |-> Cardinality(log)]
  <2>1. PICK c : c = n
    OBVIOUS
  <2>2. /\ c.sequence = t.sequence /\ c.entity = t.entity /\ c.tombstone = t.tombstone
        /\ c.version = VersionOf(t.entity) + 1 /\ c.at = Cardinality(log)
    BY <2>1
  <2>3. log' = log \cup {c} /\ open' = open \ {t} /\ nextSeq' = nextSeq
    BY <1>4, <2>1 DEF CommitChange
  <2>4. /\ VersionOf(t.entity) \in Nat /\ Cardinality(log) \in Nat
        /\ t.sequence \in Nat /\ t.entity \in Entities /\ t.tombstone \in BOOLEAN
    BY <1>0, VersionType DEF Writes
  <2>5. c \notin log
    BY <2>2 DEF OpenSound, Sequences
  <2>6. IsFiniteSet(log') /\ Cardinality(log') = Cardinality(log) + 1
    BY <1>0, <2>3, <2>5, FS_AddElement
  <2>7. ASSUME NEW e PROVE VersionOf(e)' = IF e = t.entity THEN VersionOf(e) + 1 ELSE VersionOf(e)
    <3> DEFINE mine == {d \in log : d.entity = e}
    <3>1. mine \in SUBSET log /\ c \notin mine
      BY <2>5
    <3>2. IsFiniteSet(mine)
      BY <1>0, <3>1, FS_Subset
    <3>3. {d \in log' : d.entity = e} = IF e = t.entity THEN mine \cup {c} ELSE mine
      BY <2>2, <2>3
    <3>4. Cardinality(mine \cup {c}) = Cardinality(mine) + 1
      <4> HIDE DEF mine
      <4> QED
        BY <3>1, <3>2, FS_AddElement
    <3> QED
      BY <3>3, <3>4 DEF VersionOf
  <2>8. ASSUME NEW d \in log, d.entity = c.entity
        PROVE  d.sequence < c.sequence /\ ~d.tombstone /\ d.version < c.version
    BY <1>0, <2>2, <2>4, <2>8 DEF LogSound, OpenSound, Changes
  <2>9. \A d \in log : VersionOf(d.entity) \in Nat /\ d.version \in Nat /\ d.at \in Nat
                       /\ d.sequence \in Nat
    BY <1>0, VersionType DEF Changes
  <2>10. LogSound'
    <3>1. \A d \in log' : /\ 0 < d.sequence /\ d.sequence < nextSeq'
                           /\ 0 < d.version /\ d.at < Cardinality(log')
      BY <2>2, <2>3, <2>4, <2>6, <2>9 DEF LogSound, OpenSound
    <3>2. \A d, f \in log' : d.sequence = f.sequence => d = f
      BY <2>2, <2>3 DEF LogSound, OpenSound, Sequences
    <3>3. \A d, f \in log' : d.entity = f.entity =>
             /\ d.version = f.version => d = f
             /\ d.version < f.version => d.sequence < f.sequence
             /\ d.tombstone => f.version <= d.version
      BY <2>2, <2>3, <2>4, <2>8, <2>9 DEF LogSound
    <3>4. \A d \in log' : d.version <= VersionOf(d.entity)'
      BY <2>2, <2>3, <2>4, <2>7, <2>9 DEF LogSound
    <3>5. ASSUME NEW e \in Entities, VersionOf(e)' > 0
          PROVE  \E d \in log' : d.entity = e /\ d.version = VersionOf(e)'
      <4>1. CASE e = t.entity
        BY <2>2, <2>3, <2>7, <4>1
      <4>2. CASE e # t.entity
        BY <2>3, <2>7, <3>5, <4>2 DEF LogSound
      <4> QED
        BY <4>1, <4>2
    <3> QED
      BY <2>6, <3>1, <3>2, <3>3, <3>4, <3>5 DEF LogSound
  <2>11. OpenSound'
    <3>1. Sequences' = Sequences \cup {t.sequence}
      BY <2>2, <2>3 DEF Sequences
    <3>2. \A u \in open' : u \in open /\ u.sequence # t.sequence /\ u.entity # t.entity
      BY <2>3 DEF OpenSound
    <3> QED
      BY <2>2, <2>3, <3>1, <3>2 DEF OpenSound
  <2> QED
    BY <2>10, <2>11
<1>5. ASSUME Local PROVE LogSound' /\ OpenSound'
  <2>1. CASE \E i \in DOMAIN edits : Push(i)
    <3>1. PICK i \in DOMAIN edits : Push(i)
      BY <2>1
    <3>2. edits[i] \in Operations /\ i \in Nat
      BY <1>0, LenProperties, ElementOfSeq DEF TypeOK
    <3>3. edits[i].entity \in Entities /\ edits[i].tombstone \in BOOLEAN
      BY <3>2 DEF Operations
    <3> QED
      BY <1>2, <3>1, <3>2, <3>3 DEF Push
  <2>2. CASE ~\E i \in DOMAIN edits : Push(i)
    BY <1>1, <1>5, <2>2 DEF Local, Create, Edit, Mutate, TurnDown, Learn, KeepServer, KeepMine
  <2> QED
    BY <2>1, <2>2
<1>6. ASSUME NEW e \in Entities, NEW tombstone \in BOOLEAN, Write(e, tombstone)
      PROVE  LogSound' /\ OpenSound'
  BY <1>2, <1>6 DEF Write
<1> QED
  BY <1>1, <1>3, <1>4, <1>5, <1>6 DEF Next, Local, vars, Join, DeviceChanges, Start, Pull,
     ReadCursor, Gate, ReadMemberships, Query, Record, Apply, Stop

(* What a step leaves of the log, and what it adds: a change that commits   *)
(* below a number a client may hold was overtaken.                          *)
LEMMA LogGrows ==
  ASSUME Typed, LogSound, OpenSound, [Next]_vars
  PROVE  /\ log \subseteq log'
         /\ \A q : Known(q) => Known(q)'
         /\ \A c \in log : Overtaken(c) => Overtaken(c)'
         /\ \A c \in log' \ log :
              /\ c.sequence \in Nat /\ 0 < c.sequence /\ c.version \in Nat /\ 0 < c.version
              /\ \A q : Known(q) /\ c.sequence <= q => Overtaken(c)'
              /\ \A d \in log : d.entity = c.entity => d.version < c.version
              /\ c.entity \in Entities /\ VersionOf(c.entity) < c.version
              /\ UNCHANGED <<store, cursor, loop, joined>>
<1>0. log \subseteq Changes /\ IsFiniteSet(log)
  BY DEF Typed, TypeOK
<1>1. log \subseteq log'
  BY PagesFromLog
<1>2. \A q : Known(q) => Known(q)'
  BY <1>1 DEF Known, Sequences
<1>3. \A c \in log : Overtaken(c) => Overtaken(c)'
  BY <1>1 DEF Overtaken
<1>4. ASSUME NEW c \in log', c \notin log
      PROVE  /\ c.sequence \in Nat /\ 0 < c.sequence /\ c.version \in Nat /\ 0 < c.version
             /\ \A q : Known(q) /\ c.sequence <= q => Overtaken(c)'
             /\ \A d \in log : d.entity = c.entity => d.version < c.version
             /\ c.entity \in Entities /\ VersionOf(c.entity) < c.version
             /\ UNCHANGED <<store, cursor, loop, joined>>
  <2>1. PICK t \in open : CommitChange(t)
    BY <1>4, LocalFrame
       DEF Next, Local, vars, server, client, queue, loop, Write, Insert, RollBack, Join,
           DeviceChanges, Start, Pull, ReadCursor, Gate, ReadMemberships, Query, Record, Apply,
           Stop
  <2> DEFINE n == [sequence |-> t.sequence, entity |-> t.entity,
                   version |-> VersionOf(t.entity) + 1, tombstone |-> t.tombstone,
                   payload |-> PayloadOf(t), at |-> Cardinality(log)]
  <2>2. c = n
    BY <1>4, <2>1 DEF CommitChange
  <2>3. /\ c.sequence = t.sequence /\ c.entity = t.entity
        /\ c.version = VersionOf(t.entity) + 1 /\ c.at = Cardinality(log)
    BY <2>2
  <2>4. /\ VersionOf(t.entity) \in Nat /\ Cardinality(log) \in Nat /\ t.sequence \in Nat
        /\ 0 < t.sequence /\ t.sequence \notin Sequences
    BY <1>0, VersionType DEF OpenSound, Typed, TypeOK, Writes
  <2>5. ASSUME NEW q, Known(q), c.sequence <= q PROVE Overtaken(c)'
    <3>1. q # 0
      BY <2>3, <2>4, <2>5
    <3>2. PICK b \in log : b.sequence = q
      BY <2>5, <3>1 DEF Known, Sequences
    <3>3. b.sequence > c.sequence
      BY <1>0, <2>3, <2>4, <2>5, <3>2 DEF Sequences, Changes
    <3>4. b.at < c.at
      BY <2>3 DEF LogSound
    <3> QED
      BY <1>1, <3>3, <3>4 DEF Overtaken
  <2>6. ASSUME NEW d \in log, d.entity = c.entity PROVE d.version < c.version
    BY <1>0, <2>3, <2>4, <2>6 DEF LogSound, Changes
  <2>7. c.entity \in Entities /\ VersionOf(c.entity) < c.version
    BY <2>3, <2>4 DEF Typed, TypeOK, Writes
  <2> QED
    BY <2>1, <2>3, <2>4, <2>5, <2>6, <2>7 DEF CommitChange, client, loop
<1> QED
  BY <1>1, <1>2, <1>3, <1>4

-----------------------------------------------------------------------------
(* The store.                                                              *)

(* In a page cut from the log, the version check alone decides.             *)
LEMMA FreshIsNewer ==
  ASSUME Typed, LogSound, NEW p \in Pullers, NEW e \in Entities
  PROVE  Fresh(p, e) = {c \in page[p].changes : c.entity = e /\ c.version > store[e].version}
<1>1. page[p].changes \subseteq log /\ log \subseteq Changes
  BY DEF Typed, TypeOK
<1>2. ASSUME NEW b \in page[p].changes, NEW c \in page[p].changes,
             b.entity = c.entity, b.sequence < c.sequence
      PROVE  b.version < c.version
  <2>1. b.version \in Nat /\ c.version \in Nat /\ b.sequence \in Nat /\ c.sequence \in Nat
    BY <1>1 DEF Changes
  <2>2. b # c /\ ~(c.version < b.version)
    BY <1>1, <1>2, <2>1 DEF LogSound
  <2>3. b.version # c.version
    BY <1>1, <1>2, <2>2 DEF LogSound
  <2> QED
    BY <2>1, <2>2, <2>3
<1> QED
  BY <1>2 DEF Fresh

(* What the transaction of a page makes of one record.                      *)
LEMMA ApplyRecord ==
  ASSUME Typed, LogSound, NEW p \in Pullers, Apply(p), NEW e \in Entities
  PROVE  /\ store[e] \in Records /\ store'[e] \in Records
         /\ store'[e].merged = store[e].merged \cup {c.payload : c \in Fresh(p, e)}
         /\ store[e].version <= store'[e].version
         /\ \/ store'[e] = store[e]
            \/ \E d \in Fresh(p, e) : /\ store'[e].version = d.version
                                      /\ store'[e].deleted = d.tombstone
<1>0. store[e] \in Records /\ page[p].changes \subseteq log /\ log \subseteq Changes
      /\ IsFiniteSet(log)
  BY DEF Typed, TypeOK
<1>1. store'[e] = Merge(store[e], Fresh(p, e))
  BY DEF Apply
<1>2. Fresh(p, e) = {c \in page[p].changes : c.entity = e /\ c.version > store[e].version}
  BY FreshIsNewer
<1>3. PICK F \in SUBSET log : F = Fresh(p, e)
  BY <1>0, <1>2
<1>4. F \in SUBSET Changes /\ IsFiniteSet(F)
  BY <1>0, FS_Subset
<1>5. PICK m : m = Merge(store[e], F)
  OBVIOUS
<1>6. PICK r : r = store[e]
  OBVIOUS
<1>7. r \in Records /\ m = Merge(r, F)
  BY <1>0, <1>5, <1>6
<1>8. /\ m \in Records
      /\ F = {} => m = r
      /\ F # {} => \E d \in F : /\ m.version = d.version
                                 /\ m.deleted = (\E c \in F : c.version = d.version /\ c.tombstone)
      /\ m.merged = r.merged \cup {c.payload : c \in F}
  BY <1>7, <1>4, MergeType
<1>9. store'[e] = m
  BY <1>1, <1>3, <1>5
<1>10. /\ store'[e] \in Records
       /\ F = {} => store'[e] = store[e]
       /\ F # {} => \E d \in F :
            /\ store'[e].version = d.version
            /\ store'[e].deleted = (\E c \in F : c.version = d.version /\ c.tombstone)
       /\ store'[e].merged = store[e].merged \cup {c.payload : c \in F}
  BY <1>6, <1>8, <1>9
<1>11. CASE F = {}
  BY <1>0, <1>3, <1>10, <1>11 DEF Records
<1>12. CASE F # {}
  <2>1. PICK d \in F : /\ store'[e].version = d.version
                       /\ store'[e].deleted = (\E c \in F : c.version = d.version /\ c.tombstone)
    BY <1>10, <1>12
  <2>2. d \in log /\ d.entity = e /\ d.version > store[e].version
    BY <1>2, <1>3
  <2>3. \A c \in F : c.version = d.version => c = d
    BY <1>2, <1>3, <2>2 DEF LogSound
  <2>4. store'[e].deleted = d.tombstone
    <3>1. d.tombstone \in BOOLEAN
      BY <1>0, <2>2 DEF Changes
    <3>2. (\E c \in F : c.version = d.version /\ c.tombstone) <=> d.tombstone
      BY <2>3
    <3>3. store'[e].deleted \in BOOLEAN
      BY <1>10 DEF Records
    <3> QED
      BY <2>1, <3>1, <3>2, <3>3
  <2>5. store[e].version <= store'[e].version
    BY <1>0, <2>1, <2>2 DEF Changes, Records
  <2> QED
    BY <1>0, <1>3, <1>10, <2>1, <2>4, <2>5
<1> QED
  BY <1>11, <1>12

-----------------------------------------------------------------------------
(* What a step leaves of the store and of the operations.                   *)

(* An edit is made on the record as it is.                                  *)
LEMMA Mutations ==
  ASSUME Typed, StoreMatchesLog, DeletedExist, NEW e \in Edited,
         Create(e) \/ \E tombstone \in BOOLEAN : Edit(e, tombstone)
  PROVE  /\ e \in Entities /\ store[e].version \in Nat
         /\ ~store[e].deleted /\ ProjectOf[e] \in joined
         /\ \E dead \in BOOLEAN : Mutate(e, store[e].version, dead)
<1>1. e \in Entities /\ store[e] \in Records
  BY FeedAssumption DEF Typed, TypeOK
<1>2. store[e].version \in Nat
  BY <1>1 DEF Records
<1>3. CASE Create(e)
  <2>1. store[e].version = 0 /\ ProjectOf[e] \in joined /\ Mutate(e, 0, FALSE)
    BY <1>3 DEF Create
  <2>2. Mutate(e, store[e].version, FALSE)
    BY <2>1
  <2>3. ~store[e].deleted
    BY <1>1, <2>1 DEF DeletedExist
  <2> QED
    BY <1>1, <1>2, <2>1, <2>2, <2>3
<1>4. CASE \E tombstone \in BOOLEAN : Edit(e, tombstone)
  BY <1>1, <1>2, <1>4 DEF Edit, StoreMatchesLog
<1> QED
  BY <1>3, <1>4

LEMMA EditsGrow ==
  ASSUME Typed, StoreMatchesLog, DeletedExist, [Next]_vars
  PROVE  Grown
<1>0. TypeOK /\ IsFiniteSet(log)
  BY DEF Typed
<1>1. ASSUME NEW e \in Edited, Create(e) \/ \E tombstone \in BOOLEAN : Edit(e, tombstone)
      PROVE  Grown
  BY <1>0, <1>1, Mutations, MutateEdits
<1>2. ASSUME NEW i \in DOMAIN edits,
             TurnDown(i) \/ Learn(i) \/ KeepServer(i) \/ KeepMine(i)
      PROVE  Grown
  BY <1>0, <1>2, StatusStep, KeepMineEdits
<1>3. ASSUME NEW t \in open, CommitChange(t) PROVE Grown
  BY <1>0, <1>3, CommitEdits
<1>4. CASE edits' = edits
  BY <1>0, <1>4, EditsKept
<1> QED
  BY <1>1, <1>2, <1>3, <1>4
     DEF Next, vars, queue, Write, Push, Insert, RollBack, Join, DeviceChanges, Start, Pull,
         ReadCursor, Gate, ReadMemberships, Query, Record, Apply, Stop

(* Who writes the store.                                                    *)
LEMMA Writers ==
  ASSUME [Next]_vars
  PROVE  \/ UNCHANGED <<store, cursor, undone>>
         \/ \E p \in Pullers : Apply(p)
         \/ \E e \in Edited : Create(e) \/ \E tombstone \in BOOLEAN : Edit(e, tombstone)
         \/ \E i \in DOMAIN edits : KeepServer(i)
BY DEF Next, vars, server, client, queue, Write, Push, Insert, CommitChange, RollBack, TurnDown,
       Learn, KeepMine, Join, DeviceChanges, Start, Pull, ReadCursor, Gate, ReadMemberships,
       Query, Record, Stop

(* A record never falls back but by KEEP_SERVER, and what it loses then is   *)
(* noted; a record the server deleted is final.                             *)
LEMMA RecordsStep ==
  ASSUME Replicated, [Next]_vars, NEW e \in Entities
  PROVE  /\ store[e].merged \subseteq store'[e].merged \cup undone'
         /\ undone \subseteq undone'
         /\ store[e].version <= store'[e].version \/ Answers(e)
         /\ store[e].deleted /\ (\E c \in log : c.entity = e /\ c.tombstone /\
                                                c.version <= store[e].version) =>
              store'[e] = store[e]
<1> USE DEF server, client, queue, loop
<1>0. /\ Typed /\ LogSound /\ StoreMatchesLog /\ DeletedExist
      /\ TypeOK /\ IsFiniteSet(log) /\ log \subseteq Changes
      /\ store[e] \in Records /\ store[e].version \in Nat
  BY DEF Replicated, Typed, TypeOK, Records
<1>1. CASE UNCHANGED <<store, cursor, undone>>
  BY <1>0, <1>1
<1>2. ASSUME NEW p \in Pullers, Apply(p)
      PROVE  /\ store[e].merged \subseteq store'[e].merged \cup undone'
             /\ undone \subseteq undone'
             /\ store[e].version <= store'[e].version
             /\ store[e].deleted /\ (\E c \in log : c.entity = e /\ c.tombstone /\
                                                    c.version <= store[e].version) =>
                  store'[e] = store[e]
  <2>1. /\ store[e].merged \subseteq store'[e].merged
        /\ store[e].version <= store'[e].version
        /\ \/ store'[e] = store[e]
           \/ \E d \in Fresh(p, e) : store'[e].version = d.version
    BY <1>0, <1>2, ApplyRecord
  <2>2. undone' = undone
    BY <1>2 DEF Apply
  <2>3. ASSUME NEW c \in log, c.entity = e, c.tombstone, c.version <= store[e].version,
               NEW d \in Fresh(p, e)
        PROVE  FALSE
    <3>1. d \in log /\ d.entity = e /\ d.version > store[e].version
      BY <1>0, FreshIsNewer DEF Typed
    <3>2. d.version <= c.version /\ d.version \in Nat /\ c.version \in Nat
      BY <1>0, <2>3, <3>1 DEF LogSound, Changes
    <3> QED
      BY <1>0, <2>3, <3>1, <3>2
  <2> QED
    BY <2>1, <2>2, <2>3
<1>3. ASSUME NEW f \in Edited, Create(f) \/ \E tombstone \in BOOLEAN : Edit(f, tombstone)
      PROVE  /\ store[e].merged \subseteq store'[e].merged \cup undone'
             /\ undone \subseteq undone'
             /\ store[e].version <= store'[e].version
             /\ store[e].deleted => store'[e] = store[e]
  <2>1. PICK dead \in BOOLEAN : /\ f \in Entities /\ store[f].version \in Nat
                                /\ ~store[f].deleted
                                /\ Mutate(f, store[f].version, dead)
    BY <1>0, <1>3, Mutations
  <2> DEFINE r == [version |-> store[f].version + 1, deleted |-> dead,
                   merged |-> store[f].merged \cup {Len(edits) + 1}]
  <2>2. store' = [store EXCEPT ![f] = r] /\ undone' = undone
    BY <2>1 DEF Mutate
  <2>3. r.version = store[f].version + 1 /\ store[f].merged \subseteq r.merged
    OBVIOUS
  <2> HIDE DEF r
  <2>4. store'[e] = IF e = f THEN r ELSE store[e]
    BY <1>0, <2>1, <2>2 DEF TypeOK
  <2> QED
    BY <1>0, <2>1, <2>2, <2>3, <2>4
<1>4. ASSUME NEW i \in DOMAIN edits, KeepServer(i)
      PROVE  /\ store[e].merged \subseteq store'[e].merged \cup undone'
             /\ undone \subseteq undone'
             /\ store[e].version <= store'[e].version \/ Answers(e)
             /\ store[e].deleted => store'[e] = store[e]
  <2>1. /\ undone \subseteq undone' /\ store[e].merged \subseteq store'[e].merged \cup undone'
        /\ store'[e] # store[e] => e = edits[i].entity /\ ~store[e].deleted
    BY <1>0, <1>4, KeepServerStore
  <2>2. edits[i].status = "pending" /\ edits'[i].status = "resolved"
    BY <1>0, <1>4, StatusStep
  <2>3. store'[e] # store[e] => Answers(e)
    BY <2>1, <2>2 DEF Answers
  <2> QED
    BY <1>0, <2>1, <2>3
<1> QED
  BY <1>1, <1>2, <1>3, <1>4, Writers

(* What was kept stays kept.                                                *)
LEMMA StoreGrows ==
  ASSUME Replicated, [Next]_vars
  PROVE  \A c \in log : Kept(c) => Kept(c)'
<1>0. Typed /\ LogSound /\ OpenSound /\ StoreMatchesLog /\ DeletedExist
  BY DEF Replicated
<1> SUFFICES ASSUME NEW c \in log, Kept(c) PROVE Kept(c)'
  OBVIOUS
<1>1. c.entity \in Entities
  BY <1>0 DEF Typed, TypeOK, Changes
<1>2. CASE Held(c)
  BY <1>1, <1>2, RecordsStep DEF Held, Kept, Undone
<1>3. CASE Overtaken(c)
  BY <1>0, <1>3, LogGrows DEF Kept
<1>4. CASE Outrun(c)
  <2>1. Grown
    BY <1>0, EditsGrow
  <2>2. PICK i \in DOMAIN edits :
          MadeHere(i, c.entity) /\ edits[i].base + 1 = c.version /\ edits[i].payload # c.payload
    BY <1>4 DEF Outrun
  <2>3. i \in DOMAIN edits' /\ Same(edits[i], edits'[i])
    BY <2>1 DEF Grown
  <2> QED
    BY <2>2, <2>3 DEF Same, MadeHere, Outrun, Kept
<1>5. CASE Undone(c)
  BY <1>1, <1>5, RecordsStep DEF Undone, Kept
<1> QED
  BY <1>2, <1>3, <1>4, <1>5 DEF Kept

(* Only a step of its own loop changes a page or a request.                 *)
LEMMA NumbersNext ==
  ASSUME Replicated, [Next]_vars
  PROVE  NumbersKnown'
<1> USE DEF server, client, queue, loop
<1>0. /\ Typed /\ LogSound /\ OpenSound /\ NumbersKnown
      /\ TypeOK /\ IsFiniteSet(log)
  BY DEF Replicated, Typed
<1>1. \A q : Known(q) => Known(q)'
  BY <1>0, LogGrows
<1>2. Known(0)
  BY DEF Known
<1>3. CASE UNCHANGED <<cursor, after, page>>
  BY <1>0, <1>1, <1>3 DEF NumbersKnown
<1>4. ASSUME NEW p \in Pullers, ReadCursor(p) PROVE NumbersKnown'
  <2>1. scope[p] \in Scopes
    BY <1>0, <1>4 DEF ReadCursor, TypeOK
  <2>2. after' = [after EXCEPT ![p] = cursor[scope[p]]] /\ UNCHANGED <<log, cursor, page>>
    BY <1>4 DEF ReadCursor
  <2> QED
    BY <1>0, <1>1, <2>1, <2>2 DEF NumbersKnown, TypeOK
<1>5. ASSUME NEW p \in Pullers, Quit(p), UNCHANGED cursor PROVE NumbersKnown'
  BY <1>0, <1>1, <1>2, <1>5 DEF Quit, NumbersKnown, TypeOK, NoPage
<1>6. ASSUME NEW p \in Pullers, ReadMemberships(p) PROVE NumbersKnown'
  <2> DEFINE none == [changes |-> {}, latest |-> after[p], more |-> FALSE]
  <2>1. (page' = page \/ page' = [page EXCEPT ![p] = none]) /\ UNCHANGED <<cursor, after>>
    BY <1>6 DEF ReadMemberships
  <2>2. none.latest = after[p]
    OBVIOUS
  <2> HIDE DEF none
  <2> QED
    BY <1>0, <1>1, <2>1, <2>2 DEF NumbersKnown, TypeOK
<1>7. ASSUME NEW p \in Pullers, Query(p) PROVE NumbersKnown'
  <2> DEFINE S == FirstPage(Visible(p))
             full == Cardinality(S) = Limit
             answer == [changes |-> S, latest |-> Latest(p, S), more |-> full]
  <2>1. page' = [page EXCEPT ![p] = answer] /\ UNCHANGED <<cursor, after>>
    BY <1>7 DEF Query
  <2>2. Known(Latest(p, S))
    <3>1. Known(after[p])
      BY <1>0 DEF NumbersKnown
    <3>2. /\ S \subseteq log
          /\ S = {} => Latest(p, S) = after[p]
          /\ S # {} => \E d \in S : Latest(p, S) = d.sequence
      BY <1>0, QueryAnswer
    <3> HIDE DEF S
    <3> QED
      BY <3>1, <3>2 DEF Known, Sequences
  <2>3. answer.latest = Latest(p, S)
    <3> HIDE DEF S, full
    <3> QED
      OBVIOUS
  <2> HIDE DEF answer
  <2> QED
    BY <1>0, <1>1, <2>1, <2>2, <2>3 DEF NumbersKnown, TypeOK
<1>8. ASSUME NEW p \in Pullers, Apply(p) PROVE NumbersKnown'
  <2>1. cursor' = [cursor EXCEPT ![scope[p]] = page[p].latest]
    BY <1>8 DEF Apply
  <2>2. Known(page[p].latest)
    BY <1>0 DEF NumbersKnown
  <2>3. \A s \in Scopes : Known(cursor[s])'
    BY <1>0, <1>1, <2>1, <2>2 DEF NumbersKnown, TypeOK
  <2>4. /\ after' = after \/ after' = [after EXCEPT ![p] = 0]
        /\ page' = [page EXCEPT ![p] = NoPage]
    BY <1>8 DEF Apply, Quit
  <2>5. \A q \in Pullers : Known(after[q])' /\ Known(page[q].latest)'
    BY <1>0, <1>1, <1>2, <2>4 DEF NumbersKnown, TypeOK, NoPage
  <2> QED
    BY <2>3, <2>5 DEF NumbersKnown
<1> QED
  BY <1>3, <1>4, <1>5, <1>6, <1>7, <1>8, LocalFrame
     DEF Next, Local, vars, Write, Insert, CommitChange, RollBack, Join, DeviceChanges, Start,
         Pull, Gate, Record, Stop

LEMMA MembersNext ==
  ASSUME Replicated, [Next]_vars
  PROVE  MembersSound' /\ joined \subseteq joined'
<1> USE DEF server, client, queue, loop
<1>0. MembersSound /\ TypeOK
  BY DEF Replicated, Typed
<1>1. ASSUME UNCHANGED <<joined, granted, scope, pc>> PROVE MembersSound'
  BY <1>0, <1>1 DEF MembersSound
<1>2. ASSUME NEW x \in Projects, Join(x) PROVE MembersSound'
  BY <1>0, <1>2 DEF MembersSound, Join
<1>3. ASSUME NEW p \in Pullers, ReadMemberships(p) PROVE MembersSound'
  BY <1>0, <1>3 DEF MembersSound, ReadMemberships, InScope, TypeOK
<1>4. ASSUME NEW p \in Pullers, Quit(p), UNCHANGED joined PROVE MembersSound'
  BY <1>0, <1>4 DEF MembersSound, Quit, TypeOK
<1>5. ASSUME NEW p \in Pullers, NEW s \in Scopes, Start(p, s) PROVE MembersSound'
  BY <1>0, <1>5 DEF MembersSound, Start, TypeOK
<1>6. ASSUME NEW p \in Pullers, ReadCursor(p) \/ Gate(p) \/ Query(p) \/ Record(p)
      PROVE  MembersSound'
  <2>1. CASE Quit(p)
    BY <1>4, <1>6, <2>1 DEF ReadCursor, Gate, Query, Record
  <2>2. CASE ~Quit(p)
    <3>1. /\ UNCHANGED <<joined, granted, scope>>
          /\ \E l \in {"gate", "members", "record", "apply"} : pc' = [pc EXCEPT ![p] = l]
      BY <1>6, <2>2 DEF ReadCursor, Gate, Query, Record
    <3> QED
      BY <1>0, <3>1 DEF MembersSound, TypeOK
  <2> QED
    BY <2>1, <2>2
<1>7. ASSUME NEW p \in Pullers, Apply(p) \/ Stop(p) PROVE MembersSound'
  <2>1. CASE Quit(p)
    BY <1>4, <1>7, <2>1 DEF Apply, Stop
  <2>2. CASE ~Quit(p)
    <3>1. /\ UNCHANGED <<joined, scope>>
          /\ granted' = [granted EXCEPT ![p] = {}]
          /\ pc' = [pc EXCEPT ![p] = "read"]
      BY <1>7, <2>2 DEF Apply, Stop
    <3> QED
      BY <1>0, <3>1 DEF MembersSound, TypeOK
  <2> QED
    BY <2>1, <2>2
<1>8. joined \subseteq joined'
  BY LocalFrame
     DEF Next, Local, vars, Write, Insert, CommitChange, RollBack, Join, DeviceChanges, Start,
         Pull, ReadCursor, Gate, ReadMemberships, Query, Record, Apply, Stop
<1> QED
  BY <1>1, <1>2, <1>3, <1>4, <1>5, <1>6, <1>7, <1>8, LocalFrame
     DEF Next, Local, vars, Write, Insert, CommitChange, RollBack, DeviceChanges, Pull

(* The request of a loop that did not move asks for no more than before: a  *)
(* change that commits below it was overtaken.                              *)
LEMMA RequestsNext ==
  ASSUME Replicated, [Next]_vars
  PROVE  RequestsSound'
<1> USE DEF server, client, queue, loop
<1>0. /\ Typed /\ LogSound /\ OpenSound /\ NumbersKnown /\ RequestsSound /\ NothingSkipped
      /\ TypeOK
  BY DEF Replicated, Typed
<1> DEFINE Asked == {"gate", "members", "query", "record", "apply"}
           AtCursor(p) == /\ scope'[p] = scope[p] /\ scope[p] \in Scopes
                          /\ after'[p] = cursor[scope[p]]
                          /\ log' = log /\ store' = store
<1>1. ASSUME NEW p \in Pullers, pc[p] \in Asked, pc'[p] \in Asked,
             scope'[p] = scope[p], after'[p] = after[p],
             NEW c \in log', Owed(scope'[p], c), c.sequence <= after'[p]
      PROVE  Kept(c)'
  <2>1. CASE c \in log
    <3>1. Kept(c)
      BY <1>0, <1>1, <2>1 DEF RequestsSound
    <3> QED
      BY <2>1, <3>1, StoreGrows
  <2>2. CASE c \notin log
    <3>1. Known(after[p])
      BY <1>0 DEF NumbersKnown
    <3>2. Overtaken(c)'
      BY <1>0, <1>1, <2>2, <3>1, LogGrows
    <3> QED
      BY <3>2 DEF Kept
  <2> QED
    BY <2>1, <2>2
<1>2. ASSUME NEW p \in Pullers, AtCursor(p),
             NEW c \in log', Owed(scope'[p], c), c.sequence <= after'[p]
      PROVE  Kept(c)'
  <2>1. Kept(c)
    BY <1>0, <1>2 DEF NothingSkipped, Kept, Owed
  <2> QED
    BY <1>2, <2>1, StoreGrows
<1>3. ASSUME NEW q \in Pullers, pc'[q] \in Asked
      PROVE  \/ AtCursor(q)
             \/ pc[q] \in Asked /\ scope'[q] = scope[q] /\ after'[q] = after[q]
  <2>1. CASE pc' = pc /\ scope' = scope /\ after' = after
    BY <1>3, <2>1
  <2>2. ASSUME NEW p \in Pullers, Quit(p)
        PROVE  pc[q] \in Asked /\ scope'[q] = scope[q] /\ after'[q] = after[q]
    BY <1>0, <1>3, <2>2 DEF Quit, TypeOK
  <2>3. ASSUME NEW p \in Pullers, ReadCursor(p)
        PROVE  AtCursor(q) \/ (pc[q] \in Asked /\ scope'[q] = scope[q] /\ after'[q] = after[q])
    <3>1. CASE q = p
      <4>1. /\ scope' = scope /\ log' = log /\ store' = store /\ pc[p] # "idle"
            /\ after' = [after EXCEPT ![p] = cursor[scope[p]]]
        BY <2>3 DEF ReadCursor
      <4>2. scope[p] \in Scopes /\ after'[p] = cursor[scope[p]]
        BY <1>0, <4>1 DEF TypeOK
      <4> QED
        BY <3>1, <4>1, <4>2
    <3>2. CASE q # p
      BY <1>0, <1>3, <2>3, <3>2 DEF ReadCursor, TypeOK
    <3> QED
      BY <3>1, <3>2
  <2>4. ASSUME NEW p \in Pullers, Gate(p) \/ ReadMemberships(p) \/ Query(p) \/ Record(p) \/ Apply(p)
                                  \/ Stop(p) \/ \E s \in Scopes : Start(p, s),
               ~Quit(p)
        PROVE  pc[q] \in Asked /\ scope'[q] = scope[q] /\ after'[q] = after[q]
    BY <1>0, <1>3, <2>4
       DEF Gate, ReadMemberships, Query, Record, Apply, Stop, Start, TypeOK
  <2> QED
    BY <2>1, <2>2, <2>3, <2>4, LocalFrame
       DEF Next, Local, vars, Write, Insert, CommitChange, RollBack, Join, DeviceChanges, Pull
<1>4. ASSUME NEW p \in Pullers, pc'[p] \in Asked,
             NEW c \in log', Owed(scope'[p], c), c.sequence <= after'[p]
      PROVE  Kept(c)'
  BY <1>1, <1>2, <1>3, <1>4
<1>5. \A s, c : Owed(s, c)' <=> Owed(s, c)
  BY DEF Owed, Covers
<1> QED
  BY <1>4, <1>5 DEF RequestsSound, Owed, Covers

(* A page that waits stays sound while the log and the store grow.          *)
LEMMA PageKept ==
  ASSUME Replicated, [Next]_vars, NEW p \in Pullers,
         page'[p] = page[p], scope'[p] = scope[p],
         pc'[p] \in {"record", "apply"} <=> pc[p] \in {"record", "apply"}
  PROVE  PageSound(p)'
<1> USE DEF server, client, queue, loop
<1>0. /\ Typed /\ LogSound /\ OpenSound /\ NumbersKnown /\ PageSound(p)
  BY DEF Replicated, PagesSound
<1>1. joined \subseteq joined'
  BY MembersNext
<1>2. ASSUME NEW c \in log', pc'[p] \in {"record", "apply"},
             Owed(scope[p], c), c.sequence <= page[p].latest
      PROVE  c \in page[p].changes \/ Kept(c)'
  <2>1. CASE c \in log
    <3>1. c \in page[p].changes \/ Kept(c)
      BY <1>0, <1>2, <2>1 DEF PageSound
    <3> QED
      BY <2>1, <3>1, StoreGrows
  <2>2. CASE c \notin log
    <3>1. Known(page[p].latest)
      BY <1>0 DEF NumbersKnown
    <3>2. Overtaken(c)'
      BY <1>0, <1>2, <2>2, <3>1, LogGrows
    <3> QED
      BY <3>2 DEF Kept
  <2> QED
    BY <2>1, <2>2
<1>3. \A s, c : Owed(s, c)' <=> Owed(s, c)
  BY DEF Owed, Covers
<1>4. /\ \A d \in page'[p].changes :
           /\ d.sequence <= page'[p].latest
           /\ ProjectOf[d.entity] \in joined'
           /\ scope'[p] # Default => ProjectOf[d.entity] = scope'[p]
  BY <1>0, <1>1 DEF PageSound
<1>5. IF pc'[p] \in {"record", "apply"}
      THEN \A c \in log' : Owed(scope'[p], c) /\ c.sequence <= page'[p].latest =>
             c \in page'[p].changes \/ Kept(c)'
      ELSE page'[p].changes = {}
  BY <1>0, <1>2 DEF PageSound
<1> QED
  BY <1>4, <1>5 DEF PageSound, Owed, Covers

(* A query returns every change that is owed between the request and the     *)
(* highest sequence of its answer.                                          *)
LEMMA PageQueried ==
  ASSUME Replicated, NEW p \in Pullers, Query(p)
  PROVE  PageSound(p)'
<1> USE DEF server, client, queue, loop
<1>0. /\ Typed /\ LogSound /\ RequestsSound /\ MembersSound /\ TypeOK /\ IsFiniteSet(log)
      /\ pc[p] = "query" /\ UNCHANGED <<log, store, edits, undone, joined, scope>>
      /\ log \subseteq Changes /\ after[p] \in Nat /\ pc'[p] = "record"
  BY DEF Replicated, Typed, TypeOK, Query
<1> DEFINE full == Cardinality(FirstPage(Visible(p))) = Limit
<1>1. PICK S : S = FirstPage(Visible(p))
  OBVIOUS
<1>2. PICK n : n = Latest(p, S)
  OBVIOUS
<1>3. /\ S \subseteq Visible(p) /\ Visible(p) \subseteq log /\ IsFiniteSet(Visible(p))
      /\ n \in Nat
      /\ S = {} => n = after[p]
      /\ S # {} => \E d \in S : n = d.sequence
      /\ \A c \in S : c.sequence <= n
  BY <1>0, <1>1, <1>2, QueryAnswer
<1>4. page'[p].changes = S /\ page'[p].latest = n
  <2> DEFINE answer == [changes |-> S, latest |-> n, more |-> full]
  <2>1. page' = [page EXCEPT ![p] = answer]
    BY <1>1, <1>2 DEF Query
  <2>2. answer.changes = S /\ answer.latest = n
    <3> HIDE DEF full
    <3> QED
      OBVIOUS
  <2> HIDE DEF answer
  <2> QED
    BY <1>0, <2>1, <2>2 DEF TypeOK
<1>5. ASSUME NEW d \in S
      PROVE  /\ d.sequence <= n
             /\ ProjectOf[d.entity] \in joined
             /\ scope[p] # Default => ProjectOf[d.entity] = scope[p]
  BY <1>0, <1>3, <1>5 DEF Visible, MembersSound
<1>6. ASSUME NEW c \in log, Owed(scope[p], c), c.sequence <= n
      PROVE  c \in S \/ Kept(c)
  <2>0. c.sequence \in Nat
    BY <1>0 DEF Changes
  <2>1. CASE c.sequence <= after[p]
    BY <1>0, <1>6, <2>1 DEF RequestsSound
  <2>2. CASE c.sequence > after[p]
    <3>1. c \in Visible(p)
      BY <1>0, <1>6, <2>2 DEF Visible, Owed, Covers, MembersSound
    <3>2. PICK d \in S : n = d.sequence
      BY <1>0, <1>3, <1>6, <2>0, <2>2
    <3>3. Visible(p) \in SUBSET Changes /\ d \in FirstPage(Visible(p)) /\ c.sequence <= d.sequence
      BY <1>0, <1>1, <1>3, <1>6, <3>2
    <3>4. PICK V : V = Visible(p)
      OBVIOUS
    <3>5. c \in FirstPage(V)
      BY <1>3, <3>1, <3>3, <3>4, PageClosed
    <3> QED
      BY <1>1, <3>4, <3>5
  <2> QED
    BY <1>0, <2>0, <2>1, <2>2
<1>7. \A c : (Kept(c)' <=> Kept(c)) /\ \A s : Owed(s, c)' <=> Owed(s, c)
  BY <1>0 DEF Kept, Held, Overtaken, Outrun, MadeHere, Undone, Owed, Covers
<1>8. \A d \in page'[p].changes :
        /\ d.sequence <= page'[p].latest
        /\ ProjectOf[d.entity] \in joined'
        /\ scope'[p] # Default => ProjectOf[d.entity] = scope'[p]
  BY <1>0, <1>4, <1>5
<1>9. \A c \in log' : Owed(scope'[p], c) /\ c.sequence <= page'[p].latest =>
        c \in page'[p].changes \/ Kept(c)'
  BY <1>0, <1>4, <1>6, <1>7
<1> QED
  BY <1>0, <1>8, <1>9 DEF PageSound, Owed, Covers

LEMMA PagesNext ==
  ASSUME Replicated, [Next]_vars
  PROVE  PagesSound'
<1> USE DEF server, client, queue, loop
<1> SUFFICES ASSUME NEW p \in Pullers PROVE PageSound(p)'
  BY DEF PagesSound
<1>0. /\ Typed /\ RequestsSound /\ PageSound(p) /\ TypeOK
  BY DEF Replicated, Typed, PagesSound
<1> DEFINE Cut == {"record", "apply"}
           none == [changes |-> {}, latest |-> after[p], more |-> FALSE]
<1>1. CASE page'[p].changes = {} /\ pc'[p] \notin Cut
  BY <1>1 DEF PageSound
<1>2. CASE /\ page'[p] = page[p] /\ scope'[p] = scope[p]
           /\ pc'[p] \in Cut <=> pc[p] \in Cut
  BY <1>2, PageKept
<1>3. CASE Query(p)
  BY <1>3, PageQueried
<1>4. CASE page'[p] = none /\ pc[p] = "members" /\ UNCHANGED <<log, store, edits, undone, scope>>
  <2>1. page'[p].changes = {} /\ page'[p].latest = after[p]
    BY <1>4
  <2>2. ASSUME NEW c \in log', Owed(scope'[p], c), c.sequence <= page'[p].latest
        PROVE  Kept(c)
    BY <1>0, <1>4, <2>1, <2>2 DEF RequestsSound
  <2>3. \A c : (Kept(c)' <=> Kept(c)) /\ \A s : Owed(s, c)' <=> Owed(s, c)
    BY <1>4 DEF Kept, Held, Overtaken, Outrun, MadeHere, Undone, Owed, Covers
  <2>4. \A c \in log' : Owed(scope'[p], c) /\ c.sequence <= page'[p].latest =>
          c \in page'[p].changes \/ Kept(c)'
    BY <2>2, <2>3
  <2> QED
    BY <2>1, <2>4 DEF PageSound, Owed, Covers
<1>5. ASSUME pc' = pc, scope' = scope, page' = page PROVE PageSound(p)'
  BY <1>2, <1>5
<1>6. ASSUME NEW q \in Pullers, q # p,
             \/ Pull(q) \/ Stop(q) \/ \E s \in Scopes : Start(q, s)
      PROVE  PageSound(p)'
  <2>1. pc'[p] = pc[p] /\ scope'[p] = scope[p] /\ page'[p] = page[p]
    BY <1>0, <1>6 DEF Pull, ReadCursor, Gate, ReadMemberships, Query, Record, Apply, Stop, Quit,
                      Start, TypeOK
  <2> QED
    BY <1>2, <2>1
<1>7. ASSUME (\E s \in Scopes : Start(p, s)) \/ ReadCursor(p) PROVE PageSound(p)'
  BY <1>0, <1>1, <1>7 DEF Start, ReadCursor, TypeOK, PageSound
<1>8. ASSUME Quit(p) PROVE PageSound(p)'
  BY <1>0, <1>1, <1>8 DEF Quit, NoPage, TypeOK
<1>9. ASSUME Gate(p), ~Quit(p) PROVE PageSound(p)'
  BY <1>0, <1>1, <1>9 DEF Gate, TypeOK, PageSound
<1>10. ASSUME ReadMemberships(p) PROVE PageSound(p)'
  <2>1. CASE InScope(scope[p])
    BY <1>0, <1>1, <1>10, <2>1 DEF ReadMemberships, TypeOK, PageSound
  <2>2. CASE ~InScope(scope[p])
    BY <1>0, <1>4, <1>10, <2>2 DEF ReadMemberships, TypeOK
  <2> QED
    BY <2>1, <2>2
<1>11. ASSUME Record(p) PROVE PageSound(p)'
  BY <1>0, <1>2, <1>11 DEF Record, TypeOK
<1>12. ASSUME Apply(p) PROVE PageSound(p)'
  BY <1>0, <1>1, <1>12 DEF Apply, Quit, NoPage, TypeOK
<1>13. ASSUME Stop(p) PROVE PageSound(p)'
  BY <1>8, <1>13 DEF Stop
<1> QED
  BY <1>3, <1>5, <1>6, <1>7, <1>8, <1>9, <1>10, <1>11, <1>12, <1>13, LocalFrame
     DEF Next, Local, vars, Write, Insert, CommitChange, RollBack, Join, DeviceChanges, Pull

(* Who opens a transaction.                                                 *)
LEMMA Openers ==
  ASSUME [Next]_vars, NEW t \in open', t \notin open, t.op # 0
  PROVE  \E i \in DOMAIN edits : Push(i)
<1> USE DEF server, client, queue, loop
<1>1. ASSUME NEW e \in Entities, NEW tombstone \in BOOLEAN, Write(e, tombstone) PROVE FALSE
  <2>1. t = [sequence |-> nextSeq, entity |-> e, tombstone |-> tombstone, op |-> 0]
    BY <1>1 DEF Write, Insert
  <2> QED
    BY <2>1
<1>2. ASSUME NEW u \in open, CommitChange(u) \/ RollBack(u) PROVE FALSE
  BY <1>2 DEF CommitChange, RollBack
<1>3. ASSUME NEW e \in Edited, Create(e) \/ \E tombstone \in BOOLEAN : Edit(e, tombstone)
      PROVE  FALSE
  BY <1>3 DEF Create, Edit, Mutate
<1>4. ASSUME NEW i \in DOMAIN edits, TurnDown(i) \/ Learn(i) \/ KeepServer(i) \/ KeepMine(i)
      PROVE  FALSE
  BY <1>4 DEF TurnDown, Learn, KeepServer, KeepMine
<1> QED
  BY <1>1, <1>2, <1>3, <1>4
     DEF Next, vars, Join, DeviceChanges, Start, Pull, ReadCursor, Gate, ReadMemberships, Query,
         Record, Apply, Stop

(* The operations: what an old one keeps, and what a new one brings.         *)
LEMMA EditsNext ==
  ASSUME Replicated, [Next]_vars
  PROVE  EditsSound'
<1> USE DEF server, client, queue, loop
<1>0. /\ Typed /\ LogSound /\ StoreMatchesLog /\ DeletedExist /\ EditsSound
      /\ TypeOK /\ IsFiniteSet(log) /\ Grown
      /\ log \subseteq log' /\ joined \subseteq joined'
      /\ \A i \in DOMAIN edits : edits[i] \in Operations /\ edits[i].entity \in Entities
  <2>1. /\ Typed /\ LogSound /\ OpenSound /\ StoreMatchesLog /\ DeletedExist /\ EditsSound
        /\ TypeOK /\ IsFiniteSet(log)
    BY DEF Replicated, Typed
  <2>2. Grown /\ log \subseteq log' /\ joined \subseteq joined'
    BY <2>1, EditsGrow, LogGrows, MembersNext DEF Replicated
  <2>3. \A i \in DOMAIN edits : edits[i] \in Operations
    BY <2>1, LenProperties, ElementOfSeq DEF TypeOK
  <2> QED
    BY <2>1, <2>2, <2>3 DEF Operations
<1>1. ASSUME NEW i \in DOMAIN edits
      PROVE  /\ i \in DOMAIN edits' /\ Same(edits[i], edits'[i])
             /\ edits'[i].payload \in store'[edits'[i].entity].merged \cup undone'
             /\ ProjectOf[edits'[i].entity] \in joined'
  <2>1. i \in DOMAIN edits' /\ Same(edits[i], edits'[i])
    BY <1>0 DEF Grown
  <2>2. edits[i].payload \in store[edits[i].entity].merged \cup undone
        /\ ProjectOf[edits[i].entity] \in joined
    BY <1>0 DEF EditsSound, EditSound
  <2>3. store[edits[i].entity].merged \subseteq store'[edits[i].entity].merged \cup undone'
        /\ undone \subseteq undone'
    BY <1>0, RecordsStep
  <2> QED
    BY <1>0, <2>1, <2>2, <2>3 DEF Same
<1>2. ASSUME NEW i \in DOMAIN edits,
             edits'[i] = edits[i] \/ edits'[i].status \in {"applied", "resolved"}
      PROVE  EditSound(i)'
  BY <1>0, <1>1, <1>2 DEF EditsSound, EditSound
<1>3. CASE edits' = edits
  <2>1. \A i \in DOMAIN edits' : EditSound(i)'
    BY <1>2, <1>3
  <2>2. ASSUME NEW t \in open', t.op # 0 PROVE edits'[t.op].entity = t.entity
    <3>1. CASE t \in open
      BY <1>0, <1>3, <2>2, <3>1 DEF EditsSound
    <3>2. CASE t \notin open
      <4>1. PICK i \in DOMAIN edits : Push(i)
        BY <2>2, <3>2, Openers
      <4>2. t = [sequence |-> nextSeq, entity |-> edits[i].entity,
                 tombstone |-> edits[i].tombstone, op |-> i]
        BY <3>2, <4>1 DEF Push, Insert
      <4> QED
        BY <1>3, <4>2
    <3> QED
      BY <3>1, <3>2
  <2> QED
    BY <2>1, <2>2 DEF EditsSound
<1>4. ASSUME open' \subseteq open, \A i \in DOMAIN edits' : EditSound(i)'
      PROVE  EditsSound'
  <2>1. ASSUME NEW t \in open', t.op # 0 PROVE edits'[t.op].entity = t.entity
    <3>1. t \in open /\ t.op \in 0 .. Len(edits) /\ edits[t.op].entity = t.entity
      BY <1>0, <1>4, <2>1 DEF EditsSound, TypeOK
    <3>2. t.op \in DOMAIN edits
      BY <1>0, <2>1, <3>1 DEF Grown
    <3> QED
      BY <1>1, <3>1, <3>2 DEF Same
  <2> QED
    BY <1>4, <2>1 DEF EditsSound
<1>5. ASSUME NEW t \in open, CommitChange(t) PROVE EditsSound'
  <2>1. /\ Len(edits') = Len(edits)
        /\ \A i \in DOMAIN edits : i # t.op => edits'[i] = edits[i]
        /\ t.op \in DOMAIN edits => edits'[t.op].status = "applied"
    BY <1>0, <1>5, CommitEdits
  <2>2. DOMAIN edits' = DOMAIN edits /\ open' \subseteq open
    BY <1>0, <1>5, <2>1 DEF Grown, CommitChange
  <2>3. \A i \in DOMAIN edits' : EditSound(i)'
    BY <1>2, <2>1, <2>2
  <2> QED
    BY <1>4, <2>2, <2>3
<1>6. ASSUME NEW i \in DOMAIN edits, TurnDown(i) \/ Learn(i) \/ KeepServer(i)
      PROVE  EditsSound'
  <2>1. /\ Len(edits') = Len(edits)
        /\ \A j \in DOMAIN edits : j # i => edits'[j] = edits[j]
        /\ edits'[i].version = IF TurnDown(i) THEN VersionOf(edits[i].entity) ELSE edits[i].version
        /\ TurnDown(i) => edits[i].status = "queued" /\ edits'[i].status = "conflict"
        /\ Learn(i) => edits[i].status = "conflict" /\ edits'[i].status = "pending"
        /\ KeepServer(i) => edits[i].status = "pending" /\ edits'[i].status = "resolved"
    BY <1>0, <1>6, StatusStep
  <2>2. DOMAIN edits' = DOMAIN edits /\ open' = open
    BY <1>0, <1>6, <2>1 DEF Grown, TurnDown, Learn, KeepServer
  <2>3. CASE TurnDown(i)
    <3>1. VersionOf(edits[i].entity) > 0 /\ Alive(edits[i].entity)
      BY <2>3 DEF TurnDown
    <3>2. PICK c \in log : c.entity = edits[i].entity /\ c.version = VersionOf(edits[i].entity)
      BY <1>0, <3>1 DEF LogSound
    <3>3. ~c.tombstone
      BY <3>1, <3>2 DEF Alive
    <3>4. EditSound(i)'
      BY <1>0, <1>1, <2>1, <2>3, <3>2, <3>3 DEF EditSound, Same
    <3> QED
      BY <1>2, <1>4, <2>1, <2>2, <3>4
  <2>4. CASE Learn(i)
    <3>1. edits'[i].version = edits[i].version /\ edits[i].status = "conflict"
      BY <2>1, <2>4
    <3>2. EditSound(i)'
      BY <1>0, <1>1, <3>1 DEF EditsSound, EditSound, Same
    <3> QED
      BY <1>2, <1>4, <2>1, <2>2, <3>2
  <2>5. CASE KeepServer(i)
    BY <1>2, <1>4, <2>1, <2>2, <2>5
  <2> QED
    BY <1>6, <2>3, <2>4, <2>5
<1>7. ASSUME NEW i \in DOMAIN edits, KeepMine(i) PROVE EditsSound'
  <2>0. PICK n \in Nat : n = Len(edits) + 1
    BY <1>0 DEF Grown
  <2>1. /\ Len(edits') = n
        /\ edits'[i].status = "resolved"
        /\ \A j \in DOMAIN edits : j # i => edits'[j] = edits[j]
        /\ edits'[n].entity = edits[i].entity /\ edits'[n].payload = edits[i].payload
        /\ edits'[n].status = "queued"
        /\ open' = open /\ store' = store /\ undone' = undone /\ joined' = joined
    BY <1>0, <1>7, <2>0, KeepMineEdits
  <2>2. DOMAIN edits' = DOMAIN edits \cup {n}
    BY <1>0, <2>0, <2>1 DEF Grown
  <2>3. EditSound(n)'
    BY <1>0, <2>1 DEF EditsSound, EditSound
  <2> QED
    BY <1>2, <1>4, <2>1, <2>2, <2>3
<1>8. ASSUME NEW e \in Edited, Create(e) \/ \E tombstone \in BOOLEAN : Edit(e, tombstone)
      PROVE  EditsSound'
  <2>0. PICK n \in Nat : n = Len(edits) + 1
    BY <1>0 DEF Grown
  <2>1. PICK dead \in BOOLEAN : /\ e \in Entities /\ store[e].version \in Nat
                                /\ ProjectOf[e] \in joined
                                /\ Mutate(e, store[e].version, dead)
    BY <1>0, <1>8, Mutations
  <2> DEFINE x == [entity |-> e, base |-> store[e].version, tombstone |-> dead,
                   payload |-> n, status |-> "queued", version |-> 0]
             r == [version |-> store[e].version + 1, deleted |-> dead,
                   merged |-> store[e].merged \cup {n}]
  <2>2. /\ Len(edits') = n /\ edits'[n] = x
        /\ \A i \in DOMAIN edits : edits'[i] = edits[i]
        /\ store' = [store EXCEPT ![e] = r]
        /\ open' = open /\ joined' = joined
    BY <1>0, <2>0, <2>1, MutateEdits
  <2>3. DOMAIN edits' = DOMAIN edits \cup {n}
    BY <1>0, <2>0, <2>2 DEF Grown
  <2>4. n \in store'[e].merged
    <3>1. store'[e] = r
      BY <1>0, <2>1, <2>2 DEF TypeOK
    <3> QED
      BY <3>1
  <2>5. EditSound(n)'
    BY <2>1, <2>2, <2>4 DEF EditSound
  <2> HIDE DEF x, r
  <2> QED
    BY <1>2, <1>4, <2>2, <2>3, <2>5
<1> QED
  BY <1>3, <1>5, <1>6, <1>7, <1>8
     DEF Next, vars, Write, Push, Insert, RollBack, Join, DeviceChanges, Start, Pull, ReadCursor,
         Gate, ReadMemberships, Query, Record, Apply, Stop

(* The version of an entity only grows.                                     *)
LEMMA VersionsGrow ==
  ASSUME Typed, LogSound, OpenSound, [Next]_vars, NEW e
  PROVE  VersionOf(e) \in Nat /\ VersionOf(e)' \in Nat /\ VersionOf(e) <= VersionOf(e)'
<1>1. log \subseteq log' /\ IsFiniteSet(log) /\ IsFiniteSet(log')
  BY PagesFromLog, TypedNext DEF Typed
<1> DEFINE A == {c \in log : c.entity = e}
           B == {c \in log' : c.entity = e}
<1>2. A \subseteq B /\ IsFiniteSet(B)
  BY <1>1, FS_Subset
<1>3. Cardinality(A) \in Nat /\ Cardinality(B) \in Nat /\ Cardinality(A) <= Cardinality(B)
  BY <1>2, FS_Subset, FS_CardinalityType
<1> QED
  BY <1>3 DEF VersionOf

(* A record goes above the version of the server only by an edit.            *)
LEMMA AheadNext ==
  ASSUME Replicated, [Next]_vars
  PROVE  AheadByEdits'
<1> USE DEF server, client, queue, loop
<1>0. /\ Typed /\ LogSound /\ OpenSound /\ StoreMatchesLog /\ DeletedExist
      /\ AheadByEdits /\ EditsSound
      /\ TypeOK /\ IsFiniteSet(log) /\ log \subseteq Changes /\ Grown
      /\ \A e \in Entities : store[e].version \in Nat
  <2>1. /\ Typed /\ LogSound /\ OpenSound /\ StoreMatchesLog /\ DeletedExist
        /\ AheadByEdits /\ EditsSound /\ TypeOK /\ IsFiniteSet(log) /\ log \subseteq Changes
    BY DEF Replicated, Typed, TypeOK
  <2>2. Grown
    BY <2>1, EditsGrow
  <2> QED
    BY <2>1, <2>2 DEF TypeOK, Records
<1> SUFFICES ASSUME NEW e \in Entities, NEW w \in Nat, VersionOf(e)' < w, w <= store'[e].version
             PROVE  \E i \in DOMAIN edits' : MadeHere(i, e)' /\ edits'[i].base + 1 = w
  BY DEF AheadByEdits
<1>1. VersionOf(e) \in Nat /\ VersionOf(e) < w
  BY <1>0, VersionsGrow
<1>2. CASE w <= store[e].version
  <2>1. PICK i \in DOMAIN edits : MadeHere(i, e) /\ edits[i].base + 1 = w
    BY <1>0, <1>1, <1>2 DEF AheadByEdits
  <2>2. i \in DOMAIN edits' /\ Same(edits[i], edits'[i])
    BY <1>0 DEF Grown
  <2> QED
    BY <2>1, <2>2 DEF Same, MadeHere
<1>3. CASE ~(w <= store[e].version)
  <2>1. store'[e] # store[e]
    BY <1>3
  <2>2. \A c \in log : c.entity = e => c.version <= VersionOf(e) /\ c.version \in Nat
    BY <1>0 DEF LogSound, Changes
  <2>3. ASSUME NEW p \in Pullers, Apply(p) PROVE FALSE
    <3>1. PICK d \in Fresh(p, e) : store'[e].version = d.version
      BY <1>0, <2>1, <2>3, ApplyRecord
    <3>2. d \in log /\ d.entity = e
      BY <1>0, FreshIsNewer DEF Typed
    <3> QED
      BY <1>1, <2>2, <3>1, <3>2
  <2>4. ASSUME NEW i \in DOMAIN edits, KeepServer(i) PROVE FALSE
    <3>1. e = edits[i].entity /\ store'[e].version = edits[i].version
      BY <1>0, <2>1, <2>4, KeepServerStore
    <3>2. edits[i].status = "pending"
      BY <2>4 DEF KeepServer
    <3>3. PICK c \in log : c.entity = edits[i].entity /\ c.version = edits[i].version
      BY <1>0, <3>2 DEF EditsSound, EditSound
    <3> QED
      BY <1>1, <2>2, <3>1, <3>3
  <2>5. ASSUME NEW f \in Edited, Create(f) \/ \E tombstone \in BOOLEAN : Edit(f, tombstone)
        PROVE  \E i \in DOMAIN edits' : MadeHere(i, e)' /\ edits'[i].base + 1 = w
    <3>0. PICK n \in Nat : n = Len(edits) + 1
      BY <1>0 DEF Grown
    <3>1. PICK dead \in BOOLEAN : /\ f \in Entities /\ store[f].version \in Nat
                                  /\ Mutate(f, store[f].version, dead)
      BY <1>0, <2>5, Mutations
    <3> DEFINE x == [entity |-> f, base |-> store[f].version, tombstone |-> dead,
                     payload |-> n, status |-> "queued", version |-> 0]
               r == [version |-> store[f].version + 1, deleted |-> dead,
                     merged |-> store[f].merged \cup {n}]
    <3>2. Len(edits') = n /\ edits'[n] = x /\ store' = [store EXCEPT ![f] = r]
      BY <1>0, <3>0, <3>1, MutateEdits
    <3>3. r.version = store[f].version + 1
      OBVIOUS
    <3>4. e = f /\ store'[e].version = store[f].version + 1
      BY <1>0, <2>1, <3>1, <3>2, <3>3 DEF TypeOK
    <3>5. w = store[f].version + 1
      BY <1>0, <1>3, <3>4
    <3>6. n \in DOMAIN edits'
      BY <1>0, <3>0, <3>2 DEF Grown
    <3> QED
      BY <3>2, <3>4, <3>5, <3>6 DEF MadeHere
  <2> QED
    BY <2>1, <2>3, <2>4, <2>5, Writers
<1> QED
  BY <1>2, <1>3

(* A change that commits where a record already is: an edit put it there.    *)
LEMMA NewKept ==
  ASSUME Replicated, [Next]_vars, NEW c \in log', c \notin log,
         c.version <= store'[c.entity].version
  PROVE  Kept(c)'
<1>0. /\ Typed /\ LogSound /\ OpenSound /\ StoreMatchesLog /\ DeletedExist
      /\ AheadByEdits /\ EditsSound' /\ Grown
  BY EditsGrow, EditsNext DEF Replicated
<1>1. /\ c.version \in Nat /\ c.entity \in Entities /\ VersionOf(c.entity) < c.version
      /\ store' = store
  BY <1>0, LogGrows
<1>2. PICK i \in DOMAIN edits : MadeHere(i, c.entity) /\ edits[i].base + 1 = c.version
  BY <1>0, <1>1 DEF AheadByEdits
<1>3. i \in DOMAIN edits' /\ Same(edits[i], edits'[i])
  BY <1>0 DEF Grown
<1>4. MadeHere(i, c.entity)' /\ edits'[i].base + 1 = c.version
  BY <1>2, <1>3 DEF Same, MadeHere
<1>5. CASE edits'[i].payload # c.payload
  BY <1>3, <1>4, <1>5 DEF Outrun, Kept
<1>6. CASE edits'[i].payload = c.payload
  BY <1>0, <1>3, <1>4, <1>6 DEF EditsSound, EditSound, MadeHere, Held, Undone, Kept
<1> QED
  BY <1>5, <1>6

(* The transaction of a page: what it passes or takes a record past is kept. *)
LEMMA ApplyKeeps ==
  ASSUME Replicated, [Next]_vars, NEW p \in Pullers, Apply(p), NEW c \in log,
         ProjectOf[c.entity] \in Home
  PROVE  /\ log' = log /\ scope[p] \in Scopes
         /\ cursor' = [cursor EXCEPT ![scope[p]] = page[p].latest]
         /\ Owed(scope[p], c) /\ c.sequence <= page[p].latest => Kept(c)'
         /\ c.version <= store'[c.entity].version => Kept(c)'
<1> USE DEF server, client, queue, loop
<1>0. /\ Typed /\ LogSound /\ PagesSound /\ RecordsAreWhole
      /\ TypeOK /\ log \subseteq Changes
  BY DEF Replicated, Typed, TypeOK
<1>1. /\ log' = log /\ pc[p] = "apply" /\ scope[p] \in Scopes
      /\ cursor' = [cursor EXCEPT ![scope[p]] = page[p].latest]
      /\ PageSound(p) /\ page[p].changes \subseteq log /\ page[p].latest \in Nat
  BY <1>0 DEF Apply, PagesSound, Typed, TypeOK
<1>2. /\ c.entity \in Entities /\ c.version \in Nat /\ c.sequence \in Nat
      /\ store[c.entity].version \in Nat
  BY <1>0 DEF TypeOK, Changes, Records
<1>3. Fresh(p, c.entity) =
        {d \in page[p].changes : d.entity = c.entity /\ d.version > store[c.entity].version}
  BY <1>0, <1>2, FreshIsNewer
<1>4. /\ store'[c.entity].merged =
           store[c.entity].merged \cup {d.payload : d \in Fresh(p, c.entity)}
      /\ \/ store'[c.entity] = store[c.entity]
         \/ \E d \in Fresh(p, c.entity) : store'[c.entity].version = d.version
  BY <1>0, <1>2, ApplyRecord
<1>5. ASSUME c.version <= store[c.entity].version PROVE Kept(c)'
  BY <1>0, <1>5, StoreGrows DEF RecordsAreWhole, Kept
<1>6. ASSUME Owed(scope[p], c), c.sequence <= page[p].latest PROVE Kept(c)'
  <2>1. c \in page[p].changes \/ Kept(c)
    BY <1>1, <1>6 DEF PageSound
  <2>2. CASE Kept(c)
    BY <2>2, StoreGrows
  <2>3. CASE c \in page[p].changes /\ c.version > store[c.entity].version
    <3>1. c \in Fresh(p, c.entity)
      BY <1>3, <2>3
    <3>2. c.payload \in store'[c.entity].merged
      BY <1>4, <3>1
    <3> QED
      BY <3>2 DEF Kept, Held
  <2> QED
    BY <1>2, <1>5, <2>1, <2>2, <2>3
<1>7. ASSUME c.version <= store'[c.entity].version, c.version > store[c.entity].version
      PROVE  Kept(c)'
  <2>1. PICK d \in Fresh(p, c.entity) : store'[c.entity].version = d.version
    BY <1>2, <1>4, <1>7
  <2>2. /\ d \in page[p].changes /\ d \in log /\ d.entity = c.entity
        /\ c.version <= d.version /\ d.sequence <= page[p].latest
        /\ scope[p] # Default => ProjectOf[d.entity] = scope[p]
    BY <1>1, <1>3, <1>7, <2>1 DEF PageSound
  <2>3. d.version \in Nat /\ d.sequence \in Nat
    BY <1>0, <2>2 DEF Changes
  <2>4. c.sequence <= d.sequence
    BY <1>0, <1>2, <2>2, <2>3 DEF LogSound
  <2>5. Owed(scope[p], c) /\ c.sequence <= page[p].latest
    BY <1>1, <1>2, <2>2, <2>3, <2>4 DEF Owed, Covers
  <2> QED
    BY <1>6, <2>5
<1> QED
  BY <1>1, <1>2, <1>5, <1>6, <1>7

LEMMA SkippedNext ==
  ASSUME Replicated, [Next]_vars
  PROVE  NothingSkipped'
<1> USE DEF server, client, queue, loop
<1>0. /\ Typed /\ LogSound /\ OpenSound /\ NumbersKnown /\ NothingSkipped /\ TypeOK
  BY DEF Replicated, Typed
<1>1. ASSUME NEW s \in Scopes, NEW c \in log', Owed(s, c), c.sequence <= cursor'[s]
      PROVE  Kept(c)'
  <2>1. CASE c \notin log
    <3>1. Known(cursor[s]) /\ cursor' = cursor
      BY <1>0, <2>1, LogGrows DEF NumbersKnown
    <3>2. Overtaken(c)'
      BY <1>0, <1>1, <2>1, <3>1, LogGrows
    <3> QED
      BY <3>2 DEF Kept
  <2>2. CASE c \in log /\ c.sequence <= cursor[s]
    <3>1. Kept(c)
      BY <1>0, <1>1, <2>2 DEF NothingSkipped, Kept, Owed
    <3> QED
      BY <2>2, <3>1, StoreGrows
  <2>3. CASE c \in log /\ ~(c.sequence <= cursor[s])
    <3>1. cursor' # cursor
      BY <1>1, <2>3
    <3>2. PICK p \in Pullers : Apply(p)
      BY <3>1, Writers
         DEF Create, Edit, Mutate, KeepServer
    <3>3. /\ cursor' = [cursor EXCEPT ![scope[p]] = page[p].latest]
          /\ Owed(scope[p], c) /\ c.sequence <= page[p].latest => Kept(c)'
      BY <1>1, <2>3, <3>2, ApplyKeeps DEF Owed
    <3>4. s = scope[p] /\ cursor'[s] = page[p].latest
      BY <1>0, <1>1, <2>3, <3>3 DEF TypeOK
    <3> QED
      BY <1>1, <3>3, <3>4
  <2> QED
    BY <2>1, <2>2, <2>3
<1>2. ASSUME NEW s \in Scopes, NEW c \in log', Covers(s, c.entity), ProjectOf[c.entity] \in Home,
             c.sequence <= cursor'[s]
      PROVE  (Held(c) \/ Overtaken(c) \/ Outrun(c) \/ Undone(c))'
  BY <1>1, <1>2 DEF Owed, Kept
<1> QED
  BY <1>2 DEF NothingSkipped, Covers

LEMMA WholeNext ==
  ASSUME Replicated, [Next]_vars
  PROVE  RecordsAreWhole'
<1> USE DEF server, client, queue, loop
<1>0. /\ Typed /\ LogSound /\ OpenSound /\ RecordsAreWhole /\ StoreMatchesLog /\ DeletedExist
      /\ TypeOK /\ log \subseteq Changes /\ Grown
  BY EditsGrow DEF Replicated, Typed, TypeOK
<1> SUFFICES ASSUME NEW c \in log', ProjectOf[c.entity] \in Home,
                    c.version <= store'[c.entity].version
             PROVE  Kept(c)'
  BY DEF RecordsAreWhole, Kept
<1>1. CASE c \notin log
  BY <1>1, NewKept
<1>2. CASE c \in log /\ c.version <= store[c.entity].version
  <2>1. Kept(c)
    BY <1>0, <1>2 DEF RecordsAreWhole, Kept
  <2> QED
    BY <1>2, <2>1, StoreGrows
<1>3. CASE c \in log /\ ~(c.version <= store[c.entity].version)
  <2> DEFINE e == c.entity
  <2>1. /\ store'[e] # store[e] /\ e \in Entities /\ c.version \in Nat
        /\ store[e] \in Records /\ store[e].version \in Nat
    BY <1>0, <1>3 DEF TypeOK, Changes, Records
  <2>2. ASSUME NEW p \in Pullers, Apply(p) PROVE Kept(c)'
    BY <1>3, <2>2, ApplyKeeps
  <2>3. ASSUME NEW i \in DOMAIN edits, KeepServer(i) PROVE Kept(c)'
    <3>1. /\ e = edits[i].entity /\ store'[e].version = edits[i].version
          /\ store'[e].merged = Snapshot(i)
      BY <1>0, <2>1, <2>3, KeepServerStore
    <3>2. c.payload \in Snapshot(i)
      BY <1>3, <3>1 DEF Snapshot
    <3> QED
      BY <3>1, <3>2 DEF Held, Kept
  <2>4. ASSUME NEW f \in Edited, Create(f) \/ \E tombstone \in BOOLEAN : Edit(f, tombstone)
        PROVE  Kept(c)'
    <3>0. PICK n \in Nat : n = Len(edits) + 1
      BY <1>0 DEF Grown
    <3>1. PICK dead \in BOOLEAN : /\ f \in Entities /\ store[f].version \in Nat
                                  /\ Mutate(f, store[f].version, dead)
      BY <1>0, <2>4, Mutations
    <3> DEFINE x == [entity |-> f, base |-> store[f].version, tombstone |-> dead,
                     payload |-> n, status |-> "queued", version |-> 0]
               r == [version |-> store[f].version + 1, deleted |-> dead,
                     merged |-> store[f].merged \cup {n}]
    <3>2. Len(edits') = n /\ edits'[n] = x /\ store' = [store EXCEPT ![f] = r]
      BY <1>0, <3>0, <3>1, MutateEdits
    <3>3. r.version = store[f].version + 1 /\ n \in r.merged
      OBVIOUS
    <3>4. e = f /\ store'[e].version = store[f].version + 1 /\ n \in store'[e].merged
      <4>1. e = f
        BY <1>0, <2>1, <3>1, <3>2 DEF TypeOK
      <4>2. store'[e] = r
        BY <1>0, <2>1, <3>1, <3>2, <4>1 DEF TypeOK
      <4> QED
        BY <3>3, <4>1, <4>2
    <3>5. c.version = store[f].version + 1
      BY <1>3, <2>1, <3>1, <3>4
    <3>6. n \in DOMAIN edits'
      BY <1>0, <3>0, <3>2 DEF Grown
    <3>7. MadeHere(n, e)' /\ edits'[n].base + 1 = c.version /\ edits'[n].payload = n
      BY <3>2, <3>4, <3>5 DEF MadeHere
    <3> HIDE DEF x, r
    <3> QED
      BY <3>4, <3>6, <3>7 DEF Outrun, Held, Kept
  <2> QED
    BY <2>1, <2>2, <2>3, <2>4, Writers
<1> QED
  BY <1>1, <1>2, <1>3

LEMMA StoreNext ==
  ASSUME Replicated, [Next]_vars
  PROVE  StoreMatchesLog' /\ DeletedExist'
<1> USE DEF server, client, queue, loop
<1>0. /\ Typed /\ LogSound /\ OpenSound /\ PagesSound /\ StoreMatchesLog /\ DeletedExist
      /\ EditsSound /\ TypeOK /\ log \subseteq Changes /\ Grown
      /\ log \subseteq log' /\ joined \subseteq joined'
  BY EditsGrow, LogGrows, MembersNext DEF Replicated, Typed, TypeOK
<1> DEFINE Told(e) == \E d \in log : /\ d.entity = e /\ d.version = store'[e].version
                                     /\ d.tombstone = store'[e].deleted
           Made(e) == \E i \in DOMAIN edits' : /\ MadeHere(i, e)'
                                               /\ edits'[i].base + 1 = store'[e].version
                                               /\ edits'[i].tombstone = store'[e].deleted
<1>1. ASSUME NEW e \in Entities, store'[e] = store[e], store[e].version > 0
      PROVE  ProjectOf[e] \in joined /\ (Told(e) \/ Made(e))
  <2>1. ProjectOf[e] \in joined
    BY <1>0, <1>1 DEF StoreMatchesLog
  <2>2. CASE \E d \in log : /\ d.entity = e /\ d.version = store[e].version
                            /\ d.tombstone = store[e].deleted
    BY <1>1, <2>1, <2>2
  <2>3. CASE \E i \in DOMAIN edits : /\ MadeHere(i, e) /\ edits[i].base + 1 = store[e].version
                                     /\ edits[i].tombstone = store[e].deleted
    <3>1. PICK i \in DOMAIN edits : /\ MadeHere(i, e) /\ edits[i].base + 1 = store[e].version
                                    /\ edits[i].tombstone = store[e].deleted
      BY <2>3
    <3>2. i \in DOMAIN edits' /\ Same(edits[i], edits'[i])
      BY <1>0 DEF Grown
    <3> QED
      BY <1>1, <2>1, <3>1, <3>2 DEF Same, MadeHere
  <2> QED
    BY <1>0, <1>1, <2>2, <2>3 DEF StoreMatchesLog
<1>2. ASSUME NEW e \in Entities, store'[e] # store[e]
      PROVE  ProjectOf[e] \in joined /\ store'[e].version > 0 /\ (Told(e) \/ Made(e))
  <2>1. ASSUME NEW p \in Pullers, Apply(p)
        PROVE  ProjectOf[e] \in joined /\ store'[e].version > 0 /\ Told(e)
    <3>1. PICK d \in Fresh(p, e) : store'[e].version = d.version /\ store'[e].deleted = d.tombstone
      BY <1>0, <1>2, <2>1, ApplyRecord
    <3>2. d \in page[p].changes /\ d \in log /\ d.entity = e /\ d.version > store[e].version
      BY <1>0, FreshIsNewer DEF Typed
    <3>3. store[e].version \in Nat /\ d.version \in Nat
      BY <1>0, <3>2 DEF TypeOK, Records, Changes
    <3>4. ProjectOf[e] \in joined
      BY <1>0, <3>2 DEF PagesSound, PageSound
    <3> QED
      BY <3>1, <3>2, <3>3, <3>4
  <2>2. ASSUME NEW i \in DOMAIN edits, KeepServer(i)
        PROVE  ProjectOf[e] \in joined /\ store'[e].version > 0 /\ Told(e)
    <3>1. /\ e = edits[i].entity /\ store'[e].version = edits[i].version /\ ~store'[e].deleted
          /\ store' \in [Entities -> Records] /\ edits[i].status = "pending"
      BY <1>0, <1>2, <2>2, KeepServerStore DEF KeepServer
    <3>2. PICK d \in log : d.entity = e /\ d.version = store'[e].version /\ ~d.tombstone
      BY <1>0, <3>1 DEF EditsSound, EditSound
    <3>3. d.tombstone \in BOOLEAN /\ d.version \in Nat /\ store'[e].deleted \in BOOLEAN
      BY <1>0, <3>1, <3>2 DEF Changes, Records
    <3>4. d.tombstone = store'[e].deleted
      BY <3>1, <3>2, <3>3
    <3>5. d.version > 0
      BY <1>0, <3>2 DEF LogSound
    <3>6. ProjectOf[e] \in joined
      BY <1>0, <3>1 DEF EditsSound, EditSound
    <3> QED
      BY <3>2, <3>4, <3>5, <3>6
  <2>3. ASSUME NEW f \in Edited, Create(f) \/ \E tombstone \in BOOLEAN : Edit(f, tombstone)
        PROVE  ProjectOf[e] \in joined /\ store'[e].version > 0 /\ Made(e)
    <3>0. PICK n \in Nat : n = Len(edits) + 1
      BY <1>0 DEF Grown
    <3>1. PICK dead \in BOOLEAN : /\ f \in Entities /\ store[f].version \in Nat
                                  /\ ProjectOf[f] \in joined
                                  /\ Mutate(f, store[f].version, dead)
      BY <1>0, <2>3, Mutations
    <3> DEFINE x == [entity |-> f, base |-> store[f].version, tombstone |-> dead,
                     payload |-> n, status |-> "queued", version |-> 0]
               r == [version |-> store[f].version + 1, deleted |-> dead,
                     merged |-> store[f].merged \cup {n}]
    <3>2. Len(edits') = n /\ edits'[n] = x /\ store' = [store EXCEPT ![f] = r]
      BY <1>0, <3>0, <3>1, MutateEdits
    <3>3. r.version = store[f].version + 1 /\ r.deleted = dead
      OBVIOUS
    <3>4. /\ e = f /\ store'[e].version = store[f].version + 1
          /\ store'[e].deleted = dead
      <4>1. e = f
        BY <1>0, <1>2, <3>1, <3>2 DEF TypeOK
      <4>2. store'[e] = r
        BY <1>0, <3>1, <3>2, <4>1 DEF TypeOK
      <4> QED
        BY <3>3, <4>1, <4>2
    <3>5. n \in DOMAIN edits'
      BY <1>0, <3>0, <3>2 DEF Grown
    <3>6. /\ MadeHere(n, e)' /\ edits'[n].base = store[f].version
          /\ edits'[n].tombstone = dead
      BY <3>2, <3>4 DEF MadeHere
    <3>7. store'[e].version > 0 /\ edits'[n].base + 1 = store'[e].version
      BY <3>1, <3>4, <3>6
    <3> HIDE DEF x, r
    <3> QED
      BY <3>1, <3>4, <3>5, <3>6, <3>7
  <2> QED
    BY <1>2, <2>1, <2>2, <2>3, Writers
<1>3. StoreMatchesLog'
  <2> SUFFICES ASSUME NEW e \in Entities, store'[e].version > 0
               PROVE  /\ ProjectOf[e] \in joined'
                      /\ \/ \E d \in log' : /\ d.entity = e /\ d.version = store'[e].version
                                            /\ d.tombstone = store'[e].deleted
                         \/ Made(e)
    BY DEF StoreMatchesLog
  <2>1. ProjectOf[e] \in joined /\ (Told(e) \/ Made(e))
    <3>1. CASE store'[e] = store[e]
      BY <1>1, <3>1
    <3>2. CASE store'[e] # store[e]
      BY <1>2, <3>2
    <3> QED
      BY <3>1, <3>2
  <2> HIDE DEF Made
  <2> QED
    BY <1>0, <2>1
<1>4. DeletedExist'
  BY <1>0, <1>2 DEF DeletedExist
<1> QED
  BY <1>3, <1>4

-----------------------------------------------------------------------------
(* The theorems.                                                           *)

LEMMA ReplicatedInit == Init => Replicated
<1> SUFFICES ASSUME Init PROVE Replicated
  OBVIOUS
<1>1. Typed
  BY TypedInit
<1>2. \A e \in Entities : VersionOf(e) = 0
  BY FS_EmptySet DEF Init, VersionOf
<1>3. LogSound /\ OpenSound /\ NumbersKnown
  BY <1>2, FS_EmptySet DEF Init, LogSound, OpenSound, NumbersKnown, Known, NoPage
<1>4. RequestsSound /\ MembersSound /\ PagesSound
  BY DEF Init, RequestsSound, MembersSound, PagesSound, PageSound, NoPage
<1>5. NothingSkipped /\ RecordsAreWhole /\ StoreMatchesLog /\ DeletedExist
  BY DEF Init, NothingSkipped, RecordsAreWhole, StoreMatchesLog, DeletedExist, NoRecord
<1>6. EditsSound /\ AheadByEdits
  <2>1. DOMAIN edits = {} /\ open = {}
    BY DEF Init
  <2>2. \A e \in Entities : store[e].version = 0
    BY DEF Init, NoRecord
  <2> QED
    BY <1>2, <2>1, <2>2 DEF EditsSound, AheadByEdits
<1> QED
  BY <1>1, <1>3, <1>4, <1>5, <1>6 DEF Replicated

LEMMA ReplicatedNext == Replicated /\ [Next]_vars => Replicated'
<1> SUFFICES ASSUME Replicated, [Next]_vars PROVE Replicated'
  OBVIOUS
<1>1. Typed' /\ LogSound' /\ OpenSound'
  BY TypedNext, LogStep DEF Replicated
<1> QED
  BY <1>1, NumbersNext, RequestsNext, MembersNext, PagesNext, StoreNext, SkippedNext, WholeNext,
     EditsNext, AheadNext DEF Replicated

THEOREM AlwaysReplicated == Spec => []Replicated
<1> QED
  BY ReplicatedInit, ReplicatedNext, PTL DEF Spec

(* However pulls overlap, fail or repeat, and whatever is edited and resolved *)
(* meanwhile: a cursor passes a change of a project of the user that is not *)
(* in the store only when it was overtaken in the log, when an edit made    *)
(* here had its version, or when a KEEP_SERVER took its payload out.        *)
THEOREM CursorsSkipNothing == Spec => []NothingSkipped
<1>1. Replicated => NothingSkipped
  BY DEF Replicated
<1> QED
  BY <1>1, AlwaysReplicated, PTL

(* A record lacks the payload of a change up to its version only in those    *)
(* three cases: every other merge, edit and resolution leaves it whole.     *)
THEOREM RecordsStayWhole == Spec => []RecordsAreWhole
<1>1. Replicated => RecordsAreWhole
  BY DEF Replicated
<1> QED
  BY <1>1, AlwaysReplicated, PTL

(* A record is of a project of the user, and is a committed state of its     *)
(* entity or what an edit made here on the version before says.             *)
THEOREM RecordsMatchLog == Spec => []StoreMatchesLog
<1>1. Replicated => StoreMatchesLog
  BY DEF Replicated
<1> QED
  BY <1>1, AlwaysReplicated, PTL

(* No answer, however late, takes a record back: only the user does who      *)
(* answers its conflict, and nobody revives one that the log has deleted.   *)
THEOREM NoStepBack == Spec => RecordsOnlyAdvance
<1>1. Replicated /\ [Next]_vars => [NeverBackwards]_vars
  <2> SUFFICES ASSUME Replicated, [Next]_vars PROVE NeverBackwards
    OBVIOUS
  <2> QED
    BY RecordsStep DEF NeverBackwards
<1> QED
  BY <1>1, AlwaysReplicated, PTL DEF Spec, RecordsOnlyAdvance
=============================================================================
