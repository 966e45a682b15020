------------------------------ MODULE PullFeed ------------------------------
(***************************************************************************)
(* The pull half of FieldCore: the change_log as the transactions of the   *)
(* push handler extend it, the pull handler that pages through it          *)
(* (packages/server/src/pull-handler.ts), and the IndexedDB records of one *)
(* device with everything that writes them: the pull service that applies  *)
(* the pages (packages/sync/src/services/pull-sync.ts), the repositories   *)
(* that put an edit before it is pushed (repository/base.ts), and the      *)
(* resolution of a conflict (services/conflict-resolution.ts).             *)
(*                                                                         *)
(* A puller is one pullAll loop.  Loops may overlap: another tab, or the   *)
(* next one while an answer is still under way.  Their steps are the       *)
(* awaits: reading the local cursor, the three queries of the handler, and *)
(* the Dexie transaction that applies a page with its cursor.  The log is  *)
(* what PushServer commits: sequence numbers are taken when a transaction  *)
(* writes, entries appear when it commits, and the row lock admits one     *)
(* open transaction for an entity.  Of the queue of edits only what shows  *)
(* in the records is here; DeviceSync has its batches and statuses.        *)
(***************************************************************************)
EXTENDS Naturals, Sequences, FiniteSets, FiniteSetsExt

CONSTANTS
  Entities,
  Projects,
  ProjectOf,     \* change_log.project_id of the changes of an entity
  Home,          \* projects of the device's user before the model starts
  Pullers,       \* pullAll loops that can be active at the same time
  Default,       \* the scope of all projects
  Scopes,        \* cursor scopes in use: Default, or a project
  Watched,       \* whether the device may be revoked or run out of its window
  Limit,         \* changes of a page (100 in pull-sync.ts)
  MaxSequence,   \* bound on the changes of a behaviour
  Edited,        \* bound: the entities its user creates, edits and deletes
  MaxEdits,      \* bound on the operations the device queues
  MaxPulls       \* bound on the pullAll calls of a behaviour

ASSUME FeedAssumption ==
  /\ ProjectOf \in [Entities -> Projects]
  /\ Home \subseteq Projects
  /\ Default \notin Projects
  /\ Scopes \subseteq Projects \cup {Default}
  /\ Watched \in BOOLEAN
  /\ Edited \subseteq Entities
  /\ Limit \in Nat \ {0}
  /\ MaxSequence \in Nat /\ MaxEdits \in Nat /\ MaxPulls \in Nat

VARIABLES
  log,      \* committed change_log: [sequence, entity, version, tombstone, payload,
            \* at], at: how many entries had been committed before
  open,     \* changes written by transactions that have not committed: [sequence,
            \* entity, tombstone, op], op: the device's operation, 0 for a peer's
  nextSeq,  \* next value of the change_log sequence
  joined,   \* projects the user is a member of
  window,   \* devices row: "active", "expired" or "revoked"
  store,    \* local records: [version, deleted, merged], merged: the payloads
            \* spread into the record; version 0: no record
  edits,    \* the device's operations: [entity, base, tombstone, payload, status,
            \* version], version: that of its conflict; base 0: a CREATE
  undone,   \* payloads that KEEP_SERVER took out of a record (history)
  cursor,   \* pull_cursors, by scope
  pc,       \* where each loop is
  scope,    \* the scope it pulls
  after,    \* afterSequence of its request
  granted,  \* the memberships the handler read for it
  page,     \* the answer: [changes, latest, more]
  pulls     \* pullAll calls made

server == <<log, open, nextSeq, joined, window>>
client == <<store, cursor>>
queue == <<edits, undone>>
loop == <<pc, scope, after, granted, page>>
vars == <<server, client, queue, loop, pulls>>

NoPage == [changes |-> {}, latest |-> 0, more |-> FALSE]
NoRecord == [version |-> 0, deleted |-> FALSE, merged |-> {}]

Init ==
  /\ log = {} /\ open = {} /\ nextSeq = 1
  /\ joined = Home
  /\ window = "active"
  /\ store = [e \in Entities |-> NoRecord]
  /\ edits = <<>> /\ undone = {}
  /\ cursor = [s \in Scopes |-> 0]
  /\ pc = [p \in Pullers |-> "idle"]
  /\ scope = [p \in Pullers |-> Default]
  /\ after = [p \in Pullers |-> 0]
  /\ granted = [p \in Pullers |-> {}]
  /\ page = [p \in Pullers |-> NoPage]
  /\ pulls = 0

-----------------------------------------------------------------------------
(* The log, as the push handler extends it.                                 *)

VersionOf(e) == Cardinality({c \in log : c.entity = e})

Alive(e) == \A c \in log : c.entity = e => ~c.tombstone

(* A transaction for operation op of the device (0: for a peer's) has its    *)
(* sequence number; the lock on the row of e is its.                        *)
Insert(e, tombstone, op) ==
  /\ nextSeq <= MaxSequence
  /\ \A t \in open : t.entity # e
  /\ Alive(e)
  /\ open' = open \cup
       {[sequence |-> nextSeq, entity |-> e, tombstone |-> tombstone, op |-> op]}
  /\ nextSeq' = nextSeq + 1
  /\ UNCHANGED <<log, joined, window, client, queue, loop, pulls>>

(* An operation of a peer.  Ids are fresh: what the device creates no peer   *)
(* creates.                                                                 *)
Write(e, tombstone) ==
  /\ VersionOf(e) = 0 => ~tombstone /\ \A i \in DOMAIN edits : edits[i].entity # e
  /\ Insert(e, tombstone, 0)

(* An operation of the device that fits the row.                            *)
Push(i) ==
  /\ edits[i].status = "queued"
  /\ edits[i].base = VersionOf(edits[i].entity)
  /\ Insert(edits[i].entity, edits[i].tombstone, i)

(* One that does not fit is answered CONFLICT.  What the server refuses, or  *)
(* turns down for a tombstone, changes no record and stays "queued" here.   *)
TurnDown(i) ==
  LET e == edits[i].entity
  IN /\ edits[i].status = "queued"
     /\ edits[i].base # VersionOf(e) /\ VersionOf(e) > 0 /\ Alive(e)
     /\ \A t \in open : t.entity # e
     /\ edits' = [edits EXCEPT ![i].status = "conflict", ![i].version = VersionOf(e)]
     /\ UNCHANGED <<undone, server, client, loop, pulls>>

(* The payload of a change: that of the operation, or a peer's own.         *)
PayloadOf(t) == IF t.op = 0 THEN MaxEdits + t.sequence ELSE edits[t.op].payload

CommitChange(t) ==
  /\ open' = open \ {t}
  /\ log' = log \cup {[sequence |-> t.sequence, entity |-> t.entity,
                       version |-> VersionOf(t.entity) + 1, tombstone |-> t.tombstone,
                       payload |-> PayloadOf(t), at |-> Cardinality(log)]}
  /\ edits' = [i \in DOMAIN edits |->
                 IF i = t.op THEN [edits[i] EXCEPT !.status = "applied"] ELSE edits[i]]
  /\ UNCHANGED <<nextSeq, joined, window, client, undone, loop, pulls>>

RollBack(t) ==
  /\ open' = open \ {t}
  /\ UNCHANGED <<log, nextSeq, joined, window, client, queue, loop, pulls>>

(* The user becomes a member of a project; nothing removes a membership.    *)
Join(x) ==
  /\ joined' = joined \cup {x}
  /\ UNCHANGED <<log, open, nextSeq, window, client, queue, loop, pulls>>

(* Time passes, an administrator acts, or the device revalidates by a push. *)
DeviceChanges ==
  /\ Watched
  /\ window' \in {"active", "expired", "revoked"} \ {window}
  /\ window # "revoked"
  /\ UNCHANGED <<log, open, nextSeq, joined, client, queue, loop, pulls>>

-----------------------------------------------------------------------------
(* pullAll and pullBatch of the device, up to the request.                  *)

Start(p, s) ==
  /\ pc[p] = "idle"
  /\ pulls < MaxPulls
  /\ pulls' = pulls + 1
  /\ scope' = [scope EXCEPT ![p] = s]
  /\ pc' = [pc EXCEPT ![p] = "read"]
  /\ UNCHANGED <<server, client, queue, after, granted, page>>

ReadCursor(p) ==
  /\ pc[p] = "read"
  /\ after' = [after EXCEPT ![p] = cursor[scope[p]]]
  /\ pc' = [pc EXCEPT ![p] = "gate"]
  /\ UNCHANGED <<server, client, queue, scope, granted, page, pulls>>

(* The loop ends, whatever it was waiting for.                              *)
Quit(p) ==
  /\ pc' = [pc EXCEPT ![p] = "idle"]
  /\ scope' = [scope EXCEPT ![p] = Default]
  /\ after' = [after EXCEPT ![p] = 0]
  /\ granted' = [granted EXCEPT ![p] = {}]
  /\ page' = [page EXCEPT ![p] = NoPage]

-----------------------------------------------------------------------------
(* processPullRequest.                                                      *)

(* A revoked device gets 403 and a device out of its window cursorExpired:  *)
(* the client stops and changes nothing.                                    *)
Gate(p) ==
  /\ pc[p] = "gate"
  /\ IF window = "active"
     THEN pc' = [pc EXCEPT ![p] = "members"] /\ UNCHANGED <<scope, after, granted, page>>
     ELSE Quit(p)
  /\ UNCHANGED <<server, client, queue, pulls>>

(* Without a membership in scope the answer is empty and nothing else is     *)
(* written.                                                                 *)
InScope(s) == joined # {} /\ (s # Default => s \in joined)

ReadMemberships(p) ==
  /\ pc[p] = "members"
  /\ granted' = [granted EXCEPT ![p] = joined]
  /\ IF InScope(scope[p])
     THEN pc' = [pc EXCEPT ![p] = "query"] /\ UNCHANGED page
     ELSE /\ page' = [page EXCEPT ![p] =
                        [changes |-> {}, latest |-> after[p], more |-> FALSE]]
          /\ pc' = [pc EXCEPT ![p] = "apply"]
  /\ UNCHANGED <<server, client, queue, scope, after, pulls>>

(* Mutant of Visible: every committed change is served.                     *)
Visible_NoScope_Mutant(p) == {c \in log : c.sequence > after[p]}

(* The WHERE clause.                                                        *)
Visible(p) ==
  {c \in log : /\ c.sequence > after[p]
               /\ IF scope[p] = Default THEN ProjectOf[c.entity] \in granted[p]
                                        ELSE ProjectOf[c.entity] = scope[p]}

(* Mutant of FirstPage: ORDER BY sequence DESC.                             *)
FirstPage_Descending_Mutant(S) ==
  {c \in S : Cardinality({b \in S : b.sequence >= c.sequence}) <= Limit}

(* ORDER BY sequence LIMIT.                                                 *)
FirstPage(S) == {c \in S : Cardinality({b \in S : b.sequence <= c.sequence}) <= Limit}

(* Mutant of Latest: an empty page answers 0, not the cursor of the request. *)
Latest_Zero_Mutant(p, S) == IF S = {} THEN 0 ELSE Max({c.sequence : c \in S})

Latest(p, S) == IF S = {} THEN after[p] ELSE Max({c.sequence : c \in S})

(* Mutant of Query: one full page and the loop would never end.             *)
Query_AlwaysMore_Mutant(p) ==
  /\ pc[p] = "query"
  /\ LET S == FirstPage(Visible(p))
     IN page' = [page EXCEPT ![p] = [changes |-> S, latest |-> Latest(p, S), more |-> TRUE]]
  /\ pc' = [pc EXCEPT ![p] = "record"]
  /\ UNCHANGED <<server, client, queue, scope, after, granted, pulls>>

Query(p) ==
  /\ pc[p] = "query"
  /\ LET S == FirstPage(Visible(p))
     IN page' = [page EXCEPT ![p] = [changes |-> S, latest |-> Latest(p, S),
                                     more |-> Cardinality(S) = Limit]]
  /\ pc' = [pc EXCEPT ![p] = "record"]
  /\ UNCHANGED <<server, client, queue, scope, after, granted, pulls>>

(* The devices row: the window is renewed only by a page that is not empty,  *)
(* and a failure is caught.  The sync_cursors row written before it is left  *)
(* out: "observability aid, not correctness requirement", read by nothing.  *)
Record(p) ==
  /\ pc[p] = "record"
  /\ window' \in {window} \cup
       (IF window = "expired" /\ page[p].changes # {} THEN {"active"} ELSE {})
  /\ pc' = [pc EXCEPT ![p] = "apply"]
  /\ UNCHANGED <<log, open, nextSeq, joined, client, queue, scope, after, granted, page, pulls>>

-----------------------------------------------------------------------------
(* The Dexie transaction of pullBatch: the changes in the order of the page, *)
(* each skipped when the record is not behind it, and the cursor.            *)

(* Mutant of Fresh: without the version check.                              *)
Fresh_Unchecked_Mutant(p, e) == {c \in page[p].changes : c.entity = e}

Fresh(p, e) ==
  LET mine == {c \in page[p].changes : c.entity = e}
  IN {c \in mine : /\ c.version > store[e].version
                   /\ \A b \in mine : b.sequence < c.sequence => b.version < c.version}

Merge(record, changes) ==
  IF changes = {} THEN record
  ELSE LET newest == Max({c.version : c \in changes})
       IN [version |-> newest,
           deleted |-> \E c \in changes : c.version = newest /\ c.tombstone,
           merged |-> record.merged \cup {c.payload : c \in changes}]

(* Mutant of Apply: the cursor is written before the changes and survives   *)
(* when the transaction of the changes fails.                               *)
Apply_CursorFirst_Mutant(p) ==
  /\ pc[p] = "apply"
  /\ store' \in {store, [e \in Entities |-> Merge(store[e], Fresh(p, e))]}
  /\ cursor' = [cursor EXCEPT ![scope[p]] = page[p].latest]
  /\ IF page[p].more
     THEN /\ pc' = [pc EXCEPT ![p] = "read"]
          /\ page' = [page EXCEPT ![p] = NoPage]
          /\ granted' = [granted EXCEPT ![p] = {}]
          /\ UNCHANGED <<scope, after>>
     ELSE Quit(p)
  /\ UNCHANGED <<server, queue, pulls>>

Apply(p) ==
  /\ pc[p] = "apply"
  /\ store' = [e \in Entities |-> Merge(store[e], Fresh(p, e))]
  /\ cursor' = [cursor EXCEPT ![scope[p]] = page[p].latest]
  /\ IF page[p].more
     THEN /\ pc' = [pc EXCEPT ![p] = "read"]
          /\ page' = [page EXCEPT ![p] = NoPage]
          /\ granted' = [granted EXCEPT ![p] = {}]
          /\ UNCHANGED <<scope, after>>
     ELSE Quit(p)
  /\ UNCHANGED <<server, queue, pulls>>

(* The answer is lost, the transaction aborts, or the tab is closed.        *)
Stop(p) ==
  /\ pc[p] # "idle"
  /\ Quit(p)
  /\ UNCHANGED <<server, client, queue, pulls>>

-----------------------------------------------------------------------------
(* The other writers of the records.                                        *)

Locked(e) == \E i \in DOMAIN edits : edits[i].entity = e /\ edits[i].status = "pending"

(* executeAtomicMutation: the row is put and the operation queued in one     *)
(* transaction, before anything is sent.                                    *)
Mutate(e, base, tombstone) ==
  /\ Len(edits) < MaxEdits
  /\ LET payload == Len(edits) + 1
     IN /\ store' = [store EXCEPT ![e] =
                       [version |-> base + 1, deleted |-> tombstone,
                        merged |-> store[e].merged \cup {payload}]]
        /\ edits' = Append(edits, [entity |-> e, base |-> base, tombstone |-> tombstone,
                                   payload |-> payload, status |-> "queued", version |-> 0])
  /\ UNCHANGED <<server, cursor, undone, loop, pulls>>

(* create of a repository: a new id, under a project the device has.        *)
Create(e) ==
  /\ store[e].version = 0
  /\ ProjectOf[e] \in joined
  /\ VersionOf(e) = 0 /\ \A t \in open : t.entity # e
  /\ Mutate(e, 0, FALSE)

(* update and delete.                                                       *)
Edit(e, tombstone) ==
  /\ store[e].version > 0 /\ ~store[e].deleted
  /\ ~Locked(e)
  /\ Mutate(e, store[e].version, tombstone)

(* The answer arrives: the conflict is recorded and locks the record.       *)
Learn(i) ==
  /\ edits[i].status = "conflict"
  /\ edits' = [edits EXCEPT ![i].status = "pending"]
  /\ UNCHANGED <<undone, server, client, loop, pulls>>

(* serverState: the row as the server had it at the version of the conflict.*)
Snapshot(i) ==
  {c.payload : c \in {d \in log : d.entity = edits[i].entity /\ d.version <= edits[i].version}}

(* KEEP_SERVER, chosen or, for a record that is deleted, enforced: the live  *)
(* row is overwritten with serverState and its version.                     *)
KeepServer(i) ==
  LET e == edits[i].entity
  IN /\ edits[i].status = "pending"
     /\ edits' = [edits EXCEPT ![i].status = "resolved"]
     /\ IF store[e].deleted THEN UNCHANGED <<store, undone>>
        ELSE /\ store' = [store EXCEPT ![e] = [version |-> edits[i].version, deleted |-> FALSE,
                                               merged |-> Snapshot(i)]]
             /\ undone' = undone \cup (store[e].merged \ Snapshot(i))
     /\ UNCHANGED <<server, cursor, loop, pulls>>

(* KEEP_MINE: the edit is queued again on the newest version known; the      *)
(* record stays as it is.                                                   *)
KeepMine(i) ==
  LET e == edits[i].entity
  IN /\ edits[i].status = "pending"
     /\ ~store[e].deleted
     /\ Len(edits) < MaxEdits
     /\ edits' = Append([edits EXCEPT ![i].status = "resolved"],
                        [edits[i] EXCEPT !.base = Max({store[e].version, edits[i].version}),
                                         !.status = "queued", !.version = 0])
     /\ UNCHANGED <<undone, server, client, loop, pulls>>

Pull(p) ==
  \/ ReadCursor(p) \/ Gate(p) \/ ReadMemberships(p) \/ Query(p) \/ Record(p) \/ Apply(p)

Next ==
  \/ \E e \in Entities, tombstone \in BOOLEAN : Write(e, tombstone)
  \/ \E t \in open : CommitChange(t) \/ RollBack(t)
  \/ \E e \in Edited : Create(e) \/ \E tombstone \in BOOLEAN : Edit(e, tombstone)
  \/ \E i \in DOMAIN edits :
       Push(i) \/ TurnDown(i) \/ Learn(i) \/ KeepServer(i) \/ KeepMine(i)
  \/ \E x \in Projects \ joined : Join(x)
  \/ DeviceChanges
  \/ \E p \in Pullers : Pull(p) \/ Stop(p) \/ \E s \in Scopes : Start(p, s)

Spec == Init /\ [][Next]_vars

(* Every await of a loop comes back.                                        *)
FairSpec == Spec /\ \A p \in Pullers : WF_vars(Pull(p))

-----------------------------------------------------------------------------
(* Properties.                                                             *)

Changes == [sequence : Nat, entity : Entities, version : Nat, tombstone : BOOLEAN,
            payload : Nat, at : Nat]
Writes == [sequence : Nat, entity : Entities, tombstone : BOOLEAN, op : Nat]
Records == [version : Nat, deleted : BOOLEAN, merged : SUBSET Nat]
Operations == [entity : Entities, base : Nat, tombstone : BOOLEAN, payload : Nat,
               status : {"queued", "applied", "conflict", "pending", "resolved"},
               version : Nat]

(* Types, with what a loop knows at each of its awaits.                     *)
TypeOK ==
  /\ log \subseteq Changes
  /\ open \subseteq Writes
  /\ \A t \in open : t.op \in 0 .. Len(edits)
  /\ nextSeq \in Nat \ {0} /\ pulls \in Nat
  /\ joined \subseteq Projects
  /\ window \in {"active", "expired", "revoked"}
  /\ store \in [Entities -> Records]
  /\ cursor \in [Scopes -> Nat]
  /\ edits \in Seq(Operations) /\ undone \subseteq Nat
  /\ pc \in [Pullers -> {"idle", "read", "gate", "members", "query", "record", "apply"}]
  /\ scope \in [Pullers -> Scopes \cup {Default}]
  /\ after \in [Pullers -> Nat]
  /\ granted \in [Pullers -> SUBSET Projects]
  /\ page \in [Pullers -> [changes : SUBSET Changes, latest : Nat, more : BOOLEAN]]
  /\ \A p \in Pullers :
       /\ pc[p] # "idle" => scope[p] \in Scopes
       /\ pc[p] \in {"record", "apply"} => page[p].latest >= after[p]

Held(c) == c.payload \in store[c.entity].merged

(* The sequence number of a change was passed by a change that committed     *)
(* before it: BIGSERIAL values are taken at the INSERT, not at the COMMIT.  *)
Overtaken(c) == \E b \in log : b.at < c.at /\ b.sequence > c.sequence

(* Operation i was made by an edit of e, and is not the copy of one that     *)
(* KEEP_MINE queued.                                                        *)
MadeHere(i, e) == edits[i].entity = e /\ edits[i].payload = i

(* An edit made here gave the record the version that the change has on the  *)
(* server.                                                                  *)
Outrun(c) ==
  \E i \in DOMAIN edits :
    MadeHere(i, c.entity) /\ edits[i].base + 1 = c.version /\ edits[i].payload # c.payload

(* The record had the payload until a KEEP_SERVER with an older serverState. *)
Undone(c) == c.payload \in undone

Covers(s, e) == IF s = Default THEN ProjectOf[e] \in Home ELSE ProjectOf[e] = s

(* However pulls overlap, fail or are repeated, wherever they stop, and      *)
(* whatever is edited and resolved meanwhile: the cursor passes a change of *)
(* a project of the user only when its payload is in the local record, but  *)
(* for three cases.  It was overtaken in the log; an edit made here had its *)
(* version, so that the pull skips it ("local-version-ahead",               *)
(* pull-sync.ts 136-142) and it never comes again, not even when the edit   *)
(* is lost or queued anew by KEEP_MINE; or a KEEP_SERVER took the record    *)
(* back behind the cursor (conflict-resolution.ts 211-220).                 *)
NothingSkipped ==
  \A s \in Scopes : \A c \in log :
    Covers(s, c.entity) /\ ProjectOf[c.entity] \in Home /\ c.sequence <= cursor[s] =>
      Held(c) \/ Overtaken(c) \/ Outrun(c) \/ Undone(c)

(* The same without the exceptions, of a device that edits nothing:          *)
(* "Sequence provides the monotonic cursor for all pull synchronizations"   *)
(* (packages/database/src/schema/sync.ts:21).                               *)
CursorIsComplete ==
  \A s \in Scopes : \A c \in log :
    Covers(s, c.entity) /\ ProjectOf[c.entity] \in Home /\ c.sequence <= cursor[s] => Held(c)

(* A local record lacks the payload of a change up to its version only in    *)
(* the same three cases: no pull, edit or resolution takes it past another, *)
(* which the version check would then keep out for ever.                    *)
RecordsAreWhole ==
  \A c \in log :
    ProjectOf[c.entity] \in Home /\ c.version <= store[c.entity].version =>
      Held(c) \/ Overtaken(c) \/ Outrun(c) \/ Undone(c)

(* A record is of a project that the user is a member of, and says what the  *)
(* change_log says of its version, or what an edit made here on the version *)
(* before says.                                                             *)
StoreMatchesLog ==
  \A e \in Entities : store[e].version > 0 =>
    /\ ProjectOf[e] \in joined
    /\ \/ \E c \in log : /\ c.entity = e /\ c.version = store[e].version
                         /\ c.tombstone = store[e].deleted
       \/ \E i \in DOMAIN edits : /\ MadeHere(i, e) /\ edits[i].base + 1 = store[e].version
                                  /\ edits[i].tombstone = store[e].deleted

(* The user answers a conflict of e.                                        *)
Answers(e) ==
  \E i \in DOMAIN edits : /\ edits[i].entity = e /\ edits[i].status = "pending"
                          /\ edits'[i].status = "resolved"

(* Late and repeated answers never take a record back to an older version:   *)
(* only the user does who answers its conflict.  And a record whose deletion *)
(* the log has, at its version or before, is never revived, by nobody.      *)
NeverBackwards ==
  \A e \in Entities :
    /\ store[e].version <= store'[e].version \/ Answers(e)
    /\ store[e].deleted /\ (\E c \in log : c.entity = e /\ c.tombstone /\
                                           c.version <= store[e].version) =>
         store'[e] = store[e]

RecordsOnlyAdvance == [][NeverBackwards]_vars

(* A pullAll loop ends although overlapping loops move the shared cursor     *)
(* back, and the log grows behind its pages.                                *)
PullAllEnds == \A p \in Pullers : pc[p] # "idle" ~> pc[p] = "idle"
=============================================================================
