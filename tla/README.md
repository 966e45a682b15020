# FieldCore: specifications, model checking and proofs

FieldCore is a local-first field inspection app. A device edits projects, sites,
inspections and measurements in IndexedDB, queues every edit as an operation, pushes the
queue in batches to a PostgreSQL-backed server, and pulls the server's `change_log`. This
directory specifies that machinery in TLA+, checks it with TLC on small instances and
proves its safety properties with TLAPS for every instance: every invariant and every action
property that a passing run checks, and both refinements, are theorems.

    tlc -config MCPushServer.cfg MCPushServer.tla      # any run: the module of its row below
    tlapm PushServerSafety_proofs.tla                  # any of the eight *_proofs modules

## The system

| Part | State | Operations | Talks to |
|---|---|---|---|
| Push handler `server/src/push-handler.ts` | domain rows, `project_members`, `change_log`, `idempotency_records`, `conflicts`, `devices` | `processPushRequest`: one transaction per operation of a batch | the database; called by `POST /sync/push` |
| Pull handler `server/src/pull-handler.ts` | `sync_cursors`, `devices` | `processPullRequest`: gate, membership, a page of the log | the database; called by `GET /sync/pull` |
| Accounts `server/src/auth/*`, `project-members.ts` | `users`, `devices`, `sessions`, `refresh_tokens`, `project_members` | login, refresh, logout, register a device, `requireAuth`, add a member | gate of both sync routes |
| Repositories `sync/src/repository/*` | local records, `sync_operations` | create, update, delete: record and operation in one Dexie transaction | read the conflict lock |
| Push service `sync/src/services/push-sync.ts` | `sync_operations`, local `conflicts` | pick a batch, send it, apply the results, back off, sweep | push handler |
| Pull service `sync/src/services/pull-sync.ts` | local records, `pull_cursors` | pull pages until there are no more | pull handler |
| Conflict resolution `sync/src/services/conflict-resolution.ts` | records, operations, conflicts | `KEEP_SERVER`, `KEEP_MINE` | queue of the push service |
| `SyncContext.tsx` | `isSyncing` | `syncNow`: one `pushBatch`, then `pullAll` | both services |
| Pages `apps/web/src/App.tsx`, `components/domain/*` | the page on the screen, its forms, `isSubmitting`, the cards as last rendered | create, edit, advance, delete, from a form or a card | repositories, GPS capture |
| GPS capture `hooks/useGpsCapture.ts`, `services/gps.ts` | `gpsStatus`, a timer, `hasResolved` | a position or null for a save | the geolocation of the browser |
| Conflict drawer `components/sync/ConflictDrawer.tsx` | `resolvingId`, the conflicts as last rendered | `handleResolve` | conflict resolution |
| Status queries and bar, service worker | none that is synchronised | | |

Where it is hard:

- **Concurrency.** Requests interleave at every await; the database gives row locks, keys
  and atomic commits, but a `BIGSERIAL` value is taken long before it can be seen, and
  `FOR UPDATE` on a missing row locks nothing.
- **Delivery.** An answer can be lost after the server decided, a request can go on after
  its client gave up, and the same operation can be evaluated twice at the same time.
- **Optimism.** A local record runs ahead of the server; versions alone decide what a pull
  may overwrite and whether an edit conflicts.
- **Crashes.** The app can be closed between marking a batch `SYNCING` and the answer.
- **Several tabs.** The tabs of a device share IndexedDB, and each runs its own `pushBatch`
  and sweep: `isSyncing` guards a tab, not the store.
- **A user who does not wait.** Between a click, the Dexie transaction and the next render
  the user types, cancels, leaves the page and comes back, and pulls and pushes go on.
- **Stale checks.** Membership, revocation and device names are read in one statement and
  used in another.

What makes each part correct: an operation is decided once and its traces agree (push
handler); a cursor passes nothing the device does not have (pull); the queue says what the
server decided and a record with nothing left to send equals the server's (device); nobody
revoked, logged out or foreign is served (accounts); a click does what the user meant by
it, once, and says truly how it ended (pages). `PROJECT.json` lists the hazards at
their lines with the property that watches each, or why there is none.

## Modules

| Module | Models | Extended by |
|---|---|---|
| `PushServer` | overlapping push requests on the tables | `MCPushServer`, `PushServer_proofs`, `PushServerSafety_proofs` |
| `OpLedger` | abstract: each operation decided once, atomically | instantiated by `PushServer` |
| `PullFeed` | the log as it is written, the pull handler, and every writer of a device's records: its pull loops, repositories and resolutions | `MCPullFeed`, `PullFeed_proofs`, `PullFeedSafety_proofs` |
| `DeviceSync` | repositories, push service, conflicts, tabs and restarts, pulls of a device; the contracts of `types/src/sync.ts` and `validation/src/sync.ts` | `MCDeviceSync`, `DeviceSync_proofs`, `DeviceSyncSafety_proofs` |
| `EditQueue` | abstract: each edit handed over, decided once, reported once | instantiated by `DeviceSync` |
| `WebApp` | pages, forms, GPS capture and conflict drawer over the store | `MCWebApp`, `WebApp_proofs` |
| `Accounts` | login, sessions, devices, `requireAuth`, members | `MCAccounts`, `Accounts_proofs` |

The composition is by assumption. `PushServer` proves that an operation is decided at most
once and in one step, so `DeviceSync` decides in one step (`Evaluate`). `PullFeed` takes
from it that one transaction at a time is open on an entity and that versions grow in
sequence order (`Insert`, `CommitChange`); it proves that overlapping pages never regress
a record, so `DeviceSync` pulls in one step (`Pull`). Of the queue `PullFeed` has only what
shows in the records; batches, statuses and failures are in `DeviceSync`. `Accounts` shows who gets past
`requireAuth`; the handlers then check the device and the membership again, and those
checks are in `PushServer` (`Gate`, `Authorized`) and `PullFeed` (`Gate`,
`ReadMemberships`). `WebApp` is the caller of the repositories: what one of its
transactions does to the queue is an action of `DeviceSync` (`Update`, `Resolve`), and
what the synchronisation does to a card (`Pull`, `Found`) just happens.

### PushServer and OpLedger

A worker is one request in `processPushRequest`; `pc` is the await it is at.

| Action | Code (push-handler.ts) |
|---|---|
| `Gate` | revocation and offline window, once for the batch (130-161) |
| `Lookup` | idempotency fast path (167-180) |
| `Begin` | `SELECT ... FOR UPDATE`, waiting for the holder of the row (182-191) |
| `Refuse`, `PlanConflict`, `PlanApply` | membership, classification, row and log writes (195-567) |
| `Commit`, `LoseRace` | idempotency insert and COMMIT, or the unique violation (331-348, 571-580) |
| `Reread`, `Fail` | after the violation; any other error (579-600) |
| `Reply` | window renewal and the answer (603-624) |
| `Drop`, `WindowExpires`, `Revoke`, `AddMember` | crash, time, administrator, new member |

What a transaction writes is `plan`, and becomes visible at `Commit`; the exception is
`nextSeq`, advanced by `PlanApply`. A row lock (`Locks`) exists only for a row that was
found; `Inserting` is the wait of a second insert on the same key. Payloads are abstracted:
a row is its version and tombstone.

`OpLedger` has no requests, locks or keys: `Apply` and `TurnDown` decide an operation
against the rows and memberships of that moment. One exception is in the abstract
specification because the code has it: an UPDATE or DELETE that looks for a project
before another request's CREATE of it commits is turned down as `EDIT_DELETE`, although
the project is there when the verdict commits (`Overtaken`). It is open only to an operation
that found no row while its transaction is under way: `missed` holds those, and `LookUp` lets
one in only where there is no row.

### PullFeed

A puller is one `pullAll` loop. `ReadCursor`, `Gate`, `ReadMemberships`, `Query`, `Record`
and `Apply` are its awaits; `Stop` ends it anywhere. `Insert`, `CommitChange` and `RollBack`
extend the log, and a change keeps in `at` how many had been committed before it, so that
`Overtaken` can name the changes that committed after a higher number. A local record
keeps the payloads that were spread into it (`merged`): payloads are patches, so being at
version 3 without the payload of version 2 is a real loss.

The same records are written by the user of the device, and the pull's version check is
about them (pull-sync.ts 136-142):

| Action | Code |
|---|---|
| `Create`, `Edit` | `executeAtomicMutation`: the row is put at the next version and the operation queued (base.ts 101-148) |
| `Push`, `TurnDown`, `Learn` | the server applies the operation or finds a conflict; the conflict arrives and locks the record |
| `KeepServer` | the live row is overwritten with `serverState` and its version (conflict-resolution.ts 208-231) |
| `KeepMine` | the edit is queued again on the newer of the two versions, the row stays (232-267) |

`Edited` bounds which entities the user edits. An operation the server refuses, or turns down
because the row is deleted, changes no record here and is one that is never pushed.

### DeviceSync and EditQueue

`ops` is `sync_operations` by `localSeq`. A record keeps the set of edits in it, and a
`KEEP_MINE` operation keeps the edit it came from.

| Action | Code |
|---|---|
| `CreateProject`, `CreateBelow`, `Update`, `Delete` | `executeAtomicMutation` of the four repositories |
| `Collect`, `Send` | `getEligiblePendingOperations`, and the batch is `SYNCING` (push-sync.ts 71-150) |
| `Gate`, `Serve`, `ServeOrphan` | the server, one operation after the other; `orphans` are requests whose client is gone |
| `Reply` | the switch over the results (194-295) |
| `TransportFails`, `DelayEnds` | back to `PENDING`, each operation with a delay of its own (151-192) |
| `Restart` | a tab is closed or crashes and starts on what IndexedDB holds; it sweeps (46-62) or does not: the app has no call of the sweep, and `Sweeps` holds the cases a run looks at |
| `Resolve` | `KEEP_SERVER`, `KEEP_MINE` and the reclassification (conflict-resolution.ts 136-281) |
| `Revalidated` | `resolveRevalidationSuccess` (301-319) |
| `Pull`, `PeerEdit`, `DeviceChanges` | one `pullAll`; other devices; revocation and the offline window |

`Loops` is the set of tabs. With two, a failure in one tab takes operations of the other
back to `PENDING` after they were answered, and the answer to a repetition arrives late.
What the queue says must then still be true (`QueueMatchesServer`, `SyncedRecordsConverge`,
`EditsSettle` run with two tabs); what is said only with one batch at a time has it in its
comment. Four such properties are false with two tabs: `ConflictsMatchQueue`,
`StatusesFollowTable` and `ImplementsQueue`, as an operation that was answered, also one with
a pending conflict, can be `PENDING` again; and `EditsApplyOnce` with three operations,
as a late copy of a `CONFLICT` answer opens a conflict again that `KEEP_MINE` had closed,
and the user, asked twice, queues the edit twice. `ConflictsHaveCause` holds with two tabs on
the instance of `device_settles`, and is proved for one.

The tables of the shared packages are operators of the module: the program never calls
`isValidSyncStatusTransition`, so that its transitions follow the table is a property
(`StatusesFollowTable`). It is about edits: `KEEP_MINE` takes an edit from `CONFLICT` to
`PENDING`, as the table has it, but by a fresh operation with that edit, and ends the operation
itself `REJECTED`, which the table does not have for `KEEP_MINE` (see below). And the schema that the server applies to a request is one of what
the device sends (`RequestsAreValid`).

`EditQueue` has no batches, requests, delays or restarts. An edit is handed over, decided at
most once against the record as it then is (`Apply`, `TurnDown`), and reported as what it was
decided to be (`Report`); the user settles what was turned down (`Settle`), and only that
hands an edit over again. It is not handed over again on a later version always: with two
conflicts on a record, `KEEP_SERVER` of one takes the record back to its snapshot, and
`KEEP_MINE` of the other then rebases on that (TLC shows it with four operations, one more
than `device_safety` has), so `Settle` asks only for a base. `ImplementsQueue` reads the abstract queue off `ops`, the log off
`feed`, the verdicts off the stored answers and the report off the statuses (`Reported`):
`PENDING`, `SYNCING` and a hold for revalidation are all "waiting".

`faults` keeps, for each fault of a behaviour, the operations that it left `SYNCING` with nobody
to bring them back: those of a batch whose tab was closed and not swept. `EditsSettle` excepts
them, and says of all others that crashes, failures and the other tab only delay them.

### WebApp

| Variable | Code |
|---|---|
| `page`, `mount` | `selectedProject`, `selectedSite`, `selectedInspection` (App.tsx); a number for each time a page is mounted |
| `ui` | `useState` of the page on the screen: `isCreating`, the inputs, `error`, `saveBanner`, `isSubmitting`, `gpsStatus`, `editingProject` and its inputs |
| `captures` | calls of `captureOnSave` that have not come back |
| `writes` | Dexie transactions that are waiting or under way, in order |
| `record`, `shown` | a record and its card as `useLiveQuery` last rendered it |
| `stored`, `conflicts`, `drawer` | new records; what is known of each conflict; `resolvingId`, the error and the list of the drawer |

Texts of the user are numbers, so that two records made from one text are seen. The four
explorers are one form: `HasGps` says which of them wait for a position, `RefuseNumber` is the
measurement's check of its value. A handler that comes back after its page was left writes its
record, and sets state that belongs to no page: every effect on `ui` asks whether `mount` is
still the one that was clicked on. `Reload` loses everything but the store.

A capture ends by `CallsBack` or `TimerFires`; whichever is second finds
`hasResolved` set, so the capture is gone.

### Accounts

A request is a chain of statements, `pc` the next one. A request makes at most one device
and one session, named after the request. Passwords, signatures and tokens are reduced to
whether they check out. `stale` is a history variable: whether the request already had to
be refused when it arrived.

## Runs

| Run | Configuration | Instance | States | Shows |
|---|---|---|---|---|
| push_safety | `MCPushServer.cfg` | 2 requests at a time, 2 in all, 2 operations of 8 contents, 2 devices, 4 rows | 323,688 | type, stored answers match tables, no lost update, retries agree, only members write, decisions are final, the ledger is implemented |
| push_answers | `MCPushServer_answers.cfg` | 3 requests, 2 at a time, batches of one, a watched device | 114,762 | every request ends |
| pull_safety | `MCPullFeed.cfg` | 2 loops, 2 entities in 2 projects, the scope of all projects, 3 changes, pages of two; 2 operations of the user on one of the entities | 910,362 | a change is skipped in three named cases only, records whole but for those, store matches the log and the edits, only an answer to a conflict takes a record back |
| pull_ends | `MCPullFeed_ends.cfg` | 2 loops over one entity, 2 scopes, 3 changes, device revoked or expired | 168,234 | every loop ends |
| pull_gap | `MCPullFeed_gap.cfg` | 2 loops, 3 entities, one scope, pages of one, no edits | violated | a cursor passes a change that commits late |
| device_safety | `MCDeviceSync.cfg` | a project and a site created on the device, 3 operations, 2 peer edits, 1 fault, with and without the sweep, revocation | 750,937 | queue, conflicts, records and server agree; edits move by the status table; requests pass the schema; conflicts have a cause; the abstract queue is implemented |
| device_settles | `MCDeviceSync_settles.cfg` | two tabs, one record, batches of one, 2 operations, 1 peer edit, 1 fault, with and without the sweep | 135,000 | queue, records and server agree with two tabs; every edit is settled or waits for the user, except one left behind by a closed tab that nobody swept |
| device_stuck | `MCDeviceSync_stuck.cfg` | no sweep, one fault | violated | an operation stays SYNCING |
| device_past | `MCDeviceSync_past.cfg` | 2 operations, 1 peer edit | violated | an edit is applied past a conflict |
| device_delete | `MCDeviceSync_delete.cfg` | 2 operations, 1 peer edit | violated | a deleted record stays alive |
| accounts_safety | `MCAccounts.cfg` | 3 requests, 2 users, 1 project, 1 fault | 375,901 | nobody stale is served, credentials agree, devices are whole and unique, members are vouched for |
| app_safety | `MCWebApp.cfg` | 5 budgets, see below | 432,398 | one save per page, a text becomes one record, banners are true, nothing shown is undone, locks and answers stand, saves end |

Every property of a passing run has a mutant in `PROJECT.json`: a plausible mistake in one
definition (no row lock, no key, descending order, a cursor outside its transaction, a
check left out) under which TLC finds the property violated on the same instance.

**Bounds.** A race in this code is between two parties over one row, key, cursor or name:
two workers, two loops, two devices and two users reach each of them, and a third is only
needed in a chain, where it is given (a third request for the accounts, a third operation
after a conflict and its repetition). The two tabs of `device_settles` meet over one record
and one operation each; batches, creation and revocation are in `device_safety`. Two operations in a batch are enough for one to
follow the outcome of another. A page of one change makes every change a page boundary (`pull_gap`, `pull_ends`); pages of
two (`pull_safety`) have the change that is skipped and the patch behind it in one page or in
two. Two operations of the user are one edit and its copy by `KEEP_MINE`, or two edits on each
other; three changes are the version both start from, the peer's change on it, and the patch
behind that.
The app pulls all projects at once and never one of them, so `pull_safety` has the cursor of
that scope alone; `pull_ends` also runs loops of a single project, and the theorems hold for
every set of scopes.
Faults are bounded because each one is a fork, and two are enough for a failed repetition.
`Watched = FALSE` leaves out revocation in the runs where it only ends the behaviour. The
proofs have no bounds. `WebApp` has no single bound: a behaviour starts with one of the
`Budgets` (`MCWebApp.tla`), each long in what it is about and short in the rest: three new
records over three visits to pages, with a transaction that fails; the edit form against pulls
and a conflict; both forms of the project page, left and opened again; an inspection from
draft to completion with pulls, a conflict and two clicks at a time; two conflicts answered
with three clicks. Symmetry is used in safety runs only, over workers and operations,
over loops, and over requests. Deadlock is not checked:
requests, operations and changes are bounded, and a model whose bounds are used up stops.

**Fairness.** `PushServer` and `PullFeed`: the steps of a request or loop that is open are
weakly fair, since the event loop, the database and every await go on; crashes, answers
lost, new requests and the environment are not fair. A wait for a lock ends because its
holder's steps are fair; that is what `RequestsAreAnswered` checks. `DeviceSync`: the steps
of a batch are weakly fair, which includes starting one, as the user goes on pressing
"Sync Now" (`SyncContext.tsx` 131-155 is the only caller), and backoff delays end. The user
is not assumed to resolve conflicts, so `EditsSettle` lets an edit wait for one. `WebApp`:
timers fire and Dexie transactions end; the geolocation and the user owe nothing, so
`SavesEnd` rests on the timer alone.

## What does not hold

- **pull_gap.** `change_log.sequence` is taken at INSERT. A transaction that commits after
  one with a higher number has been served is passed by every cursor: its change never
  arrives, and the next patch of the record is applied without it. It is the first of the
  exceptions of `NothingSkipped` and `RecordsAreWhole` (`Overtaken`).
- **device_stuck.** `recoverDanglingSyncingOperations` has no caller in the app; README.md:135
  describes a startup routine.
- **device_past.** The exclusion of records with a conflict looks at the conflicts known
  before the batch. Inside a batch, an edit behind one that conflicts is applied when the
  version made by another device equals its base.
- **device_delete.** After `EDIT_DELETE` the local record keeps its optimistic version, and
  the pull skips the tombstone because the record is not behind it.

What the properties allow for, because the code does it; no document says otherwise except where
one is quoted:

- **A peer's change on the version of a local edit** (`Outrun`). A record edited here to version
  2 is not behind a peer's version 2: the pull skips it as "local-version-ahead" and the cursor
  passes it. The edit conflicts, and after `KEEP_MINE`, or when the edit was rejected, nothing
  brings the peer's payload: its version 3 is merged without it, and the record lacks it until
  another change repeats it. `KEEP_SERVER` repairs the record, if its snapshot has the change.
- **`KEEP_SERVER` behind the cursor** (`Undone`). The snapshot of the conflict may be older than
  what a pull has brought since: the record goes back to its version, and the changes between
  are behind the cursor. It is the only step that takes a record back (`RecordsOnlyAdvance`).
- **`KEEP_MINE` and the status table.** types/src/sync.ts:75 and 97-98, the header of
  conflict-resolution.ts (114-116, "Re-queues the linked sync_operation from CONFLICT →
  PENDING") and validation/src/__tests__/sync.test.ts:159-175 have the operation of a conflict
  go to `PENDING` and nowhere else on `KEEP_MINE`. The service ends it `REJECTED` and queues a fresh
  one (237-267, "stays REJECTED (terminal, for audit)", and README.md:133). `StatusesFollowTable`
  states what the code does: the edit takes the step of the table, the operation does not.
- **An edit under way when its tab is closed** stays `SYNCING` in the app as it is wired
  (device_stuck): `EditsSettle` excepts it.
- **Conflicts without another device** (`ConflictsHaveCause` lists when). `KEEP_MINE` leaves
  the local record at its version while it queues an operation on a higher base, so the next
  edit shares a base with that operation and conflicts with it. A rejected operation leaves
  the record ahead of the server, and `KEEP_MINE` then rebases on a version the server does
  not have. Each operation of a failed batch gets a delay of its own, so a later edit may be
  sent before an earlier one; an edit sent before the CREATE of its record is `UNAUTHORIZED`,
  and stays `SYNCING`.
- **`KEEP_SERVER` under queued edits.** It puts the snapshot of the conflict over a record that
  has newer edits in the queue; they are still pushed, on their own bases.
- **The edit form writes both fields.** A name that a pull changed while the form was open is put
  back by a user who typed in the other field; so is the user's own last save, when Edit is
  clicked before the card shows it. The base version is read in the transaction
  (base.ts:96-100), so the server sees no conflict. `NothingShownIsUndone` excepts a record
  that is no longer the one the form was opened from.
- **Advance over a peer.** The next status comes from the card; a click before the card shows a
  pulled status takes that status back. Without another device it never does.
- **Cancel and typing during a save.** Cancel hides the form and the save goes on; text typed
  meanwhile is wiped when it ends.

Also seen while reading, without a run: the drawer shows the 20 newest conflict records
(`sync-status.ts` 57), so a pending one behind 20 others has no button; "All Synced"
(`SyncStatusBar.tsx` 42) counts `PENDING` operations only, not those that are `SYNCING` or
held; `gps.ts` waits 5,000 ms where README.md:94 says 2,000, and accepts a position up to 10 s
older than the save; the web transports send no `Authorization` header
though both sync routes require it (`server.ts` 66-103); `sync-status.ts` 66 and 74 read
`sync_cursors`, which the client never writes; README.md:294 says that
an access token cannot be revoked before it expires, while `middleware.ts` 107-122 reads its
session on every request, and README.md:34 that the sync routes are not gated, which they are.

## Proofs

| Module | Theorems |
|---|---|
| `PushServer_proofs`, `PushServerSafety_proofs` | types; answers match tables, decided once, no lost update, retries agree, members only, decisions are final; implements `OpLedger` |
| `PullFeed_proofs`, `PullFeedSafety_proofs` | types; nothing skipped and records whole but for the three cases, store matches the log and the edits, no step back but by an answer |
| `DeviceSync_proofs` | types; the queue says what the server decided, requests pass the schemas, synced records converge: for any number of tabs |
| `DeviceSyncSafety_proofs` | conflicts match the queue, edits move by the status table, an edit is applied once, conflicts have a cause; implements `EditQueue`: for one tab |
| `WebApp_proofs` | types; one save per page, a text becomes one record, banners are true, nothing shown is undone, locks and answers stand |
| `Accounts_proofs` | types; nobody stale is served, credentials agree, devices whole and unique, members vouched for, revocations are final |

The assumptions are those on the constants (`ContentsAssumption`, `TreeAssumption`,
`FeedAssumption`, `DeviceAssumption`, `WebAssumption`, `AccountAssumption`), which TLC
evaluates on every run, and `OneLoop` where it is named. All of them say what kind of thing a
constant is; the one that says more is `AccountAssumption`, that an identifier a client may
ask for is none that the server makes (a fresh UUID). `OneLoop`, one tab, is a hypothesis of
the theorems of `DeviceSyncSafety_proofs` and not of the module: within a tab `isSyncing`
(`SyncContext.tsx` 131-155) keeps batches from overlapping, and with two tabs four of the
five are false (above). Each invariant below was checked by TLC on the instances before it
was proved.

**PushServer.** The properties are not inductive: they speak of committed tables, and a
commit is right only because of what the open transaction knows. `Consistent` adds that:
a row that a transaction found is locked by it and still as it was read (`LockedRows`); a
row being inserted is not there and has one inserter (`InsertedRows`); the plan of a
transaction follows from the row it read, its operation and a membership that still stands
(`SoundPlans`, `OneSender`); its sequence number is above those of the changes it follows
(`FreshSequences`); tombstones come last (`TombstonesLast`, `DeadRowsExist`, `SeedsStay`).
`StepKinds` classifies the steps by what they do to the tables, so that each conjunct is
proved for five kinds of step and not for sixteen actions. From `AlwaysConsistent` follow
`AnswersMatchTables`, `ExactlyOnce`, `NoUpdateIsLost`, `RetriesAgree`, `MembersOnly`,
`Finality`, and `Refinement`: every step of the handler is a step of `OpLedger` or a
stutter, with `history` and `decided` read off the log and the idempotency records, and
`missed` off the transactions that found no row (`OnlyMissingRowsAreMissed`).

**PullFeed.** `Replicated` says what a sequence number in the hands of a client stands for:
it is 0 or the number of a committed change (`NumbersKnown`), and every change below it,
of a project of the user, is `Kept`, which is in its record or one of the three cases, or in the
page on its way there (`RequestsSound`, `PagesSound`). A change that commits now is below a
known number only if it is overtaken, since that number was committed before. `RecordsAreWhole`
needs the log (`LogSound`, `OpenSound`): versions of an entity follow their sequences. What the
user does needs two more: the payload of an operation is in its record or was taken out, and a
conflict is at a live version of the log (`EditsSound`); and every version of a record that the
server does not have yet is that of an edit made here (`AheadByEdits`), so that a change which
commits with such a version is either that edit or outrun by it (`NewKept`). The theorems are
`CursorsSkipNothing`, `RecordsStayWhole`, `RecordsMatchLog` and `NoStepBack`.

**DeviceSync, any number of tabs.** `Sound` ties what is under way to what is stored: an answer
in a loop is the stored one if it is final (`Decisions`), a batch and its answers have the
lengths the loop is at (`Requests`), the changes of the device in the feed are no more than
its applied operations (`Counted`), and an entity is created here once, before anything else
(`Creations`); `QueueMatchesServer` and `RequestsAreValid` follow. Convergence is about a
gap: the record runs ahead of the server, and every version between the two is the base of an
operation that still waits (`Current`). When nothing waits there is no gap, and the pull has
brought the rest. An operation that is turned down leaves the gap open for good, but then not
all operations of the record are `SYNCED`: `Converging` is `Current` or `Spoiled`, for each
record, and a spoiled record stays so, because versions only rise (`VersionsRise`).

**DeviceSync, one tab.** A batch is untouched while it is under way (`BatchesHeld`), which
with `Sound` and `ConflictsMatchQueue` is inductive (`Held`). From there on a proof does not
look at actions: every step grows, moves, reports on, decides or resolves operations, or
pulls, or is of a peer (`Grows`, `Moves`, `Reports`, `Decides`, `Resolves`, `Pulls`,
`PeersEdit`). Statuses follow the table because only `Resolves` leaves `CONFLICT`, and there
`KEEP_MINE` appends the operation that carries the edit on (`KeepMineFollows`). An edit is applied once because of two operations with one edit the older is
turned down and settled (`KeptOnce`) and nothing is in the feed that no applied operation put
there (`FromQueue`). A conflict has a cause because unless the user resolved something the
bases of a record's operations rise (`Bases`), each base ahead of the server is one more than
that of an earlier operation that waits (`Ahead`), and each version of the server was made by
a peer or by an operation with the base below it (`History`). `TheQueueIsImplemented`
maps each kind of step to the action of `EditQueue` of that kind, or to a stutter.

**WebApp.** `Usable`: what is under way of a page is one capture or one save, and the page on
the screen shows it (`SavesSound`); a text is in the form, in one capture, in one
transaction or in one record (`DraftsSound`), and numbered within the budget (`BudgetSound`);
what was not typed into the edit form is what the card showed (`FormsSound`); the steps of an
inspection wait in the order of the lifecycle (`LifecycleSound`). `NothingShownIsUndone` needs
the last two, as a transaction runs long after the click.

**Accounts.** `Credible`: what a request rests on at its statement is there, and it has
made exactly the rows of the statements before (`Granted`); tokens name a session and a device of their user
(`Signed`); a request that was hopeless on arrival is so for a reason that a check still ahead
of it looks at (`StaleSounds`), since revocations, expiry and logout are never taken back
(`RevocationsAreFinal`); a member who adds is one since the check (`CallersAreMembers`).

**Only model-checked:** the liveness properties `RequestsAreAnswered`, `PullAllEnds`,
`EditsSettle` and `SavesEnd`, since the prover has neither ENABLED nor fairness. The findings
are counterexamples of TLC. Not stated as theorems are what the composition assumes from one
module to the next (above), which is an argument and not an instantiation.

## Not modelled

Payload columns and their merge on the server, the wording of errors, passwords and
cryptography, CORS, logging and seeding; search, layout and the counts and times of the status
bar; the `CANCELLED` status of an inspection, which no page produces; formats of identifiers,
dates and positions in the schemas; the service worker, which bypasses the sync routes;
migrations and scripts; the branch of the pull handler for requests without authentication,
which only unit tests reach, and its `sync_cursors` row, an "observability aid"
(pull-handler.ts 158) that nothing reads; an answer without a result for an operation of the batch,
which push-sync.ts 210-217 takes back to `PENDING` (the server of this repository answers every
operation, so `Reply` has a result for each); a full batch of 25 locked operations ahead of the rest, which the
module has (`NextBatch`) and no run reaches with more than two operations in a batch.

## Plan

1. Done: `PushServer`, `OpLedger` and `PullFeed` with proofs; `DeviceSync` with `EditQueue`,
   with one tab and with two; `WebApp`; `Accounts`.
2. Done: theorems for every safety property that a passing run checks, and for both refinements.
   Next: which of the one-tab theorems hold for any number of tabs (`ConflictsHaveCause` may),
   and the steps of `DeviceSync` that its composition takes from `PushServer` (a decision
   is one step) stated against `OpLedger`.
3. Two devices end to end: convergence when both have nothing left to send.
4. Two records behind a full batch of locked operations.
