------------------------------- MODULE WebApp -------------------------------
(***************************************************************************)
(* The web application over the local store (apps/web/src): App.tsx with    *)
(* its four pages (components/domain), the forms of a page, the GPS capture  *)
(* of a save (hooks/useGpsCapture.ts, services/gps.ts), and the drawer where *)
(* conflicts are resolved (components/sync/ConflictDrawer.tsx).             *)
(*                                                                         *)
(* Between the click and the Dexie transaction, and between the transaction  *)
(* and the re-render of the live query, anything may happen: the user goes   *)
(* on typing, cancels, leaves the page and comes back, a pull changes the   *)
(* record, a push finds a conflict.  A handler whose page is gone goes on,   *)
(* but the state it sets belongs to no one.  Transactions of the page share  *)
(* tables, so IndexedDB runs them in the order they were made.  What a       *)
(* mutation does to the queue is DeviceSync; here a record is what a card    *)
(* shows of it.                                                            *)
(***************************************************************************)
EXTENDS Naturals, Sequences

CONSTANTS
  Fields,       \* the fields of the edit form (name and description)
  Conflicts,    \* the conflicts a push may find for the record
  Budgets       \* where a behaviour starts and what bounds it: the page the user has
                \* gone to, the card looked at, its conflicts, texts typed into the
                \* form of a new record, pages opened, versions of the record,
                \* transactions that clicks queue up, transactions that fail

Cards == {"project", "inspection"}
Texts == {"old", "mine", "theirs"}
Path == <<"projects", "sites", "inspections", "measurements">>
Lifecycle == <<"DRAFT", "IN_PROGRESS", "COMPLETED">>

ASSUME WebAssumption ==
  Budgets \subseteq [page : {Path[n] : n \in DOMAIN Path}, card : Cards,
                     conflicts : SUBSET Conflicts, drafts : Nat, mounts : Nat \ {0},
                     version : Nat \ {0}, writes : Nat, faults : Nat]

VARIABLES
  page,      \* the page App shows, from what is selected
  mount,     \* pages opened so far; the last is on the screen
  ui,        \* useState of the page on the screen
  captures,  \* saves that wait for their GPS position: [mount, draft]
  writes,    \* Dexie transactions under way, in order
  stored,    \* new records, in order: [mount, draft, gps]
  record,    \* the record that has a card: its fields or status, who changed it last,
             \* and whether this device has queued an edit of it
  shown,     \* the card as last rendered
  conflicts, \* what is known of a conflict: its status, or the answer to it
  drawer,    \* useState of the drawer, and the pending conflicts it shows
  budget     \* one of Budgets; drafts and faults are what is left of it

screen == <<page, mount, shown>>
store == <<stored, record, conflicts>>
vars == <<screen, ui, captures, writes, store, drawer, budget>>

-----------------------------------------------------------------------------
(* Data.                                                                   *)

FirstRecord == [version |-> 1, fields |-> [f \in Fields |-> "old"],
                status |-> "DRAFT", deleted |-> FALSE, by |-> "peer", queued |-> FALSE]

(* editingProject is null; the fields keep what was typed.                  *)
Hidden(edit) == [edit EXCEPT !.open = FALSE, !.seen = FirstRecord, !.touched = {}]
NoEdit == [open |-> FALSE, seen |-> FirstRecord,
           fields |-> FirstRecord.fields, touched |-> {}]
Fresh == [open |-> FALSE, input |-> 0, error |-> FALSE, banner |-> FALSE,
          busy |-> FALSE, gps |-> "idle", edit |-> NoEdit]
Closed == [resolving |-> "none", error |-> FALSE, pending |-> {}]

HasGps == page \in {"sites", "measurements"}
Locked == \E c \in Conflicts : conflicts[c] = "PENDING"
Mounts == UNION {1 .. b.mounts : b \in Budgets}
Rank(status) == CHOOSE n \in DOMAIN Lifecycle : Lifecycle[n] = status

(* What a pull may bring: a field, or a status.  No page goes back to DRAFT,  *)
(* but a start that KEEP_MINE repeats may come after the completion.         *)
Theirs ==
  LET r == [record EXCEPT !.by = "peer"]
  IN IF budget.card = "project"
     THEN {[r EXCEPT !.fields[f] = "theirs"] : f \in Fields}
     ELSE {[r EXCEPT !.status = s] : s \in {r.status, "IN_PROGRESS", "COMPLETED"}}

(* What the server may have had when it found a conflict, all of it.         *)
Snapshots ==
  LET r == [record EXCEPT !.by = "peer"]
  IN IF budget.card = "project"
     THEN {[r EXCEPT !.fields = g] : g \in [Fields -> Texts]}
     ELSE {[r EXCEPT !.status = s] : s \in {"IN_PROGRESS", "COMPLETED"}}

(* The app starts on the projects; the user has gone to some page.          *)
Init ==
  /\ budget \in Budgets
  /\ page = budget.page /\ mount = 1 /\ ui = Fresh
  /\ captures = {} /\ writes = <<>> /\ stored = <<>>
  /\ record = FirstRecord /\ shown = record
  /\ conflicts = [c \in Conflicts |-> "NONE"]
  /\ drawer = Closed

-----------------------------------------------------------------------------
(* Navigation and rendering.                                                *)

(* A page is mounted, with the result of its live query.                    *)
Open(to) ==
  /\ mount < budget.mounts
  /\ page' = to /\ mount' = mount + 1 /\ ui' = Fresh /\ shown' = record

Navigate ==
  LET here == CHOOSE n \in DOMAIN Path : Path[n] = page
  IN /\ \E n \in DOMAIN Path \ {here} : n <= here + 1 /\ Open(Path[n])
     /\ UNCHANGED <<captures, writes, store, drawer, budget>>

(* The tab is closed or reloaded: what was under way is gone.               *)
Reload ==
  /\ Open("projects")
  /\ captures' = {} /\ writes' = <<>> /\ drawer' = Closed
  /\ UNCHANGED <<store, budget>>

Render ==
  /\ \/ shown' = record /\ UNCHANGED drawer
     \/ /\ drawer' = [drawer EXCEPT !.pending =
                        {c \in Conflicts : conflicts[c] = "PENDING"}]
        /\ UNCHANGED shown
  /\ UNCHANGED <<page, mount, ui, captures, writes, store, budget>>

-----------------------------------------------------------------------------
(* The form of a new record: handleCreate of the four explorers.            *)

Local(new) ==
  /\ ui' = new
  /\ UNCHANGED <<screen, captures, writes, store, drawer>>

(* The form is opened, filled in, cancelled.  Cancel hides it, no more.      *)
ToggleForm ==
  /\ budget.drafts > 0 \/ ui.input # 0
  /\ Local([ui EXCEPT !.open = ~@]) /\ UNCHANGED budget

Type ==
  /\ ui.open /\ budget.drafts > 0
  /\ budget' = [budget EXCEPT !.drafts = @ - 1]
  /\ Local([ui EXCEPT !.input = budget.drafts])

(* A measurement whose value is no number.                                  *)
RefuseNumber ==
  /\ page = "measurements" /\ ui.open /\ ui.input # 0 /\ ~ui.busy
  /\ Local([ui EXCEPT !.error = TRUE, !.banner = FALSE]) /\ UNCHANGED budget

Creation(m, draft, gps) == [kind |-> "create", mount |-> m, draft |-> draft, gps |-> gps]

(* Mutant of Submit: the button stays enabled while a save is under way.     *)
Submit_Enabled_Mutant ==
  /\ ui.open /\ ui.input # 0
  /\ ui' = [ui EXCEPT !.error = FALSE, !.banner = FALSE, !.busy = TRUE,
                      !.gps = IF HasGps THEN "capturing" ELSE @]
  /\ IF HasGps
     THEN captures' = captures \cup {[mount |-> mount, draft |-> ui.input]} /\ UNCHANGED writes
     ELSE writes' = Append(writes, Creation(mount, ui.input, FALSE)) /\ UNCHANGED captures
  /\ UNCHANGED <<screen, store, drawer, budget>>

Submit ==
  /\ ui.open /\ ui.input # 0 /\ ~ui.busy
  /\ ui' = [ui EXCEPT !.error = FALSE, !.banner = FALSE, !.busy = TRUE,
                      !.gps = IF HasGps THEN "capturing" ELSE @]
  /\ IF HasGps
     THEN captures' = captures \cup {[mount |-> mount, draft |-> ui.input]} /\ UNCHANGED writes
     ELSE writes' = Append(writes, Creation(mount, ui.input, FALSE)) /\ UNCHANGED captures
  /\ UNCHANGED <<screen, store, drawer, budget>>

(* captureGpsCoordinates resolves, to a position or to null, and the record  *)
(* is written.                                                             *)
Resolved(c, gps) ==
  /\ captures' = captures \ {c}
  /\ writes' = Append(writes, Creation(c.mount, c.draft, gps))
  /\ ui' = IF c.mount = mount
           THEN [ui EXCEPT !.gps = IF gps THEN "success" ELSE "degraded"] ELSE ui
  /\ UNCHANGED <<screen, store, drawer, budget>>

(* The geolocation calls back: a valid position, or one that fails the       *)
(* schema, a denial or its own timeout.  It need not ever.                  *)
CallsBack(c) == \E gps \in BOOLEAN : Resolved(c, gps)

(* Mutant of TimerFires: an effect of the form clears the timer.             *)
TimerFires_Cleared_Mutant(c) == c.mount = mount /\ ui.open /\ Resolved(c, FALSE)

TimerFires(c) == Resolved(c, FALSE)

-----------------------------------------------------------------------------
(* The cards: edit, advance, delete.                                        *)

(* A click on the card of a page, within the bounds.                        *)
Click(card) ==
  /\ budget.card = card /\ page = (IF card = "project" THEN "projects" ELSE "inspections")
  /\ ~shown.deleted
  /\ Len(writes) < budget.writes /\ record.version + Len(writes) < budget.version

(* Mutant of OpenEdit: the fields keep what they had.                        *)
OpenEdit_Keeps_Mutant ==
  /\ Click("project")
  /\ Local([ui EXCEPT !.edit.open = TRUE, !.edit.seen = shown, !.edit.touched = {}])
  /\ UNCHANGED budget

(* The edit form starts from the card; it is closed by hiding it.            *)
OpenEdit ==
  /\ Click("project")
  /\ Local([ui EXCEPT !.edit = [open |-> TRUE, seen |-> shown,
                                fields |-> shown.fields, touched |-> {}]])
  /\ UNCHANGED budget

CancelEdit == ui.edit.open /\ Local([ui EXCEPT !.edit = Hidden(@)]) /\ UNCHANGED budget

TypeEdit(f) ==
  /\ ui.edit.open
  /\ Local([ui EXCEPT !.edit = [ui.edit EXCEPT !.fields[f] = "mine",
                                        !.touched = @ \cup {f}]])
  /\ UNCHANGED budget

Write(w) ==
  /\ writes' = Append(writes, w)
  /\ UNCHANGED <<screen, captures, store, budget>>

(* handleUpdate: both fields are sent, whatever was typed.                   *)
SubmitEdit ==
  /\ ui.edit.open /\ ~ui.busy /\ Len(writes) < budget.writes
  /\ ui' = [ui EXCEPT !.error = FALSE, !.busy = TRUE]
  /\ Write([kind |-> "edit", mount |-> mount, edit |-> ui.edit])
  /\ UNCHANGED drawer

(* Mutant of NextStatus: no early return for a completed inspection.         *)
NextStatus_Restart_Mutant(status) == IF status = "IN_PROGRESS" THEN "COMPLETED" ELSE "IN_PROGRESS"

(* "NONE" is the early return.                                              *)
NextStatus(status) ==
  CASE status = "IN_PROGRESS" -> "COMPLETED"
    [] status = "COMPLETED" -> "NONE"
    [] OTHER -> "IN_PROGRESS"

(* handleAdvanceStatus, from the status on the card.                         *)
Advance ==
  LET next == NextStatus(shown.status)
  IN /\ Click("inspection") /\ next # "NONE"
     /\ Write([kind |-> "advance", status |-> next])
     /\ UNCHANGED <<ui, drawer>>

(* handleDelete.                                                            *)
Discard(card) ==
  /\ Click(card)
  /\ Write([kind |-> "delete"])
  /\ UNCHANGED <<ui, drawer>>

-----------------------------------------------------------------------------
(* The drawer: handleResolve.  resolvingId remembers one conflict only.      *)

ClickResolve(c, resolution) ==
  /\ c \in drawer.pending /\ drawer.resolving # c
  /\ Len(writes) < budget.writes
  /\ drawer' = [drawer EXCEPT !.resolving = c, !.error = FALSE]
  /\ Write([kind |-> "resolve", conflict |-> c, resolution |-> resolution])
  /\ UNCHANGED ui

-----------------------------------------------------------------------------
(* The transactions end: the first of the queue takes effect, or throws.     *)

(* Mutant of Writable: a record that waits for the user can be changed.      *)
Writable_Unlocked_Mutant == ~record.deleted

(* assertNotConflictLocked, and the record is there.                         *)
Writable == ~Locked /\ ~record.deleted

(* Mutant of Answerable: no check for ConflictAlreadyResolvedError.          *)
Answerable_Again_Mutant(c) == conflicts[c] # "NONE"

Answerable(c) == conflicts[c] = "PENDING"

Allowed(w) ==
  CASE w.kind = "create" -> TRUE
    [] w.kind = "resolve" -> Answerable(w.conflict)
    [] OTHER -> Writable

(* Mutant of Throws: the button is enabled again on success only.            *)
Throws_NoFinally_Mutant(w) ==
  /\ ui' = IF w.kind \in {"create", "edit"} /\ w.mount = mount
           THEN [ui EXCEPT !.error = TRUE] ELSE ui
  /\ drawer' = IF w.kind = "resolve"
               THEN [drawer EXCEPT !.resolving = "none", !.error = TRUE] ELSE drawer
  /\ UNCHANGED store

(* The handler catches; a card that fails shows an alert.                    *)
Throws(w) ==
  /\ ui' = IF w.kind \in {"create", "edit"} /\ w.mount = mount
           THEN [ui EXCEPT !.error = TRUE, !.busy = FALSE] ELSE ui
  /\ drawer' = IF w.kind = "resolve"
               THEN [drawer EXCEPT !.resolving = "none", !.error = TRUE] ELSE drawer
  /\ UNCHANGED store

(* Mutant of Created: the banner is set on whatever page is on the screen.   *)
Created_AnyPage_Mutant(w) ==
  /\ stored' = Append(stored, [mount |-> w.mount, draft |-> w.draft, gps |-> w.gps])
  /\ ui' = [ui EXCEPT !.open = FALSE, !.input = 0, !.busy = FALSE, !.banner = HasGps /\ ~w.gps]
  /\ UNCHANGED <<record, conflicts, drawer>>

(* The record is stored; the form is emptied and closed, whatever has been   *)
(* typed into it meanwhile.                                                 *)
Created(w) ==
  /\ stored' = Append(stored, [mount |-> w.mount, draft |-> w.draft, gps |-> w.gps])
  /\ ui' = IF w.mount = mount
           THEN [ui EXCEPT !.open = FALSE, !.input = 0, !.busy = FALSE,
                           !.banner = HasGps /\ ~w.gps]
           ELSE ui
  /\ UNCHANGED <<record, conflicts, drawer>>

Put(r) ==
  /\ record' = [r EXCEPT !.version = @ + 1, !.by = "me", !.queued = TRUE]
  /\ UNCHANGED <<stored, conflicts, drawer>>

Edited(w) ==
  /\ Put([record EXCEPT !.fields = w.edit.fields])
  /\ ui' = IF w.mount = mount THEN [ui EXCEPT !.busy = FALSE, !.edit = Hidden(@)] ELSE ui

Advanced(w) == Put([record EXCEPT !.status = w.status]) /\ UNCHANGED ui

Deleted == Put([record EXCEPT !.deleted = TRUE]) /\ UNCHANGED ui

(* KEEP_SERVER, which a record that is deleted by now forces, puts the state  *)
(* of the server that came with the conflict over the record.               *)
Answered(w) ==
  LET answer == IF record.deleted THEN "KEEP_SERVER" ELSE w.resolution
  IN /\ conflicts' = [conflicts EXCEPT ![w.conflict] = answer]
     /\ IF answer = "KEEP_SERVER" /\ ~record.deleted
        THEN record' \in Snapshots ELSE UNCHANGED record
     /\ drawer' = [drawer EXCEPT !.resolving = "none"]
     /\ UNCHANGED <<stored, ui>>

TakesEffect(w) ==
  CASE w.kind = "create" -> Created(w)
    [] w.kind = "edit" -> Edited(w)
    [] w.kind = "advance" -> Advanced(w)
    [] w.kind = "delete" -> Deleted
    [] w.kind = "resolve" -> Answered(w)

Commit ==
  /\ writes # <<>>
  /\ writes' = Tail(writes)
  /\ \/ Allowed(Head(writes)) /\ TakesEffect(Head(writes)) /\ UNCHANGED budget
     \/ ~Allowed(Head(writes)) /\ Throws(Head(writes)) /\ UNCHANGED budget
     \/ budget.faults > 0 /\ budget' = [budget EXCEPT !.faults = @ - 1] /\ Throws(Head(writes))
  /\ UNCHANGED <<screen, captures>>

-----------------------------------------------------------------------------
(* The synchronisation, at any time.                                        *)

Pull ==
  /\ record.version < budget.version /\ ~record.deleted
  /\ \E r \in Theirs \cup {[record EXCEPT !.deleted = TRUE, !.by = "peer"]} :
       record' = [r EXCEPT !.version = @ + 1]
  /\ UNCHANGED <<screen, ui, captures, writes, stored, conflicts, drawer, budget>>

(* A push finds that an edit of the device conflicts.                        *)
Found(c) ==
  /\ c \in budget.conflicts /\ conflicts[c] = "NONE" /\ record.queued
  /\ conflicts' = [conflicts EXCEPT ![c] = "PENDING"]
  /\ UNCHANGED <<screen, ui, captures, writes, stored, record, drawer, budget>>

Next ==
  \/ Navigate \/ Reload \/ Render
  \/ ToggleForm \/ Type \/ RefuseNumber \/ Submit
  \/ \E c \in captures : CallsBack(c) \/ TimerFires(c)
  \/ OpenEdit \/ CancelEdit \/ SubmitEdit \/ Advance
  \/ \E f \in Fields : TypeEdit(f)
  \/ \E card \in Cards : Discard(card)
  \/ Pull
  \/ \E c \in Conflicts : Found(c) \/ \E r \in {"KEEP_SERVER", "KEEP_MINE"} : ClickResolve(c, r)
  \/ Commit

Spec == Init /\ [][Next]_vars

(* Timers fire and transactions end.  The geolocation owes nothing.          *)
FairSpec ==
  /\ Spec
  /\ \A m \in Mounts : WF_vars(\E c \in captures : c.mount = m /\ TimerFires(c))
  /\ WF_vars(Commit)

-----------------------------------------------------------------------------
(* Properties.                                                             *)

Records == [version : Nat \ {0}, fields : [Fields -> Texts],
            status : {"DRAFT", "IN_PROGRESS", "COMPLETED"}, deleted : BOOLEAN,
            by : {"me", "peer"}, queued : BOOLEAN]

TypeOK ==
  /\ page \in {Path[n] : n \in DOMAIN Path} /\ mount \in Mounts
  /\ ui.input \in Nat
  /\ ui.gps \in {"idle", "capturing", "success", "degraded"}
  /\ captures \subseteq [mount : 1 .. mount, draft : Nat \ {0}]
  /\ record \in Records /\ shown \in Records
  /\ \A c \in Conflicts : conflicts[c] \in {"NONE", "PENDING", "KEEP_SERVER", "KEEP_MINE"}
  /\ drawer.pending \subseteq Conflicts /\ drawer.resolving \in Conflicts \cup {"none"}
  /\ \E b \in Budgets : budget.drafts + Len(stored) <= b.drafts /\ budget.faults <= b.faults

Saves(m) ==
  {c \in captures : c.mount = m} \cup
  {writes[n] : n \in {k \in DOMAIN writes :
                        writes[k].kind \in {"create", "edit"} /\ writes[k].mount = m}}

(* The forms of a page share one isSubmitting: it is set exactly while one    *)
(* save of the page is under way, whichever form began it, was cancelled,    *)
(* opened again or failed, and while it waits for a position the page says   *)
(* so.                                                                     *)
OneSavePerPage ==
  /\ ui.busy <=> Saves(mount) # {}
  /\ \A v, w \in Saves(mount) : v = w
  /\ ui.gps = "capturing" <=> \E c \in captures : c.mount = mount

(* What the user typed becomes at most one record, however often it was       *)
(* submitted, failed, or the page was left while it was being saved.         *)
DraftsSavedOnce ==
  \A i, j \in DOMAIN stored : stored[i].draft = stored[j].draft => i = j

(* The banner "saved without GPS lock" is on the screen exactly when the      *)
(* last record saved from this page has no position and nothing has been     *)
(* submitted since: saves of a page that was left do not speak here.         *)
BannerIsTrue ==
  LET mine == {n \in DOMAIN stored : stored[n].mount = mount}
  IN ui.banner <=> /\ HasGps /\ ~ui.busy /\ ~ui.error
                   /\ \E n \in mine : ~stored[n].gps /\ \A k \in mine : k <= n

(* Nothing the page showed is undone by a click.  A save of the edit form     *)
(* takes back a field that was not typed into only if the record is no       *)
(* longer the one the form was opened from.  The status of an inspection     *)
(* goes back ("DRAFT -> IN_PROGRESS -> COMPLETED",                           *)
(* InspectionExplorer.tsx:98) only over a change of another device, however  *)
(* late the card is rendered and however often it is clicked.                *)
NothingShownIsUndone ==
  [][\A n \in 1 .. Len(writes) :
       n = 1 /\ writes' = Tail(writes) =>
         LET w == writes[1] IN
         /\ w.kind = "edit" =>
              \A f \in Fields \ w.edit.touched :
                record'.fields[f] # record.fields[f] => record # w.edit.seen
         /\ w.kind = "advance" =>
              Rank(record'.status) >= Rank(record.status) \/ record.by = "peer"]_vars

(* A record with an unresolved conflict is not changed by the user, also     *)
(* when the form was submitted before the conflict was found.                *)
LockedRecordsStay ==
  [][Locked /\ Locked' /\ record' # record => record'.by = "peer"]_vars

(* The first answer to a conflict stands.  resolvingId remembers one          *)
(* conflict, so a second one answered meanwhile makes the buttons of the     *)
(* first work again.                                                        *)
AnswersStand ==
  [][\A c \in Conflicts :
       conflicts[c] \in {"KEEP_SERVER", "KEEP_MINE"} => conflicts'[c] = conflicts[c]]_vars

(* "NEVER throws or blocks a save" (gps.ts:17): the button of a form works    *)
(* again in the end, though the geolocation never calls back and the save    *)
(* may fail, unless the page is left, where a new one starts afresh.         *)
SavesEnd == ui.busy ~> ~ui.busy
=============================================================================
