--------------------------- MODULE WebApp_proofs ---------------------------
(***************************************************************************)
(* The theorems of WebApp.  The inductive invariant says where a draft is    *)
(* between the form and the store, that a page has one save under way at     *)
(* most and knows it, what the edit form was opened from, and in which       *)
(* order the steps of an inspection wait for their transactions.            *)
(***************************************************************************)
EXTENDS WebApp, FiniteSetTheorems, TLAPS

-----------------------------------------------------------------------------
(* The inductive invariant.                                                *)

Pages == {Path[n] : n \in DOMAIN Path}
Editing == [open : BOOLEAN, seen : Records, fields : [Fields -> Texts],
            touched : SUBSET Fields]
Forms == [open : BOOLEAN, input : Nat, error : BOOLEAN, banner : BOOLEAN, busy : BOOLEAN,
          gps : {"idle", "capturing", "success", "degraded"}, edit : Editing]
Captured == [mount : Nat \ {0}, draft : Nat \ {0}]
Creations == [kind : {"create"}, mount : Nat \ {0}, draft : Nat \ {0}, gps : BOOLEAN]
Changes == [kind : {"edit"}, mount : Nat \ {0}, edit : Editing]
Advances == [kind : {"advance"}, status : {"IN_PROGRESS", "COMPLETED"}]
Removals == [kind : {"delete"}]
Resolutions == [kind : {"resolve"}, conflict : Conflicts,
                resolution : {"KEEP_SERVER", "KEEP_MINE"}]
Transactions == Creations \cup Changes \cup Advances \cup Removals \cup Resolutions
StoredRecords == [mount : Nat \ {0}, draft : Nat \ {0}, gps : BOOLEAN]
Bounds == [page : Pages, card : Cards, conflicts : SUBSET Conflicts, drafts : Nat,
           mounts : Nat \ {0}, version : Nat \ {0}, writes : Nat, faults : Nat]

Typed ==
  /\ page \in Pages /\ mount \in Nat \ {0}
  /\ ui \in Forms
  /\ captures \subseteq Captured
  /\ writes \in Seq(Transactions)
  /\ stored \in Seq(StoredRecords)
  /\ record \in Records /\ shown \in Records
  /\ conflicts \in [Conflicts -> {"NONE", "PENDING", "KEEP_SERVER", "KEEP_MINE"}]
  /\ drawer \in [resolving : Conflicts \cup {"none"}, error : BOOLEAN,
                 pending : SUBSET Conflicts]
  /\ budget \in Bounds

IsSave(w) == w.kind \in {"create", "edit"}
SaveAt(n, m) == IsSave(writes[n]) /\ writes[n].mount = m
Waiting(m) == \E c \in captures : c.mount = m
Writing(m) == \E n \in DOMAIN writes : SaveAt(n, m)

(* A page that was opened has one save under way at most, and the one on the *)
(* screen says so.                                                          *)
SavesSound ==
  /\ \A c \in captures : c.mount <= mount
  /\ \A n \in DOMAIN writes : IsSave(writes[n]) => writes[n].mount <= mount
  /\ \A c, d \in captures : c.mount = d.mount => c = d
  /\ \A i, j \in DOMAIN writes :
       IsSave(writes[i]) /\ IsSave(writes[j]) /\ writes[i].mount = writes[j].mount => i = j
  /\ \A c \in captures, n \in DOMAIN writes : ~SaveAt(n, c.mount)
  /\ ui.busy <=> Waiting(mount) \/ Writing(mount)
  /\ ui.gps = "capturing" <=> Waiting(mount)

(* A draft is one number of those typed so far, and is in one place of its   *)
(* way to the store; the form may still show it while its page saves it.     *)
Creates(n) == writes[n].kind = "create"

DraftsSound ==
  /\ \A c, d \in captures : c.draft = d.draft => c = d
  /\ \A i, j \in DOMAIN writes :
       Creates(i) /\ Creates(j) /\ writes[i].draft = writes[j].draft => i = j
  /\ \A c \in captures, n \in DOMAIN writes : Creates(n) => c.draft # writes[n].draft
  /\ \A i \in DOMAIN stored, c \in captures : stored[i].draft # c.draft
  /\ \A i \in DOMAIN stored, n \in DOMAIN writes : Creates(n) => stored[i].draft # writes[n].draft
  /\ \A i \in DOMAIN stored : stored[i].draft # ui.input
  /\ \A c \in captures : c.draft = ui.input => c.mount = mount
  /\ \A n \in DOMAIN writes : Creates(n) /\ writes[n].draft = ui.input => writes[n].mount = mount
  /\ DraftsSavedOnce

Typewritten(d, b) == budget.drafts < d /\ d <= b.drafts

BudgetSound ==
  \E b \in Budgets :
    /\ budget.mounts = b.mounts /\ budget.drafts <= b.drafts /\ budget.faults <= b.faults
    /\ mount <= budget.mounts
    /\ ui.input # 0 => Typewritten(ui.input, b)
    /\ \A c \in captures : Typewritten(c.draft, b)
    /\ \A n \in DOMAIN writes : Creates(n) => Typewritten(writes[n].draft, b)
    /\ \A i \in DOMAIN stored : Typewritten(stored[i].draft, b)

BannerSound ==
  /\ \A i \in DOMAIN stored : stored[i].mount <= mount
  /\ ui.busy => ~ui.error
  /\ page # "projects" => \A n \in DOMAIN writes : writes[n].kind = "edit" => writes[n].mount # mount
  /\ BannerIsTrue

(* What is not typed into the edit form is what the card showed.             *)
Untouched(edit) == \A f \in Fields \ edit.touched : edit.fields[f] = edit.seen.fields[f]

FormsSound ==
  /\ ui.edit.open => Untouched(ui.edit) /\ page = "projects" /\ budget.card = "project"
  /\ \A n \in DOMAIN writes : writes[n].kind = "edit" => Untouched(writes[n].edit)

(* The way of an inspection: it never goes back to DRAFT, steps wait in the  *)
(* order of the lifecycle, and one this device has completed is not started. *)
Starts(n) == writes[n].kind = "advance" /\ writes[n].status = "IN_PROGRESS"
Completes(n) == writes[n].kind = "advance" /\ writes[n].status = "COMPLETED"

LifecycleSound ==
  /\ \A n \in DOMAIN writes : writes[n].kind = "advance" => budget.card = "inspection"
  /\ \A n \in DOMAIN writes : writes[n].kind = "edit" => budget.card = "project"
  /\ shown.status # "DRAFT" => record.status # "DRAFT"
  /\ \A n \in DOMAIN writes : Completes(n) => shown.status # "DRAFT"
  /\ \A i, j \in DOMAIN writes : Completes(i) /\ Starts(j) => j < i
  /\ record.by = "me" /\ record.status = "COMPLETED" /\ ~record.deleted =>
       shown.status # "DRAFT" /\ \A n \in DOMAIN writes : ~Starts(n)
  /\ budget.card = "project" => record.status = "DRAFT"

Usable ==
  /\ Typed /\ SavesSound /\ DraftsSound /\ BudgetSound /\ BannerSound /\ FormsSound
  /\ LifecycleSound

-----------------------------------------------------------------------------
(* Lemmas about the data.                                                   *)

LEMMA Appended ==
  ASSUME NEW S, NEW s \in Seq(S), NEW w \in S
  PROVE  /\ Append(s, w) \in Seq(S)
         /\ DOMAIN Append(s, w) = 1 .. Len(s) + 1
         /\ DOMAIN s = 1 .. Len(s) /\ Len(s) \in Nat
         /\ Len(Append(s, w)) = Len(s) + 1
         /\ \A n \in DOMAIN s : n \in DOMAIN Append(s, w) /\ Append(s, w)[n] = s[n]
         /\ Append(s, w)[Len(s) + 1] = w
         /\ \A n \in DOMAIN Append(s, w) : n \in DOMAIN s \/ n = Len(s) + 1
  OBVIOUS

LEMMA TailOf ==
  ASSUME NEW S, NEW s \in Seq(S), s # <<>>
  PROVE  /\ Tail(s) \in Seq(S) /\ Head(s) \in S /\ Head(s) = s[1]
         /\ 1 \in DOMAIN s
         /\ Len(s) \in Nat /\ Len(Tail(s)) = Len(s) - 1
         /\ DOMAIN s = 1 .. Len(s) /\ DOMAIN Tail(s) = 1 .. Len(s) - 1
         /\ \A n \in DOMAIN Tail(s) : n + 1 \in DOMAIN s /\ n + 1 # 1 /\ Tail(s)[n] = s[n + 1]
  OBVIOUS

LEMMA Kinds ==
  ASSUME NEW w \in Transactions
  PROVE  /\ w.kind \in {"create", "edit", "advance", "delete", "resolve"}
         /\ w.kind = "create" => w \in Creations
         /\ w.kind = "edit" => w \in Changes
         /\ w.kind = "advance" => w \in Advances
         /\ w.kind = "resolve" => w \in Resolutions
  BY DEF Transactions, Creations, Changes, Advances, Removals, Resolutions

LEMMA NewTransactions ==
  /\ \A m \in Nat \ {0}, d \in Nat \ {0}, g \in BOOLEAN :
       Creation(m, d, g) \in Transactions
  /\ \A m \in Nat \ {0}, e \in Editing :
       [kind |-> "edit", mount |-> m, edit |-> e] \in Transactions
  /\ \A s \in {"IN_PROGRESS", "COMPLETED"} :
       [kind |-> "advance", status |-> s] \in Transactions
  /\ [kind |-> "delete"] \in Transactions
  /\ \A c \in Conflicts, r \in {"KEEP_SERVER", "KEEP_MINE"} :
       [kind |-> "resolve", conflict |-> c, resolution |-> r] \in Transactions
  BY DEF Transactions, Creations, Changes, Advances, Removals, Resolutions, Creation

LEMMA FirstRecordTyped == FirstRecord \in Records
  BY DEF FirstRecord, Records, Texts

LEMMA FreshTyped == Fresh \in Forms /\ NoEdit \in Editing /\ FirstRecord.fields \in [Fields -> Texts]
<1>1. FirstRecord.fields \in [Fields -> Texts]
  BY DEF FirstRecord, Texts
<1>2. NoEdit \in Editing
  BY <1>1, FirstRecordTyped DEF NoEdit, Editing
<1>3. Fresh \in Forms
  BY <1>2 DEF Fresh, Forms
<1> QED
  BY <1>1, <1>2, <1>3

LEMMA HiddenTyped ==
  ASSUME NEW edit \in Editing
  PROVE  Hidden(edit) \in Editing /\ ~Hidden(edit).open
  BY FirstRecordTyped DEF Hidden, Editing

(* A click changes the status of a record only forward.                      *)
LEMMA NextStatuses ==
  ASSUME NEW s \in {"DRAFT", "IN_PROGRESS", "COMPLETED"}, NextStatus(s) # "NONE"
  PROVE  /\ NextStatus(s) \in {"IN_PROGRESS", "COMPLETED"}
         /\ NextStatus(s) = "IN_PROGRESS" <=> s = "DRAFT"
         /\ NextStatus(s) = "COMPLETED" <=> s = "IN_PROGRESS"
  BY DEF NextStatus

LEMMA TheirsTyped ==
  ASSUME record \in Records, NEW r \in Theirs
  PROVE  /\ r \in Records /\ r.by = "peer"
         /\ r.version = record.version /\ r.deleted = record.deleted
         /\ budget.card = "project" => r.status = record.status
         /\ record.status # "DRAFT" => r.status # "DRAFT"
<1> DEFINE p == [record EXCEPT !.by = "peer"]
<1>1. p \in Records /\ p.by = "peer" /\ p.version = record.version /\ p.deleted = record.deleted
      /\ p.status = record.status
  BY DEF Records
<1>2. CASE budget.card = "project"
  <2>1. PICK f \in Fields : r = [p EXCEPT !.fields[f] = "theirs"]
    BY <1>2 DEF Theirs
  <2> HIDE DEF p
  <2>2. r = [p EXCEPT !.fields = [p.fields EXCEPT ![f] = "theirs"]]
    BY <2>1, <1>1 DEF Records
  <2>3. [p.fields EXCEPT ![f] = "theirs"] \in [Fields -> Texts]
    BY <1>1 DEF Records, Texts
  <2> QED
    BY <1>1, <1>2, <2>2, <2>3 DEF Records
<1>3. CASE budget.card # "project"
  <2>1. PICK s \in {p.status, "IN_PROGRESS", "COMPLETED"} : r = [p EXCEPT !.status = s]
    BY <1>3 DEF Theirs
  <2> HIDE DEF p
  <2>2. s \in {"DRAFT", "IN_PROGRESS", "COMPLETED"}
    BY <1>1 DEF Records
  <2> QED
    BY <1>1, <1>3, <2>1, <2>2 DEF Records
<1> QED
  BY <1>2, <1>3

LEMMA SnapshotsTyped ==
  ASSUME record \in Records, NEW r \in Snapshots
  PROVE  /\ r \in Records /\ r.by = "peer"
         /\ r.version = record.version /\ r.deleted = record.deleted
         /\ budget.card = "project" => r.status = record.status
         /\ record.status # "DRAFT" => r.status # "DRAFT"
<1> DEFINE p == [record EXCEPT !.by = "peer"]
<1>1. p \in Records /\ p.by = "peer" /\ p.version = record.version /\ p.deleted = record.deleted
      /\ p.status = record.status
  BY DEF Records
<1>2. CASE budget.card = "project"
  <2>1. PICK g \in [Fields -> Texts] : r = [p EXCEPT !.fields = g]
    BY <1>2 DEF Snapshots
  <2> HIDE DEF p
  <2> QED
    BY <1>1, <1>2, <2>1 DEF Records
<1>3. CASE budget.card # "project"
  <2>1. PICK s \in {"IN_PROGRESS", "COMPLETED"} : r = [p EXCEPT !.status = s]
    BY <1>3 DEF Snapshots
  <2> HIDE DEF p
  <2> QED
    BY <1>1, <1>3, <2>1 DEF Records
<1> QED
  BY <1>2, <1>3

-----------------------------------------------------------------------------
(* Types.                                                                  *)

LEMMA TypedInit == Init => Typed
<1> SUFFICES ASSUME Init PROVE Typed
  OBVIOUS
<1>1. budget \in Bounds /\ page \in Pages /\ mount \in Nat \ {0}
  BY WebAssumption DEF Init, Bounds, Pages
<1>2. ui \in Forms /\ captures \subseteq Captured /\ writes \in Seq(Transactions)
      /\ stored \in Seq(StoredRecords) /\ record \in Records /\ shown \in Records
  BY FreshTyped, FirstRecordTyped DEF Init
<1>3. conflicts \in [Conflicts -> {"NONE", "PENDING", "KEEP_SERVER", "KEEP_MINE"}]
  BY DEF Init
<1>4. drawer \in [resolving : Conflicts \cup {"none"}, error : BOOLEAN,
                  pending : SUBSET Conflicts]
  BY DEF Init, Closed
<1> QED
  BY <1>1, <1>2, <1>3, <1>4 DEF Typed

Drawers == [resolving : Conflicts \cup {"none"}, error : BOOLEAN, pending : SUBSET Conflicts]

LEMMA TypedLocal ==
  ASSUME Typed, NEW new \in Forms, Local(new), budget' = budget
  PROVE  Typed'
  BY DEF Typed, Local, screen, store

LEMMA TypedWrite ==
  ASSUME Typed, NEW w \in Transactions, Write(w), ui' \in Forms, drawer' \in Drawers
  PROVE  Typed'
<1>1. writes' \in Seq(Transactions)
  BY Appended DEF Typed, Write
<1> QED
  BY <1>1 DEF Typed, Write, screen, store, Drawers

LEMMA TypedScreen ==
  ASSUME Typed, Navigate \/ Reload \/ Render \/ ToggleForm \/ Type \/ RefuseNumber
  PROVE  Typed'
<1> USE DEF Typed
<1>1. CASE Navigate
  <2>1. page' \in Pages /\ mount' \in Nat \ {0} /\ ui' \in Forms /\ shown' \in Records
    BY <1>1, FreshTyped DEF Navigate, Open, Pages, Path
  <2> QED
    BY <1>1, <2>1 DEF Navigate, store
<1>2. CASE Reload
  <2>1. page' \in Pages
    BY <1>2 DEF Reload, Open, Pages, Path
  <2>2. mount' \in Nat \ {0} /\ ui' \in Forms /\ shown' \in Records
    BY <1>2, FreshTyped DEF Reload, Open
  <2>3. captures' \subseteq Captured /\ writes' \in Seq(Transactions)
        /\ drawer' \in [resolving : Conflicts \cup {"none"}, error : BOOLEAN,
                        pending : SUBSET Conflicts]
    BY <1>2 DEF Reload, Closed
  <2> QED
    BY <1>2, <2>1, <2>2, <2>3 DEF Reload, store
<1>3. CASE Render
  <2>1. shown' \in Records
    BY <1>3 DEF Render
  <2>2. drawer' \in [resolving : Conflicts \cup {"none"}, error : BOOLEAN,
                     pending : SUBSET Conflicts]
    BY <1>3 DEF Render
  <2> QED
    BY <1>3, <2>1, <2>2 DEF Render, store
<1>4. CASE ToggleForm
  <2>1. [ui EXCEPT !.open = ~@] \in Forms
    BY DEF Forms
  <2> QED
    BY <1>4, <2>1, TypedLocal DEF ToggleForm
<1>5. CASE Type
  <2>1. [ui EXCEPT !.input = budget.drafts] \in Forms
    BY DEF Forms, Bounds
  <2>2. budget' \in Bounds
    <3>1. budget \in Bounds /\ budget.drafts \in Nat \ {0} /\ budget.drafts - 1 \in Nat
      BY <1>5 DEF Type, Bounds
    <3>2. budget' = [budget EXCEPT !.drafts = budget.drafts - 1]
      BY <1>5 DEF Type
    <3> QED
      BY <3>1, <3>2 DEF Bounds
  <2> QED
    BY <1>5, <2>1, <2>2 DEF Type, Local, screen, store
<1>6. CASE RefuseNumber
  <2>1. [ui EXCEPT !.error = TRUE, !.banner = FALSE] \in Forms
    BY DEF Forms
  <2> QED
    BY <1>6, <2>1, TypedLocal DEF RefuseNumber
<1> QED
  BY <1>1, <1>2, <1>3, <1>4, <1>5, <1>6

LEMMA TypedSubmit ==
  ASSUME Typed, Submit
  PROVE  Typed'
<1> USE DEF Typed
<1>1. ui' \in Forms
  <2>1. CASE HasGps
    BY <2>1 DEF Submit, Forms
  <2>2. CASE ~HasGps
    BY <2>2 DEF Submit, Forms
  <2> QED
    BY <2>1, <2>2
<1>2. ui.input \in Nat \ {0}
  BY DEF Submit, Forms
<1>3. captures' \subseteq Captured /\ writes' \in Seq(Transactions)
  <2>1. CASE HasGps
    BY <1>2, <2>1 DEF Submit, Captured
  <2>2. CASE ~HasGps
    <3>1. Creation(mount, ui.input, FALSE) \in Transactions
      BY <1>2, NewTransactions
    <3>2. writes' = Append(writes, Creation(mount, ui.input, FALSE)) /\ captures' = captures
      BY <2>2 DEF Submit
    <3>3. ASSUME NEW w \in Transactions PROVE Append(writes, w) \in Seq(Transactions)
      BY Appended
    <3> QED
      BY <3>1, <3>2, <3>3, Zenon
  <2> QED
    BY <2>1, <2>2
<1> QED
  BY <1>1, <1>3 DEF Submit, screen, store

LEMMA TypedResolved ==
  ASSUME Typed, NEW c \in captures, NEW gps \in BOOLEAN, Resolved(c, gps)
  PROVE  Typed'
<1> USE DEF Typed
<1>1. ui' \in Forms
  <2>1. CASE c.mount = mount
    BY <2>1 DEF Resolved, Forms
  <2>2. CASE c.mount # mount
    BY <2>2 DEF Resolved
  <2> QED
    BY <2>1, <2>2
<1>2. Creation(c.mount, c.draft, gps) \in Transactions
  BY NewTransactions DEF Captured
<1>3. writes' \in Seq(Transactions)
  BY <1>2, Appended DEF Resolved
<1> QED
  BY <1>1, <1>3 DEF Resolved, screen, store

LEMMA TypedCards ==
  ASSUME Typed,
         \/ OpenEdit \/ CancelEdit \/ SubmitEdit \/ Advance
         \/ \E f \in Fields : TypeEdit(f)
         \/ \E card \in Cards : Discard(card)
  PROVE  Typed'
<1>0. ui \in Forms /\ ui.edit \in Editing /\ shown \in Records
  BY DEF Typed, Forms
<1>1. CASE OpenEdit
  <2> DEFINE e == [open |-> TRUE, seen |-> shown, fields |-> shown.fields, touched |-> {}]
  <2>1. e \in Editing
    BY <1>0 DEF Editing, Records
  <2> HIDE DEF e
  <2>2. [ui EXCEPT !.edit = e] \in Forms
    BY <2>1, <1>0 DEF Forms
  <2>3. Local([ui EXCEPT !.edit = e]) /\ budget' = budget
    BY <1>1 DEF OpenEdit, e
  <2> QED
    BY <2>2, <2>3, TypedLocal
<1>2. CASE CancelEdit
  <2>1. [ui EXCEPT !.edit = Hidden(@)] \in Forms
    BY <1>0, HiddenTyped DEF Forms
  <2> QED
    BY <1>2, <2>1, TypedLocal DEF CancelEdit
<1>3. CASE SubmitEdit
  <2>1. ui' \in Forms
    BY <1>0, <1>3 DEF SubmitEdit, Forms
  <2>2. [kind |-> "edit", mount |-> mount, edit |-> ui.edit] \in Transactions
    BY <1>0, NewTransactions DEF Typed
  <2>3. drawer' \in Drawers
    BY <1>3 DEF SubmitEdit, Typed, Drawers
  <2> QED
    BY <1>3, <2>1, <2>2, <2>3, TypedWrite DEF SubmitEdit
<1>4. CASE Advance
  <2>1. NextStatus(shown.status) \in {"IN_PROGRESS", "COMPLETED"}
    BY <1>0, <1>4, NextStatuses DEF Advance, Records
  <2>2. drawer' \in Drawers /\ ui' = ui
    BY <1>4 DEF Advance, Typed, Drawers
  <2> QED
    BY <1>0, <1>4, <2>1, <2>2, NewTransactions, TypedWrite DEF Advance
<1>5. ASSUME NEW f \in Fields, TypeEdit(f) PROVE Typed'
  <2> DEFINE e == [ui.edit EXCEPT !.fields[f] = "mine", !.touched = ui.edit.touched \cup {f}]
  <2>1. e \in Editing
    BY <1>0 DEF Editing, Texts
  <2>2. Local([ui EXCEPT !.edit = e]) /\ budget' = budget
    BY <1>5 DEF TypeEdit
  <2> HIDE DEF e
  <2>3. [ui EXCEPT !.edit = e] \in Forms
    BY <2>1, <1>0 DEF Forms
  <2> QED
    BY <2>2, <2>3, TypedLocal
<1>6. ASSUME NEW card \in Cards, Discard(card) PROVE Typed'
  <2>1. drawer' \in Drawers /\ ui' = ui
    BY <1>6 DEF Discard, Typed, Drawers
  <2> QED
    BY <1>0, <1>6, <2>1, NewTransactions, TypedWrite DEF Discard
<1> QED
  BY <1>1, <1>2, <1>3, <1>4, <1>5, <1>6

LEMMA TypedPut ==
  ASSUME Typed, NEW r \in Records, Put(r), ui' \in Forms,
         writes' \in Seq(Transactions), budget' \in Bounds, UNCHANGED <<screen, captures>>
  PROVE  Typed'
<1>1. record' = [r EXCEPT !.version = r.version + 1, !.by = "me", !.queued = TRUE]
  BY DEF Put
<1>2. r.version + 1 \in Nat \ {0}
  BY DEF Records
<1>3. record' \in Records
  BY <1>1, <1>2 DEF Records
<1> QED
  BY <1>3 DEF Typed, Put, screen

LEMMA TypedCommit ==
  ASSUME Typed, Commit
  PROVE  Typed'
<1> DEFINE w == Head(writes)
<1>0. /\ ui \in Forms /\ ui.edit \in Editing /\ record \in Records
      /\ w \in Transactions /\ writes' \in Seq(Transactions)
      /\ UNCHANGED <<screen, captures>> /\ writes' = Tail(writes)
  BY TailOf DEF Typed, Commit, Forms
<1>1. budget' \in Bounds
  <2>1. budget \in Bounds
    BY DEF Typed
  <2>2. CASE budget' = budget
    BY <2>1, <2>2
  <2>3. CASE budget.faults > 0 /\ budget' = [budget EXCEPT !.faults = budget.faults - 1]
    <3>1. budget.faults - 1 \in Nat
      BY <2>1, <2>3 DEF Bounds
    <3> QED
      BY <2>1, <2>3, <3>1 DEF Bounds
  <2> QED
    BY <2>2, <2>3 DEF Commit
<1>2. \/ Allowed(w) /\ TakesEffect(w)
      \/ Throws(w)
  BY DEF Commit
<1> HIDE DEF w
<1>3. CASE Throws(w)
  <2>1. ui' \in Forms
    BY <1>0, <1>3 DEF Throws, Forms
  <2>2. drawer' \in [resolving : Conflicts \cup {"none"}, error : BOOLEAN,
                     pending : SUBSET Conflicts]
    BY <1>3 DEF Throws, Typed
  <2> QED
    BY <1>0, <1>1, <1>3, <2>1, <2>2 DEF Throws, Typed, screen, store
<1>4. CASE w.kind = "create" /\ Created(w)
  <2>1. w \in Creations
    BY <1>0, <1>4, Kinds
  <2>2. ui' \in Forms
    <3>1. CASE w.mount = mount
      BY <1>0, <1>4, <2>1, <3>1 DEF Created, Forms, Creations, HasGps
    <3>2. CASE w.mount # mount
      BY <1>0, <1>4, <3>2 DEF Created
    <3> QED
      BY <3>1, <3>2
  <2>3. [mount |-> w.mount, draft |-> w.draft, gps |-> w.gps] \in StoredRecords
    BY <2>1 DEF Creations, StoredRecords
  <2>4. stored' \in Seq(StoredRecords)
    BY <1>4, <2>3, Appended DEF Created, Typed
  <2> QED
    BY <1>0, <1>1, <1>4, <2>2, <2>4 DEF Created, Typed, screen
<1>5. CASE w.kind = "edit" /\ Edited(w)
  <2>1. w \in Changes /\ w.edit \in Editing /\ w.edit.fields \in [Fields -> Texts]
    BY <1>0, <1>5, Kinds DEF Changes, Editing
  <2>2. [record EXCEPT !.fields = w.edit.fields] \in Records
    BY <1>0, <2>1 DEF Records
  <2>3. ui' \in Forms
    <3>1. CASE w.mount = mount
      BY <1>0, <1>5, <3>1, HiddenTyped DEF Edited, Forms
    <3>2. CASE w.mount # mount
      BY <1>0, <1>5, <3>2 DEF Edited
    <3> QED
      BY <3>1, <3>2
  <2> QED
    BY <1>0, <1>1, <1>5, <2>2, <2>3, TypedPut DEF Edited
<1>6. CASE w.kind = "advance" /\ Advanced(w)
  <2>1. [record EXCEPT !.status = w.status] \in Records
    BY <1>0, <1>6, Kinds DEF Advances, Records
  <2> QED
    BY <1>0, <1>1, <1>6, <2>1, TypedPut DEF Advanced
<1>7. CASE w.kind = "delete" /\ Deleted
  <2>1. [record EXCEPT !.deleted = TRUE] \in Records
    BY <1>0 DEF Records
  <2> QED
    BY <1>0, <1>1, <1>7, <2>1, TypedPut DEF Deleted
<1>8. CASE w.kind = "resolve" /\ Answered(w)
  <2>1. w.conflict \in Conflicts /\ w.resolution \in {"KEEP_SERVER", "KEEP_MINE"}
    BY <1>0, <1>8, Kinds DEF Resolutions
  <2>2. conflicts' \in [Conflicts -> {"NONE", "PENDING", "KEEP_SERVER", "KEEP_MINE"}]
    BY <1>8, <2>1 DEF Answered, Typed
  <2>3. record' \in Records
    BY <1>0, <1>8, SnapshotsTyped DEF Answered
  <2>4. drawer' \in [resolving : Conflicts \cup {"none"}, error : BOOLEAN,
                     pending : SUBSET Conflicts]
    BY <1>8 DEF Answered, Typed
  <2> QED
    BY <1>0, <1>1, <1>8, <2>2, <2>3, <2>4 DEF Answered, Typed, screen
<1> QED
  BY <1>0, <1>2, <1>3, <1>4, <1>5, <1>6, <1>7, <1>8, Kinds DEF TakesEffect

LEMMA TypedNext ==
  ASSUME Typed, [Next]_vars
  PROVE  Typed'
<1>1. CASE UNCHANGED vars
  BY <1>1 DEF Typed, vars, screen, store
<1>2. CASE Pull
  <2>1. record' \in Records
    <3>1. PICK r \in Theirs \cup {[record EXCEPT !.deleted = TRUE, !.by = "peer"]} :
            record' = [r EXCEPT !.version = @ + 1]
      BY <1>2 DEF Pull
    <3>2. r \in Records
      <4>1. [record EXCEPT !.deleted = TRUE, !.by = "peer"] \in Records
        BY DEF Typed, Records
      <4> QED
        BY <3>1, <4>1, TheirsTyped DEF Typed
    <3> QED
      BY <3>1, <3>2 DEF Records
  <2> QED
    BY <1>2, <2>1 DEF Pull, Typed, screen
<1>3. ASSUME NEW c \in Conflicts, Found(c) PROVE Typed'
  <2>1. conflicts' \in [Conflicts -> {"NONE", "PENDING", "KEEP_SERVER", "KEEP_MINE"}]
    BY <1>3 DEF Found, Typed
  <2> QED
    BY <1>3, <2>1 DEF Found, Typed, screen
<1>4. ASSUME NEW c \in Conflicts, NEW r \in {"KEEP_SERVER", "KEEP_MINE"}, ClickResolve(c, r)
      PROVE Typed'
  <2>1. drawer' \in Drawers
    BY <1>4 DEF ClickResolve, Typed, Drawers
  <2>2. ui' = ui /\ ui \in Forms
    BY <1>4 DEF ClickResolve, Typed
  <2>3. [kind |-> "resolve", conflict |-> c, resolution |-> r] \in Transactions
    BY NewTransactions
  <2>4. Write([kind |-> "resolve", conflict |-> c, resolution |-> r])
    BY <1>4 DEF ClickResolve
  <2> QED
    BY <2>1, <2>2, <2>3, <2>4, TypedWrite
<1>5. ASSUME NEW c \in captures, CallsBack(c) \/ TimerFires(c) PROVE Typed'
  BY <1>5, TypedResolved DEF CallsBack, TimerFires
<1> QED
  BY <1>1, <1>2, <1>3, <1>4, <1>5, TypedScreen, TypedSubmit, TypedCards, TypedCommit DEF Next

-----------------------------------------------------------------------------
(* What the steps do to the saves and to the form.                          *)

(* The steps that begin and end no save, of the page or of another.          *)
Quiet ==
  /\ UNCHANGED <<page, mount, captures, stored>>
  /\ ui'.busy = ui.busy /\ ui'.gps = ui.gps
  /\ \/ ui'.banner = ui.banner /\ ui'.error = ui.error
     \/ ~ui.busy /\ ui'.error = TRUE /\ ui'.banner = FALSE
  /\ \/ writes' = writes
     \/ \E w \in Transactions :
          w.kind \in {"advance", "delete", "resolve"} /\ writes' = Append(writes, w)
  /\ \/ UNCHANGED budget /\ ui'.input = ui.input
     \/ /\ budget.drafts > 0 /\ budget' = [budget EXCEPT !.drafts = @ - 1]
        /\ ui'.input = budget.drafts /\ writes' = writes

LEMMA QuietSteps ==
  ASSUME Typed, [Next]_vars
  PROVE  \/ Navigate \/ Reload \/ Submit \/ SubmitEdit \/ Commit
         \/ \E c \in captures, gps \in BOOLEAN : Resolved(c, gps)
         \/ Quiet
<1>0. ui \in Forms
  BY DEF Typed
<1>1. CASE UNCHANGED vars
  BY <1>1 DEF vars, screen, store, Quiet
<1>2. ASSUME NEW new \in Forms, Local(new), UNCHANGED budget,
             new.busy = ui.busy, new.gps = ui.gps, new.input = ui.input,
             \/ new.banner = ui.banner /\ new.error = ui.error
             \/ ~ui.busy /\ new.error = TRUE /\ new.banner = FALSE
      PROVE  Quiet
  BY <1>2 DEF Local, screen, store, Quiet
<1>3. ASSUME NEW w \in Transactions, w.kind \in {"advance", "delete", "resolve"},
             Write(w), UNCHANGED ui
      PROVE  Quiet
  BY <1>3 DEF Write, screen, store, Quiet
<1>4. CASE Render \/ Pull \/ \E c \in Conflicts : Found(c)
  BY <1>4 DEF Render, Pull, Found, screen, store, Quiet
<1>5. CASE ToggleForm
  <2>1. [ui EXCEPT !.open = ~@] \in Forms
    BY <1>0 DEF Forms
  <2> QED
    BY <1>0, <1>2, <1>5, <2>1 DEF ToggleForm, Forms
<1>6. CASE Type
  BY <1>0, <1>6 DEF Type, Local, screen, store, Quiet, Forms
<1>7. CASE RefuseNumber
  <2>1. [ui EXCEPT !.error = TRUE, !.banner = FALSE] \in Forms
    BY <1>0 DEF Forms
  <2> QED
    BY <1>0, <1>2, <1>7, <2>1 DEF RefuseNumber, Forms
<1>8. CASE OpenEdit \/ CancelEdit \/ \E f \in Fields : TypeEdit(f)
  BY <1>0, <1>8 DEF OpenEdit, CancelEdit, TypeEdit, Local, screen, store, Quiet, Forms
<1>9. CASE Advance
  <2>1. NextStatus(shown.status) \in {"IN_PROGRESS", "COMPLETED"}
    BY <1>9, NextStatuses DEF Advance, Typed, Records
  <2> DEFINE w == [kind |-> "advance", status |-> NextStatus(shown.status)]
  <2>2. w \in Transactions /\ w.kind = "advance"
    BY <2>1, NewTransactions
  <2>3. Write(w) /\ UNCHANGED ui
    BY <1>9 DEF Advance
  <2> HIDE DEF w
  <2> QED
    BY <1>3, <2>2, <2>3
<1>10. CASE \E card \in Cards : Discard(card)
  <2> DEFINE w == [kind |-> "delete"]
  <2>1. w \in Transactions /\ w.kind = "delete"
    BY NewTransactions
  <2>2. Write(w) /\ UNCHANGED ui
    BY <1>10 DEF Discard
  <2> HIDE DEF w
  <2> QED
    BY <1>3, <2>1, <2>2
<1>11. ASSUME NEW c \in Conflicts, NEW r \in {"KEEP_SERVER", "KEEP_MINE"}, ClickResolve(c, r)
       PROVE Quiet
  <2> DEFINE w == [kind |-> "resolve", conflict |-> c, resolution |-> r]
  <2>1. w \in Transactions /\ w.kind = "resolve"
    BY NewTransactions
  <2>2. Write(w) /\ UNCHANGED ui
    BY <1>11 DEF ClickResolve
  <2> HIDE DEF w
  <2> QED
    BY <1>3, <2>1, <2>2
<1> QED
  BY <1>1, <1>4, <1>5, <1>6, <1>7, <1>8, <1>9, <1>10, <1>11 DEF Next, CallsBack, TimerFires

(* The queue of the transactions is the old one, with one more or without    *)
(* the first.                                                              *)
LEMMA WritesAppended ==
  ASSUME writes \in Seq(Transactions), NEW w \in Transactions, writes' = Append(writes, w)
  PROVE  /\ Len(writes) \in Nat /\ DOMAIN writes = 1 .. Len(writes)
         /\ DOMAIN writes' = DOMAIN writes \cup {Len(writes) + 1}
         /\ Len(writes) + 1 \notin DOMAIN writes
         /\ \A n \in DOMAIN writes : writes'[n] = writes[n]
         /\ writes'[Len(writes) + 1] = w
  BY Appended

LEMMA WritesShifted ==
  ASSUME writes \in Seq(Transactions), writes # <<>>, writes' = Tail(writes)
  PROVE  /\ Head(writes) \in Transactions /\ Head(writes) = writes[1]
         /\ 1 \in DOMAIN writes
         /\ \A n \in DOMAIN writes : n \in Nat \ {0}
         /\ \A n \in DOMAIN writes' :
              n + 1 \in DOMAIN writes /\ n + 1 # 1 /\ writes'[n] = writes[n + 1]
         /\ \A n \in DOMAIN writes : n = 1 \/ \E k \in DOMAIN writes' : n = k + 1
<1>1. ASSUME NEW n \in DOMAIN writes, n # 1
      PROVE  \E k \in DOMAIN writes' : n = k + 1
  <2>1. n - 1 \in DOMAIN writes' /\ n = (n - 1) + 1
    BY <1>1, TailOf
  <2> QED
    BY <2>1
<1> QED
  BY <1>1, TailOf

(* How a transaction that ends shows on the screen, and in the store.         *)
LEMMA CommitEffects ==
  ASSUME Typed, Commit
  PROVE  LET w == writes[1] IN
         /\ writes # <<>> /\ writes' = Tail(writes) /\ w \in Transactions
         /\ UNCHANGED <<page, mount, shown, captures>>
         /\ ui'.gps = ui.gps
         /\ ui'.busy <=> ui.busy /\ ~(IsSave(w) /\ w.mount = mount)
         /\ \/ /\ stored' = stored /\ ui'.input = ui.input
            \/ /\ w.kind = "create" /\ w \in Creations
               /\ stored' = Append(stored, [mount |-> w.mount, draft |-> w.draft, gps |-> w.gps])
               /\ ui'.input = IF w.mount = mount THEN 0 ELSE ui.input
               /\ w.mount = mount => ui'.error = ui.error /\ (ui'.banner <=> HasGps /\ ~w.gps)
         /\ ~(IsSave(w) /\ w.mount = mount) => ui' = ui
         /\ IsSave(w) /\ w.mount = mount /\ stored' = stored =>
              ui'.banner = ui.banner /\ (ui'.error = TRUE \/ (w.kind = "edit" /\ ui'.error = ui.error))
         /\ budget'.mounts = budget.mounts /\ budget'.drafts = budget.drafts
         /\ budget'.card = budget.card /\ budget'.faults <= budget.faults
<1> DEFINE w == writes[1]
<1>0. /\ ui \in Forms /\ w \in Transactions /\ w = Head(writes)
      /\ writes # <<>> /\ writes' = Tail(writes) /\ UNCHANGED <<page, mount, shown, captures>>
  BY WritesShifted DEF Commit, Typed, screen
<1>1. \/ Allowed(w) /\ TakesEffect(w)
      \/ Throws(w)
  BY <1>0 DEF Commit
<1>2. /\ budget'.mounts = budget.mounts /\ budget'.drafts = budget.drafts
      /\ budget'.card = budget.card /\ budget'.faults <= budget.faults
  <2>1. budget \in Bounds
    BY DEF Typed
  <2> QED
    BY <2>1 DEF Commit, Bounds
<1> HIDE DEF w
<1>3. CASE Throws(w)
  <2>1. stored' = stored
    BY <1>3 DEF Throws, store
  <2>2. CASE IsSave(w) /\ w.mount = mount
    <3>1. ui' = [ui EXCEPT !.error = TRUE, !.busy = FALSE]
      BY <1>3, <2>2 DEF Throws, IsSave
    <3>2. /\ ui'.error = TRUE /\ ui'.busy = FALSE /\ ui'.gps = ui.gps
          /\ ui'.input = ui.input /\ ui'.banner = ui.banner
      BY <1>0, <3>1 DEF Forms
    <3> QED
      BY <1>0, <1>2, <2>1, <2>2, <3>2 DEF w
  <2>3. CASE ~(IsSave(w) /\ w.mount = mount)
    <3>1. ui' = ui
      BY <1>3, <2>3 DEF Throws, IsSave
    <3> QED
      BY <1>0, <1>2, <2>1, <2>3, <3>1 DEF w
  <2> QED
    BY <2>2, <2>3
<1>4. CASE w.kind = "create" /\ Created(w)
  <2>1. w \in Creations /\ IsSave(w)
    BY <1>0, <1>4, Kinds DEF IsSave
  <2>2. stored' = Append(stored, [mount |-> w.mount, draft |-> w.draft, gps |-> w.gps])
    BY <1>4 DEF Created
  <2>3. CASE w.mount = mount
    <3>1. /\ ui'.input = 0 /\ ui'.busy = FALSE /\ ui'.banner = (HasGps /\ ~w.gps)
          /\ ui'.gps = ui.gps /\ ui'.error = ui.error
      BY <1>0, <1>4, <2>3 DEF Created, Forms
    <3>2. stored' # stored
      BY <2>2, <2>1, Appended DEF Typed, StoredRecords, Creations
    <3> QED
      BY <1>0, <1>2, <1>4, <2>1, <2>2, <2>3, <3>1, <3>2 DEF w
  <2>4. CASE w.mount # mount
    <3>1. ui' = ui
      BY <1>4, <2>4 DEF Created
    <3> QED
      BY <1>0, <1>2, <1>4, <2>1, <2>2, <2>4, <3>1 DEF w
  <2> QED
    BY <2>3, <2>4
<1>5. CASE w.kind = "edit" /\ Edited(w)
  <2>1. stored' = stored /\ IsSave(w)
    BY <1>5 DEF Edited, Put, IsSave
  <2>2. CASE w.mount = mount
    <3>1. /\ ui'.busy = FALSE /\ ui'.gps = ui.gps /\ ui'.input = ui.input
          /\ ui'.banner = ui.banner /\ ui'.error = ui.error
      BY <1>0, <1>5, <2>2 DEF Edited, Forms
    <3> QED
      BY <1>0, <1>2, <1>5, <2>1, <2>2, <3>1 DEF w
  <2>3. CASE w.mount # mount
    <3>1. ui' = ui
      BY <1>5, <2>3 DEF Edited
    <3> QED
      BY <1>0, <1>2, <1>5, <2>1, <2>3, <3>1 DEF w
  <2> QED
    BY <2>2, <2>3
<1>6. ASSUME w.kind \in {"advance", "delete", "resolve"}, TakesEffect(w)
      PROVE  ui' = ui /\ stored' = stored /\ ~IsSave(w)
  BY <1>6 DEF TakesEffect, Advanced, Deleted, Answered, Put, IsSave
<1>7. CASE w.kind \in {"advance", "delete", "resolve"} /\ TakesEffect(w)
  BY <1>0, <1>2, <1>6, <1>7 DEF w
<1> QED
  BY <1>0, <1>1, <1>3, <1>4, <1>5, <1>7, Kinds DEF TakesEffect

-----------------------------------------------------------------------------
(* One save of a page at a time.                                            *)

LEMMA SavesInit == Init => SavesSound
  BY DEF Init, SavesSound, Fresh, Waiting, Writing

LEMMA SavesNewPage ==
  ASSUME Typed, SavesSound, Navigate \/ Reload
  PROVE  SavesSound'
<1>1. mount \in Nat /\ mount' = mount + 1 /\ ui'.busy = FALSE /\ ui'.gps = "idle"
  BY DEF Typed, Navigate, Reload, Open, Fresh
<1>2. /\ captures' \subseteq captures
      /\ \A c \in captures : c.mount \in Nat /\ c.mount <= mount
  BY DEF Navigate, Reload, SavesSound, Typed, Captured
<1>3. writes' = writes \/ writes' = <<>>
  BY DEF Navigate, Reload
<1>4. \A n \in DOMAIN writes : IsSave(writes[n]) => writes[n].mount \in Nat /\ writes[n].mount <= mount
  BY Kinds DEF SavesSound, Typed, IsSave, Creations, Changes
<1>5. ~Waiting(mount)'
  BY <1>1, <1>2 DEF Waiting
<1>6. ~Writing(mount)'
  BY <1>1, <1>3, <1>4 DEF Writing, SaveAt
<1>7. \A c \in captures' : c.mount <= mount'
  BY <1>1, <1>2
<1>8. \A n \in DOMAIN writes' : IsSave(writes'[n]) => writes'[n].mount <= mount'
  BY <1>1, <1>3, <1>4
<1>9. \A c, d \in captures' : c.mount = d.mount => c = d
  BY <1>2 DEF SavesSound
<1>10. \A i, j \in DOMAIN writes' :
         IsSave(writes'[i]) /\ IsSave(writes'[j]) /\ writes'[i].mount = writes'[j].mount => i = j
  BY <1>3 DEF SavesSound
<1>11. \A c \in captures', n \in DOMAIN writes' : ~(IsSave(writes'[n]) /\ writes'[n].mount = c.mount)
  BY <1>2, <1>3 DEF SavesSound, SaveAt
<1> QED
  BY <1>1, <1>5, <1>6, <1>7, <1>8, <1>9, <1>10, <1>11 DEF SavesSound, SaveAt, IsSave

LEMMA SavesQuiet ==
  ASSUME Typed, SavesSound, Quiet
  PROVE  SavesSound'
<1>1. UNCHANGED <<mount, captures>> /\ ui'.busy = ui.busy /\ ui'.gps = ui.gps
  BY DEF Quiet
<1> DEFINE SameSaves ==
  /\ \A n \in DOMAIN writes' : IsSave(writes'[n]) => n \in DOMAIN writes /\ writes'[n] = writes[n]
  /\ \A n \in DOMAIN writes : n \in DOMAIN writes' /\ writes'[n] = writes[n]
<1>2. SameSaves
  <2>1. ASSUME NEW w \in Transactions, w.kind \in {"advance", "delete", "resolve"},
               writes' = Append(writes, w)
        PROVE  SameSaves
    <3>1. ~IsSave(w)
      BY <2>1 DEF IsSave
    <3> QED
      BY <2>1, <3>1, WritesAppended DEF Typed
  <2> QED
    BY <2>1 DEF Quiet
<1>3. Waiting(mount)' <=> Waiting(mount)
  BY <1>1 DEF Waiting
<1>4. Writing(mount)' <=> Writing(mount)
  BY <1>1, <1>2 DEF Writing, SaveAt
<1> QED
  BY <1>1, <1>2, <1>3, <1>4 DEF SavesSound, SaveAt, IsSave

(* A save is begun: from the form of a new record, or from the edit form.     *)
LEMMA SavesBegin ==
  ASSUME Typed, SavesSound, ~ui.busy, ui'.busy = TRUE, UNCHANGED mount,
         \/ /\ \E d \in Nat \ {0} : captures' = captures \cup {[mount |-> mount, draft |-> d]}
            /\ ui'.gps = "capturing" /\ UNCHANGED writes
         \/ /\ \E w \in Transactions :
                 IsSave(w) /\ w.mount = mount /\ writes' = Append(writes, w)
            /\ ui'.gps = ui.gps /\ UNCHANGED captures
  PROVE  SavesSound'
<1>1. /\ \A c \in captures : c.mount # mount
      /\ \A n \in DOMAIN writes : ~(IsSave(writes[n]) /\ writes[n].mount = mount)
      /\ ui.gps # "capturing" /\ mount \in Nat
  BY DEF Typed, SavesSound, Waiting, Writing, SaveAt
<1>2. ASSUME NEW d \in Nat \ {0}, captures' = captures \cup {[mount |-> mount, draft |-> d]},
             ui'.gps = "capturing", UNCHANGED writes
      PROVE  SavesSound'
  <2> DEFINE new == [mount |-> mount, draft |-> d]
  <2>1. new \in captures' /\ new.mount = mount /\ \A c \in captures' : c \in captures \/ c = new
    BY <1>2
  <2> HIDE DEF new
  <2>2. Waiting(mount)'
    BY <2>1 DEF Waiting
  <2> QED
    BY <1>1, <1>2, <2>1, <2>2 DEF SavesSound, SaveAt, IsSave
<1>3. ASSUME NEW w \in Transactions, IsSave(w), w.mount = mount, writes' = Append(writes, w),
             ui'.gps = ui.gps, UNCHANGED captures
      PROVE  SavesSound'
  <2> DEFINE last == Len(writes) + 1
  <2>1. /\ \A n \in DOMAIN writes : writes'[n] = writes[n]
        /\ writes'[last] = w /\ last \in DOMAIN writes'
        /\ \A n \in DOMAIN writes' : n \in DOMAIN writes \/ n = last
    BY <1>3, WritesAppended DEF Typed
  <2> HIDE DEF last
  <2>2. Writing(mount)'
    BY <1>3, <2>1 DEF Writing, SaveAt, IsSave
  <2>3. ~Waiting(mount)'
    BY <1>1, <1>3 DEF Waiting
  <2> QED
    BY <1>1, <1>3, <2>1, <2>2, <2>3 DEF SavesSound, SaveAt, IsSave
<1> QED
  BY <1>2, <1>3

LEMMA SavesSubmit ==
  ASSUME Typed, SavesSound, Submit \/ SubmitEdit
  PROVE  SavesSound'
<1>1. /\ ui \in Forms /\ mount \in Nat \ {0} /\ ui.input \in Nat /\ ui.edit \in Editing
  BY DEF Typed, Forms
<1>2. CASE Submit /\ HasGps
  <2>1. ui'.busy = TRUE /\ ui'.gps = "capturing"
    BY <1>1, <1>2 DEF Submit, Forms
  <2> QED
    BY <1>1, <1>2, <2>1, SavesBegin DEF Submit, screen
<1>3. CASE Submit /\ ~HasGps
  <2>1. ui'.busy = TRUE /\ ui'.gps = ui.gps
    BY <1>1, <1>3 DEF Submit, Forms
  <2>2. ui.input \in Nat \ {0} /\ ~ui.busy /\ UNCHANGED <<mount, captures>>
        /\ writes' = Append(writes, Creation(mount, ui.input, FALSE))
    BY <1>1, <1>3 DEF Submit, screen
  <2>3. PICK w \in Transactions : w = Creation(mount, ui.input, FALSE)
    BY <1>1, <2>2, NewTransactions
  <2>4. IsSave(w) /\ w.mount = mount
    BY <2>3 DEF Creation, IsSave
  <2>5. writes' = Append(writes, w)
    BY <2>2, <2>3
  <2> QED
    BY <2>1, <2>2, <2>4, <2>5, SavesBegin
<1>4. CASE SubmitEdit
  <2>1. ui'.busy = TRUE /\ ui'.gps = ui.gps
    BY <1>1, <1>4 DEF SubmitEdit, Forms
  <2>2. PICK w \in Transactions : w = [kind |-> "edit", mount |-> mount, edit |-> ui.edit]
    BY <1>1, NewTransactions
  <2>3. IsSave(w) /\ w.mount = mount
    BY <2>2 DEF IsSave
  <2>4. writes' = Append(writes, w) /\ ~ui.busy /\ UNCHANGED <<mount, captures>>
    BY <1>4, <2>2 DEF SubmitEdit, Write, screen
  <2> QED
    BY <2>1, <2>3, <2>4, SavesBegin
<1> QED
  BY <1>2, <1>3, <1>4

LEMMA SavesResolved ==
  ASSUME Typed, SavesSound, NEW c \in captures, NEW gps \in BOOLEAN, Resolved(c, gps)
  PROVE  SavesSound'
<1>0. ui \in Forms /\ c \in Captured /\ mount \in Nat
  BY DEF Typed
<1>1. PICK w \in Transactions : w = Creation(c.mount, c.draft, gps)
  BY <1>0, NewTransactions DEF Captured
<1>2. IsSave(w) /\ w.mount = c.mount
  BY <1>1 DEF Creation, IsSave
<1>3. writes' = Append(writes, w) /\ captures' = captures \ {c} /\ mount' = mount
  BY <1>1 DEF Resolved, screen
<1> DEFINE last == Len(writes) + 1
<1>4. /\ \A n \in DOMAIN writes : writes'[n] = writes[n]
      /\ writes'[last] = w /\ last \in DOMAIN writes'
      /\ \A n \in DOMAIN writes' : n \in DOMAIN writes \/ n = last
      /\ \A n \in DOMAIN writes : n \in DOMAIN writes'
  BY <1>3, WritesAppended DEF Typed
<1> HIDE DEF last
<1>5. ui'.busy = ui.busy /\ (ui'.gps = "capturing" <=> ui.gps = "capturing" /\ c.mount # mount)
  <2>1. CASE c.mount = mount
    BY <1>0, <2>1 DEF Resolved, Forms
  <2>2. CASE c.mount # mount
    BY <1>0, <2>2 DEF Resolved
  <2> QED
    BY <2>1, <2>2
<1>6. Waiting(mount)' <=> Waiting(mount) /\ c.mount # mount
  BY <1>3 DEF SavesSound, Waiting
<1>7. Writing(mount)' <=> Writing(mount) \/ c.mount = mount
  BY <1>2, <1>3, <1>4 DEF Writing, SaveAt, IsSave
<1>8. Waiting(mount)' \/ Writing(mount)' <=> Waiting(mount) \/ Writing(mount)
  BY <1>6, <1>7 DEF Waiting
<1>9. \A n \in DOMAIN writes : IsSave(writes[n]) => writes[n].mount # c.mount
  BY DEF SavesSound, SaveAt
<1>10. \A n \in DOMAIN writes' : IsSave(writes'[n]) => writes'[n].mount <= mount'
  BY <1>2, <1>3, <1>4 DEF SavesSound
<1>11. \A i, j \in DOMAIN writes' :
         IsSave(writes'[i]) /\ IsSave(writes'[j]) /\ writes'[i].mount = writes'[j].mount => i = j
  BY <1>2, <1>4, <1>9 DEF SavesSound
<1>12. \A d \in captures', n \in DOMAIN writes' : ~(IsSave(writes'[n]) /\ writes'[n].mount = d.mount)
  BY <1>2, <1>3, <1>4 DEF SavesSound, SaveAt
<1>13. /\ \A d \in captures' : d.mount <= mount'
       /\ \A d, e \in captures' : d.mount = e.mount => d = e
  BY <1>3 DEF SavesSound
<1>14. /\ ui'.busy <=> Waiting(mount)' \/ Writing(mount)'
       /\ ui'.gps = "capturing" <=> Waiting(mount)'
  BY <1>5, <1>6, <1>8 DEF SavesSound
<1> QED
  BY <1>10, <1>11, <1>12, <1>13, <1>14 DEF SavesSound, SaveAt, IsSave

LEMMA SavesCommit ==
  ASSUME Typed, SavesSound, Commit
  PROVE  SavesSound'
<1> DEFINE w == writes[1]
<1>1. /\ writes # <<>> /\ writes' = Tail(writes) /\ UNCHANGED <<mount, captures>>
      /\ ui'.gps = ui.gps /\ (ui'.busy <=> ui.busy /\ ~(IsSave(w) /\ w.mount = mount))
  BY CommitEffects
<1>2. /\ 1 \in DOMAIN writes
      /\ \A n \in DOMAIN writes' : n + 1 \in DOMAIN writes /\ n + 1 # 1 /\ writes'[n] = writes[n + 1]
      /\ \A n \in DOMAIN writes : n = 1 \/ \E k \in DOMAIN writes' : n = k + 1
      /\ \A n \in DOMAIN writes' : n \in Nat
  BY <1>1, WritesShifted, TailOf DEF Typed
<1>3. Waiting(mount)' <=> Waiting(mount)
  BY <1>1 DEF Waiting
<1>4. Writing(mount)' <=> Writing(mount) /\ ~(IsSave(w) /\ w.mount = mount)
  BY <1>1, <1>2 DEF Writing, SaveAt, SavesSound
<1>5. IsSave(w) /\ w.mount = mount => ~Waiting(mount)
  BY <1>2 DEF SavesSound, SaveAt, Waiting
<1>6. /\ ui'.busy <=> Waiting(mount)' \/ Writing(mount)'
      /\ ui'.gps = "capturing" <=> Waiting(mount)'
  BY <1>1, <1>3, <1>4, <1>5 DEF SavesSound
<1>7. \A n \in DOMAIN writes' : IsSave(writes'[n]) => writes'[n].mount <= mount'
  BY <1>1, <1>2 DEF SavesSound
<1>8. ASSUME NEW i \in DOMAIN writes', NEW j \in DOMAIN writes',
             IsSave(writes'[i]), IsSave(writes'[j]), writes'[i].mount = writes'[j].mount
      PROVE  i = j
  <2>1. i + 1 = j + 1
    BY <1>2, <1>8 DEF SavesSound
  <2> QED
    BY <1>2, <2>1
<1>9. \A d \in captures', n \in DOMAIN writes' : ~(IsSave(writes'[n]) /\ writes'[n].mount = d.mount)
  BY <1>1, <1>2 DEF SavesSound, SaveAt
<1>10. /\ \A d \in captures' : d.mount <= mount'
       /\ \A d, e \in captures' : d.mount = e.mount => d = e
  BY <1>1 DEF SavesSound
<1> QED
  BY <1>6, <1>7, <1>8, <1>9, <1>10 DEF SavesSound, SaveAt, IsSave

LEMMA SavesNext ==
  ASSUME Typed, SavesSound, [Next]_vars
  PROVE  SavesSound'
  BY QuietSteps, SavesNewPage, SavesQuiet, SavesSubmit, SavesResolved, SavesCommit

-----------------------------------------------------------------------------
(* A draft is in one place.                                                 *)

LEMMA DraftNumbers ==
  ASSUME Typed
  PROVE  /\ \A c \in captures : c.draft \in Nat \ {0}
         /\ \A n \in DOMAIN writes : Creates(n) => writes[n].draft \in Nat \ {0}
         /\ \A i \in DOMAIN stored : stored[i].draft \in Nat \ {0}
         /\ ui.input \in Nat /\ budget.drafts \in Nat
<1>1. /\ \A c \in captures : c.draft \in Nat \ {0}
      /\ ui.input \in Nat /\ budget.drafts \in Nat
  BY DEF Typed, Captured, Forms, Bounds
<1>2. ASSUME NEW n \in DOMAIN writes, Creates(n)
      PROVE  writes[n].draft \in Nat \ {0}
  <2>1. writes[n] \in Transactions
    BY DEF Typed
  <2>2. writes[n] \in Creations
    BY <1>2, <2>1, Kinds DEF Creates
  <2> QED
    BY <2>2 DEF Creations
<1>3. ASSUME NEW i \in DOMAIN stored
      PROVE  stored[i].draft \in Nat \ {0}
  <2>1. stored[i] \in StoredRecords
    BY DEF Typed
  <2> QED
    BY <2>1 DEF StoredRecords
<1> QED
  BY <1>1, <1>2, <1>3

LEMMA DraftsInit == Init => DraftsSound /\ BudgetSound
<1> SUFFICES ASSUME Init PROVE DraftsSound /\ BudgetSound
  OBVIOUS
<1>1. captures = {} /\ writes = <<>> /\ stored = <<>> /\ ui.input = 0 /\ mount = 1
      /\ budget \in Budgets
  BY DEF Init, Fresh
<1>2. budget.mounts \in Nat \ {0} /\ budget.drafts \in Nat /\ budget.faults \in Nat
  BY <1>1, WebAssumption
<1>3. DraftsSound
  BY <1>1 DEF DraftsSound, DraftsSavedOnce
<1>4. BudgetSound
  BY <1>1, <1>2 DEF BudgetSound
<1> QED
  BY <1>3, <1>4

LEMMA DraftsNewPage ==
  ASSUME Typed, DraftsSound, BudgetSound, Navigate \/ Reload
  PROVE  DraftsSound' /\ BudgetSound'
<1>1. /\ ui'.input = 0 /\ stored' = stored /\ budget' = budget
      /\ mount < budget.mounts /\ mount' = mount + 1
  BY DEF Navigate, Reload, Open, Fresh, store
<1>2. captures' \subseteq captures /\ (writes' = writes \/ writes' = <<>>)
  BY DEF Navigate, Reload
<1>3. /\ \A i \in DOMAIN stored : stored[i].draft # 0
      /\ \A c \in captures : c.draft # 0
      /\ \A n \in DOMAIN writes : Creates(n) => writes[n].draft # 0
      /\ mount \in Nat /\ budget.mounts \in Nat
  BY DraftNumbers DEF Typed, Bounds
<1>4. \A n \in DOMAIN writes' :
        n \in DOMAIN writes /\ writes'[n] = writes[n] /\ (Creates(n)' <=> Creates(n))
  BY <1>2 DEF Creates
<1>5. DraftsSound'
  BY <1>1, <1>2, <1>3, <1>4 DEF DraftsSound, DraftsSavedOnce
<1>6. PICK b \in Budgets :
    /\ budget.mounts = b.mounts /\ budget.drafts <= b.drafts /\ budget.faults <= b.faults
    /\ \A c \in captures : Typewritten(c.draft, b)
    /\ \A n \in DOMAIN writes : Creates(n) => Typewritten(writes[n].draft, b)
    /\ \A i \in DOMAIN stored : Typewritten(stored[i].draft, b)
  BY DEF BudgetSound
<1>7. mount' <= budget'.mounts
  BY <1>1, <1>3
<1>8. /\ \A c \in captures' : Typewritten(c.draft, b)'
      /\ \A n \in DOMAIN writes' : Creates(n)' => Typewritten(writes[n].draft, b)'
      /\ \A i \in DOMAIN stored' : Typewritten(stored[i].draft, b)'
  BY <1>1, <1>2, <1>4, <1>6 DEF Typewritten
<1>9. BudgetSound'
  BY <1>1, <1>6, <1>7, <1>8 DEF BudgetSound
<1> QED
  BY <1>5, <1>9

(* No record is created by the new transaction, and a text typed now has a    *)
(* number of its own.                                                       *)
LEMMA DraftsKept ==
  ASSUME Typed, DraftsSound, BudgetSound, UNCHANGED <<mount, captures, stored>>,
         \/ writes' = writes
         \/ \E w \in Transactions : w.kind # "create" /\ writes' = Append(writes, w),
         \/ UNCHANGED budget /\ ui'.input = ui.input
         \/ /\ budget.drafts > 0 /\ budget' = [budget EXCEPT !.drafts = @ - 1]
            /\ ui'.input = budget.drafts
  PROVE  DraftsSound' /\ BudgetSound'
<1>1. \A n \in DOMAIN writes' : Creates(n)' =>
        n \in DOMAIN writes /\ writes'[n] = writes[n] /\ Creates(n)
  BY WritesAppended DEF Typed, Creates
<1>2. PICK b \in Budgets :
    /\ budget.mounts = b.mounts /\ budget.drafts <= b.drafts /\ budget.faults <= b.faults
    /\ mount <= budget.mounts
    /\ ui.input # 0 => Typewritten(ui.input, b)
    /\ \A c \in captures : Typewritten(c.draft, b)
    /\ \A n \in DOMAIN writes : Creates(n) => Typewritten(writes[n].draft, b)
    /\ \A i \in DOMAIN stored : Typewritten(stored[i].draft, b)
  BY DEF BudgetSound
<1>3. CASE UNCHANGED budget /\ ui'.input = ui.input
  <2>1. DraftsSound'
    BY <1>1, <1>3 DEF DraftsSound, DraftsSavedOnce
  <2>2. BudgetSound'
    BY <1>1, <1>2, <1>3 DEF BudgetSound, Typewritten
  <2> QED
    BY <2>1, <2>2
<1>4. CASE /\ budget.drafts > 0 /\ budget' = [budget EXCEPT !.drafts = @ - 1]
           /\ ui'.input = budget.drafts
  <2>1. /\ budget.drafts \in Nat \ {0} /\ budget'.drafts = budget.drafts - 1
        /\ budget'.mounts = budget.mounts /\ budget'.faults = budget.faults
    BY <1>4 DEF Typed, Bounds
  <2>2. b.drafts \in Nat
    BY WebAssumption
  <2>3. /\ \A c \in captures : c.draft \in Nat
        /\ \A i \in DOMAIN stored : stored[i].draft \in Nat
        /\ \A n \in DOMAIN writes : Creates(n) => writes[n].draft \in Nat
        /\ ui.input \in Nat
    BY DraftNumbers
  <2>4. /\ \A c \in captures : c.draft # ui'.input
        /\ \A i \in DOMAIN stored : stored[i].draft # ui'.input
        /\ \A n \in DOMAIN writes : Creates(n) => writes[n].draft # ui'.input
    BY <1>2, <1>4, <2>1, <2>3 DEF Typewritten
  <2>5. DraftsSound'
    BY <1>1, <2>4 DEF DraftsSound, DraftsSavedOnce
  <2>6. /\ \A d \in Nat : Typewritten(d, b) => Typewritten(d, b)'
        /\ Typewritten(ui.input, b)'
    BY <1>2, <1>4, <2>1, <2>2 DEF Typewritten
  <2>7. /\ \A c \in captures : Typewritten(c.draft, b)'
        /\ \A n \in DOMAIN writes' : Creates(n)' => Typewritten(writes[n].draft, b)'
        /\ \A i \in DOMAIN stored : Typewritten(stored[i].draft, b)'
    BY <1>1, <1>2, <2>3, <2>6
  <2>8. budget'.drafts <= b.drafts /\ budget'.faults <= b.faults
    BY <1>2, <2>1, <2>2
  <2>9. BudgetSound'
    BY <1>2, <2>1, <2>6, <2>7, <2>8 DEF BudgetSound
  <2> QED
    BY <2>5, <2>9
<1> QED
  BY <1>3, <1>4

LEMMA DraftsSubmit ==
  ASSUME Typed, SavesSound, DraftsSound, BudgetSound, Submit
  PROVE  DraftsSound' /\ BudgetSound'
<1>1. /\ ui \in Forms /\ mount \in Nat \ {0} /\ ui.input \in Nat \ {0} /\ ~ui.busy
      /\ UNCHANGED <<mount, stored, budget>>
  BY DEF Typed, Forms, Submit, screen, store
<1>2. ui'.input = ui.input
  BY <1>1 DEF Submit, Forms
<1>3. /\ \A c \in captures : c.mount # mount
      /\ \A n \in DOMAIN writes : Creates(n) => writes[n].mount # mount
  BY <1>1 DEF SavesSound, Waiting, Writing, SaveAt, IsSave, Creates
<1>4. /\ \A c \in captures : c.draft # ui.input
      /\ \A n \in DOMAIN writes : Creates(n) => writes[n].draft # ui.input
      /\ \A i \in DOMAIN stored : stored[i].draft # ui.input
  BY <1>3 DEF DraftsSound
<1>5. PICK b \in Budgets :
    /\ budget.mounts = b.mounts /\ budget.drafts <= b.drafts /\ budget.faults <= b.faults
    /\ mount <= budget.mounts
    /\ Typewritten(ui.input, b)
    /\ \A c \in captures : Typewritten(c.draft, b)
    /\ \A n \in DOMAIN writes : Creates(n) => Typewritten(writes[n].draft, b)
    /\ \A i \in DOMAIN stored : Typewritten(stored[i].draft, b)
  BY <1>1 DEF BudgetSound
<1>6. CASE HasGps
  <2> DEFINE new == [mount |-> mount, draft |-> ui.input]
  <2>1. captures' = captures \cup {new} /\ writes' = writes /\ new.mount = mount
        /\ new.draft = ui.input
    BY <1>6 DEF Submit
  <2> HIDE DEF new
  <2>2. DraftsSound'
    BY <1>1, <1>2, <1>4, <2>1 DEF DraftsSound, DraftsSavedOnce, Creates
  <2>3. BudgetSound'
    BY <1>1, <1>2, <1>5, <2>1 DEF BudgetSound, Typewritten, Creates
  <2> QED
    BY <2>2, <2>3
<1>7. CASE ~HasGps
  <2>1. PICK w \in Transactions : w = Creation(mount, ui.input, FALSE)
    BY <1>1, NewTransactions
  <2>2. w.kind = "create" /\ w.mount = mount /\ w.draft = ui.input
    BY <2>1 DEF Creation
  <2>3. writes' = Append(writes, w) /\ captures' = captures
    BY <1>7, <2>1 DEF Submit
  <2> DEFINE last == Len(writes) + 1
  <2>4. /\ \A n \in DOMAIN writes : writes'[n] = writes[n] /\ (Creates(n)' <=> Creates(n))
        /\ writes'[last] = w
        /\ \A n \in DOMAIN writes' : n \in DOMAIN writes \/ n = last
    BY <2>3, WritesAppended DEF Typed, Creates
  <2> HIDE DEF last
  <2>5. DraftsSound'
    BY <1>1, <1>2, <1>4, <2>2, <2>3, <2>4 DEF DraftsSound, DraftsSavedOnce
  <2>6. BudgetSound'
    BY <1>1, <1>2, <1>5, <2>2, <2>3, <2>4 DEF BudgetSound, Typewritten
  <2> QED
    BY <2>5, <2>6
<1> QED
  BY <1>6, <1>7

LEMMA DraftsResolved ==
  ASSUME Typed, DraftsSound, BudgetSound, NEW c \in captures, NEW gps \in BOOLEAN,
         Resolved(c, gps)
  PROVE  DraftsSound' /\ BudgetSound'
<1>1. /\ ui \in Forms /\ c \in Captured
      /\ UNCHANGED <<mount, stored, budget>> /\ captures' = captures \ {c}
  BY DEF Typed, Resolved, screen, store
<1>2. ui'.input = ui.input
  <2>1. CASE c.mount = mount
    BY <1>1, <2>1 DEF Resolved, Forms
  <2>2. CASE c.mount # mount
    BY <2>2 DEF Resolved
  <2> QED
    BY <2>1, <2>2
<1>3. PICK w \in Transactions : w = Creation(c.mount, c.draft, gps)
  BY <1>1, NewTransactions DEF Captured
<1>4. w.kind = "create" /\ w.mount = c.mount /\ w.draft = c.draft
  BY <1>3 DEF Creation
<1>5. writes' = Append(writes, w)
  BY <1>3 DEF Resolved
<1> DEFINE last == Len(writes) + 1
<1>6. /\ \A n \in DOMAIN writes : writes'[n] = writes[n] /\ (Creates(n)' <=> Creates(n))
      /\ writes'[last] = w
      /\ \A n \in DOMAIN writes' : n \in DOMAIN writes \/ n = last
  BY <1>5, WritesAppended DEF Typed, Creates
<1> HIDE DEF last
<1>7. DraftsSound'
  BY <1>1, <1>2, <1>4, <1>6 DEF DraftsSound, DraftsSavedOnce
<1>8. BudgetSound'
  BY <1>1, <1>2, <1>4, <1>6 DEF BudgetSound, Typewritten
<1> QED
  BY <1>7, <1>8

LEMMA DraftsCommit ==
  ASSUME Typed, DraftsSound, BudgetSound, Commit
  PROVE  DraftsSound' /\ BudgetSound'
<1>0. PICK w : w = writes[1]
  OBVIOUS
<1>1. /\ writes # <<>> /\ writes' = Tail(writes) /\ UNCHANGED <<mount, captures>>
      /\ budget'.mounts = budget.mounts /\ budget'.drafts = budget.drafts
      /\ budget'.faults <= budget.faults
  BY CommitEffects
<1>2. \/ stored' = stored /\ ui'.input = ui.input
      \/ /\ w.kind = "create" /\ w \in Creations
         /\ stored' = Append(stored, [mount |-> w.mount, draft |-> w.draft, gps |-> w.gps])
         /\ ui'.input = IF w.mount = mount THEN 0 ELSE ui.input
  BY <1>0, CommitEffects
<1>3. /\ 1 \in DOMAIN writes
      /\ \A n \in DOMAIN writes' :
           /\ n \in Nat /\ n + 1 \in DOMAIN writes /\ n + 1 # 1 /\ writes'[n] = writes[n + 1]
           /\ Creates(n)' <=> Creates(n + 1)
  BY <1>1, WritesShifted, TailOf DEF Typed, Creates
<1>4. \A i, j \in DOMAIN writes' :
        Creates(i)' /\ Creates(j)' /\ writes'[i].draft = writes'[j].draft => i = j
  <2> SUFFICES ASSUME NEW i \in DOMAIN writes', NEW j \in DOMAIN writes',
                      Creates(i)', Creates(j)', writes'[i].draft = writes'[j].draft
               PROVE  i = j
    OBVIOUS
  <2>1. i + 1 = j + 1
    BY <1>3 DEF DraftsSound
  <2> QED
    BY <1>3, <2>1
<1>5. PICK b \in Budgets :
    /\ budget.mounts = b.mounts /\ budget.drafts <= b.drafts /\ budget.faults <= b.faults
    /\ mount <= budget.mounts
    /\ ui.input # 0 => Typewritten(ui.input, b)
    /\ \A c \in captures : Typewritten(c.draft, b)
    /\ \A n \in DOMAIN writes : Creates(n) => Typewritten(writes[n].draft, b)
    /\ \A i \in DOMAIN stored : Typewritten(stored[i].draft, b)
  BY DEF BudgetSound
<1>6. budget'.faults <= b.faults
  <2>1. budget \in Bounds /\ budget' \in Bounds /\ b.faults \in Nat
    BY TypedCommit, WebAssumption DEF Typed
  <2> QED
    BY <1>1, <1>5, <2>1 DEF Bounds
<1>6a. ASSUME NEW d, Typewritten(d, b) PROVE Typewritten(d, b)'
  BY <1>1, <1>6a DEF Typewritten
<1>7. /\ \A c \in captures' : Typewritten(c.draft, b)'
      /\ \A n \in DOMAIN writes' : Creates(n)' => Typewritten(writes[n].draft, b)'
  <2>1. \A n \in DOMAIN writes' : Creates(n)' => Typewritten(writes'[n].draft, b)
    BY <1>3, <1>5
  <2> QED
    BY <1>1, <1>5, <1>6a, <2>1
<1>8. CASE stored' = stored /\ ui'.input = ui.input
  <2>1. DraftsSound'
    BY <1>1, <1>3, <1>4, <1>8 DEF DraftsSound, DraftsSavedOnce
  <2>2. /\ Typewritten(ui.input, b) => Typewritten(ui.input, b)'
        /\ \A i \in DOMAIN stored' : Typewritten(stored[i].draft, b)'
    BY <1>5, <1>8, <1>6a
  <2>3. BudgetSound'
    BY <1>1, <1>5, <1>6, <1>7, <1>8, <2>2 DEF BudgetSound
  <2> QED
    BY <2>1, <2>3
<1>9. CASE /\ w.kind = "create" /\ w \in Creations
           /\ stored' = Append(stored, [mount |-> w.mount, draft |-> w.draft, gps |-> w.gps])
           /\ ui'.input = IF w.mount = mount THEN 0 ELSE ui.input
  <2> DEFINE new == [mount |-> w.mount, draft |-> w.draft, gps |-> w.gps]
             last == Len(stored) + 1
  <2>1. new \in StoredRecords /\ new.draft = w.draft /\ w.draft \in Nat \ {0}
    BY <1>9 DEF Creations, StoredRecords
  <2>2. stored' = Append(stored, new) /\ stored \in Seq(StoredRecords)
    BY <1>9 DEF Typed
  <2> HIDE DEF new
  <2>3. /\ \A n \in DOMAIN stored : stored'[n] = stored[n]
        /\ stored'[last] = new
        /\ \A n \in DOMAIN stored' : n \in DOMAIN stored \/ n = last
    BY <2>1, <2>2, Appended
  <2> HIDE DEF last
  <2>4. Creates(1)
    BY <1>0, <1>9 DEF Creates
  <2>5. /\ \A i \in DOMAIN stored : stored[i].draft # w.draft
        /\ \A c \in captures : c.draft # w.draft
        /\ \A n \in DOMAIN writes' : Creates(n)' => writes'[n].draft # w.draft
        /\ w.draft = ui.input => w.mount = mount
    BY <1>0, <1>3, <2>4 DEF DraftsSound
  <2>6. /\ w.draft # ui'.input
        /\ ui'.input # 0 => ui'.input = ui.input
        /\ ui'.input = 0 \/ ui'.input = ui.input
    BY <1>9, <2>1, <2>5
  <2>7. /\ \A i \in DOMAIN stored : stored[i].draft \in Nat \ {0}
        /\ \A c \in captures : c.draft \in Nat \ {0}
        /\ \A n \in DOMAIN writes : Creates(n) => writes[n].draft \in Nat \ {0}
    BY DraftNumbers
  <2>8. DraftsSavedOnce'
    BY <2>1, <2>3, <2>5 DEF DraftsSound, DraftsSavedOnce
  <2>9. /\ \A i \in DOMAIN stored', c \in captures' : stored'[i].draft # c.draft
        /\ \A i \in DOMAIN stored', n \in DOMAIN writes' :
             Creates(n)' => stored'[i].draft # writes'[n].draft
    BY <1>1, <1>3, <2>1, <2>3, <2>5 DEF DraftsSound
  <2>10. \A i \in DOMAIN stored' : stored'[i].draft # ui'.input
    BY <2>1, <2>3, <2>6, <2>7 DEF DraftsSound
  <2>11. /\ \A c \in captures' : c.draft = ui'.input => c.mount = mount'
         /\ \A n \in DOMAIN writes' :
              Creates(n)' /\ writes'[n].draft = ui'.input => writes'[n].mount = mount'
    BY <1>1, <1>3, <2>6, <2>7 DEF DraftsSound
  <2>12. /\ \A c, d \in captures' : c.draft = d.draft => c = d
         /\ \A c \in captures', n \in DOMAIN writes' : Creates(n)' => c.draft # writes'[n].draft
    BY <1>1, <1>3 DEF DraftsSound
  <2>13. DraftsSound'
    BY <1>4, <2>8, <2>9, <2>10, <2>11, <2>12 DEF DraftsSound
  <2>14. Typewritten(w.draft, b)' /\ (ui'.input # 0 => Typewritten(ui.input, b)')
    BY <1>0, <1>3, <1>5, <1>6a, <2>4, <2>6
  <2>15. \A i \in DOMAIN stored' : Typewritten(stored[i].draft, b)'
    BY <1>5, <1>6a, <2>1, <2>3, <2>14
  <2>16. BudgetSound'
    BY <1>1, <1>5, <1>6, <1>7, <2>14, <2>15 DEF BudgetSound
  <2> QED
    BY <2>13, <2>16
<1> QED
  BY <1>2, <1>8, <1>9

LEMMA DraftsNext ==
  ASSUME Typed, SavesSound, DraftsSound, BudgetSound, [Next]_vars
  PROVE  DraftsSound' /\ BudgetSound'
<1>1. CASE Quiet
  BY <1>1, DraftsKept DEF Quiet
<1>2. CASE SubmitEdit
  <2>1. ui \in Forms /\ mount \in Nat \ {0} /\ ui.edit \in Editing
    BY DEF Typed, Forms
  <2>2. PICK w \in Transactions : w = [kind |-> "edit", mount |-> mount, edit |-> ui.edit]
    BY <2>1, NewTransactions
  <2>3. w.kind # "create" /\ writes' = Append(writes, w)
    BY <1>2, <2>2 DEF SubmitEdit, Write
  <2>4. ui'.input = ui.input /\ UNCHANGED <<mount, captures, stored, budget>>
    BY <1>2, <2>1 DEF SubmitEdit, Write, screen, store, Forms
  <2> QED
    BY <2>3, <2>4, DraftsKept
<1> QED
  BY <1>1, <1>2, QuietSteps, DraftsNewPage, DraftsSubmit, DraftsResolved, DraftsCommit

-----------------------------------------------------------------------------
(* The edit form.                                                           *)

LEMMA FormsInit == Init => FormsSound
  BY DEF Init, FormsSound, Fresh, NoEdit

LEMMA EditForms ==
  ASSUME Typed, FormsSound, [Next]_vars
  PROVE  /\ ui'.edit.open => Untouched(ui'.edit)
         /\ ui'.edit.open => page' = "projects"
         /\ ui'.edit.open => budget'.card = "project"
<1>0. ui \in Forms /\ ui.edit \in Editing /\ shown \in Records
  BY DEF Typed, Forms
<1>1. ASSUME \/ ui'.edit = ui.edit /\ page' = page
             \/ ~ui'.edit.open,
             budget'.card = budget.card
      PROVE  /\ ui'.edit.open => Untouched(ui'.edit)
             /\ ui'.edit.open => page' = "projects"
             /\ ui'.edit.open => budget'.card = "project"
  BY <1>1 DEF FormsSound
<1>2. CASE Navigate \/ Reload
  BY <1>1, <1>2 DEF Navigate, Reload, Open, Fresh, NoEdit
<1>3. CASE UNCHANGED vars \/ Render \/ Pull \/ \E c \in Conflicts : Found(c)
  BY <1>1, <1>3 DEF vars, screen, Render, Pull, Found
<1>4. CASE \/ ToggleForm \/ RefuseNumber
           \/ \E c \in Conflicts, r \in {"KEEP_SERVER", "KEEP_MINE"} : ClickResolve(c, r)
           \/ Advance \/ \E card \in Cards : Discard(card)
  BY <1>0, <1>1, <1>4
     DEF ToggleForm, RefuseNumber, ClickResolve, Advance, Discard, Write, Local, screen, Forms
<1>5. CASE Type
  <2>1. budget \in Bounds
    BY DEF Typed
  <2> QED
    BY <1>0, <1>1, <1>5, <2>1 DEF Type, Local, screen, Forms, Bounds
<1>6. CASE Submit \/ SubmitEdit
  <2>1. ui'.edit = ui.edit
    BY <1>0, <1>6 DEF Submit, SubmitEdit, Forms
  <2> QED
    BY <1>1, <1>6, <2>1 DEF Submit, SubmitEdit, Write, screen
<1>7. ASSUME NEW c \in captures, NEW gps \in BOOLEAN, Resolved(c, gps)
      PROVE  ui'.edit = ui.edit /\ page' = page /\ budget'.card = budget.card
  <2>1. CASE c.mount = mount
    BY <1>0, <1>7, <2>1 DEF Resolved, Forms, screen
  <2>2. CASE c.mount # mount
    BY <1>0, <1>7, <2>2 DEF Resolved, screen
  <2> QED
    BY <2>1, <2>2
<1>8. CASE OpenEdit
  <2> DEFINE e == [open |-> TRUE, seen |-> shown, fields |-> shown.fields, touched |-> {}]
  <2>1. Untouched(e)
    BY DEF Untouched
  <2>2. ui' = [ui EXCEPT !.edit = e]
    BY <1>8 DEF OpenEdit, Local
  <2> HIDE DEF e
  <2>3. ui'.edit = e
    BY <1>0, <2>2 DEF Forms
  <2>4. page' = "projects" /\ budget'.card = "project"
    BY <1>8 DEF OpenEdit, Local, screen, Click
  <2> QED
    BY <2>1, <2>3, <2>4 DEF Untouched
<1>9. CASE CancelEdit
  <2>1. ui'.edit = Hidden(ui.edit)
    BY <1>0, <1>9 DEF CancelEdit, Local, Forms
  <2> QED
    BY <1>0, <1>1, <1>9, <2>1, HiddenTyped DEF CancelEdit
<1>10. ASSUME NEW f \in Fields, TypeEdit(f)
       PROVE  /\ ui'.edit.open => Untouched(ui'.edit)
              /\ ui'.edit.open => page' = "projects"
              /\ ui'.edit.open => budget'.card = "project"
  <2> DEFINE e == [ui.edit EXCEPT !.fields[f] = "mine", !.touched = ui.edit.touched \cup {f}]
  <2>1. /\ \A g \in Fields \ {f} : e.fields[g] = ui.edit.fields[g]
        /\ e.touched = ui.edit.touched \cup {f} /\ e.seen = ui.edit.seen
    BY <1>0 DEF Editing
  <2>2. ui' = [ui EXCEPT !.edit = e]
    BY <1>10 DEF TypeEdit, Local
  <2>3. ui.edit.open /\ UNCHANGED <<page, budget>>
    BY <1>10 DEF TypeEdit, Local, screen
  <2> HIDE DEF e
  <2>4. ui'.edit = e
    BY <1>0, <2>2 DEF Forms
  <2>5. Untouched(ui.edit) /\ page = "projects" /\ budget.card = "project"
    BY <2>3 DEF FormsSound
  <2>6. ASSUME NEW g \in Fields \ e.touched PROVE e.fields[g] = e.seen.fields[g]
    BY <2>1, <2>5, <2>6 DEF Untouched
  <2> QED
    BY <2>3, <2>4, <2>5, <2>6 DEF Untouched
<1>11. CASE Commit
  <2>1. \/ ui'.edit = ui.edit
        \/ ~ui'.edit.open
    <3> DEFINE w == Head(writes)
    <3>1. \/ w.kind = "create" /\ Created(w)
          \/ w.kind = "edit" /\ Edited(w)
          \/ ui' = ui
          \/ Throws(w)
      <4>1. w \in Transactions
        BY <1>11, WritesShifted DEF Commit, Typed
      <4>2. (Allowed(w) /\ TakesEffect(w)) \/ Throws(w)
        BY <1>11 DEF Commit
      <4> HIDE DEF w
      <4> QED
        BY <4>1, <4>2, Kinds DEF TakesEffect, Advanced, Deleted, Answered
    <3> HIDE DEF w
    <3>2. CASE w.kind = "create" /\ Created(w)
      BY <1>0, <3>2 DEF Created, Forms
    <3>3. CASE w.kind = "edit" /\ Edited(w)
      BY <1>0, <3>3, HiddenTyped DEF Edited, Forms
    <3>4. CASE Throws(w)
      BY <1>0, <3>4 DEF Throws, Forms
    <3> QED
      BY <3>1, <3>2, <3>3, <3>4
  <2> QED
    BY <1>1, <1>11, <2>1, CommitEffects
<1> QED
  BY <1>2, <1>3, <1>4, <1>5, <1>6, <1>7, <1>8, <1>9, <1>10, <1>11, <1>1
     DEF Next, CallsBack, TimerFires

LEMMA FormsNext ==
  ASSUME Typed, FormsSound, [Next]_vars
  PROVE  FormsSound'
<1> SUFFICES ASSUME NEW n \in DOMAIN writes', writes'[n].kind = "edit"
             PROVE  Untouched(writes'[n].edit)
  BY EditForms DEF FormsSound, Untouched
<1>1. CASE \E k \in DOMAIN writes : writes'[n] = writes[k]
  BY <1>1 DEF FormsSound
<1>2. CASE Navigate \/ Reload
  BY <1>1, <1>2 DEF Navigate, Reload
<1>3. CASE Quiet
  BY <1>1, <1>3, WritesAppended DEF Quiet, Typed
<1>4. CASE Submit
  <2>1. CASE HasGps
    BY <1>1, <1>4, <2>1 DEF Submit
  <2>2. CASE ~HasGps
    <3>1. ui.input \in Nat \ {0} /\ mount \in Nat \ {0}
      BY <1>4 DEF Submit, Typed, Forms
    <3>2. PICK w \in Transactions : w = Creation(mount, ui.input, FALSE)
      BY <3>1, NewTransactions
    <3>3. writes' = Append(writes, w) /\ w.kind = "create"
      BY <1>4, <2>2, <3>2 DEF Submit, Creation
    <3> QED
      BY <1>1, <3>3, WritesAppended DEF Typed
  <2> QED
    BY <2>1, <2>2
<1>5. CASE SubmitEdit
  <2>1. ui.edit \in Editing /\ mount \in Nat \ {0}
    BY DEF Typed, Forms
  <2>2. PICK w \in Transactions : w = [kind |-> "edit", mount |-> mount, edit |-> ui.edit]
    BY <2>1, NewTransactions
  <2>3. writes' = Append(writes, w) /\ w.edit = ui.edit /\ Untouched(ui.edit)
    BY <1>5, <2>2 DEF SubmitEdit, Write, FormsSound
  <2> QED
    BY <1>1, <2>3, WritesAppended DEF Typed
<1>6. ASSUME NEW c \in captures, NEW gps \in BOOLEAN, Resolved(c, gps)
      PROVE  Untouched(writes'[n].edit)
  <2>1. PICK w \in Transactions : w = Creation(c.mount, c.draft, gps)
    BY NewTransactions DEF Typed, Captured
  <2>2. writes' = Append(writes, w) /\ w.kind = "create"
    BY <1>6, <2>1 DEF Resolved, Creation
  <2> QED
    BY <1>1, <2>2, WritesAppended DEF Typed
<1>7. CASE Commit
  BY <1>1, <1>7, WritesShifted DEF Commit, Typed
<1> QED
  BY <1>2, <1>3, <1>4, <1>5, <1>6, <1>7, QuietSteps

-----------------------------------------------------------------------------
(* The banner.                                                              *)

LEMMA BannerInit == Init => BannerSound
  BY DEF Init, BannerSound, BannerIsTrue, Fresh

LEMMA BannerNewPage ==
  ASSUME Typed, BannerSound, Navigate \/ Reload, SavesSound
  PROVE  BannerSound'
<1>1. /\ ui'.busy = FALSE /\ ui'.banner = FALSE /\ stored' = stored
      /\ mount \in Nat /\ mount' = mount + 1
  <2>1. PICK to : Open(to)
    BY Zenon DEF Navigate, Reload
  <2>2. ui' = Fresh /\ mount' = mount + 1
    BY <2>1 DEF Open
  <2>3. stored' = stored
    BY Zenon DEF Navigate, Reload, store
  <2> QED
    BY <2>2, <2>3 DEF Fresh, Typed
<1>2. \A i \in DOMAIN stored : stored[i].mount \in Nat /\ stored[i].mount <= mount
  <2> SUFFICES ASSUME NEW i \in DOMAIN stored
               PROVE  stored[i].mount \in Nat /\ stored[i].mount <= mount
    OBVIOUS
  <2>1. stored[i] \in StoredRecords
    BY DEF Typed
  <2> QED
    BY <2>1 DEF StoredRecords, BannerSound
<1>3. \A i \in DOMAIN stored : stored[i].mount # mount' /\ stored[i].mount <= mount'
  BY <1>1, <1>2
<1>4. BannerIsTrue'
  BY <1>1, <1>3 DEF BannerIsTrue
<1>5. ASSUME NEW n \in DOMAIN writes', writes'[n].kind = "edit"
      PROVE  writes'[n].mount # mount'
  <2>1. n \in DOMAIN writes /\ writes'[n] = writes[n]
    BY DEF Navigate, Reload
  <2>2. writes[n].mount <= mount /\ writes[n].mount \in Nat
    BY <1>5, <2>1, Kinds DEF SavesSound, IsSave, Typed, Changes
  <2> QED
    BY <1>1, <2>1, <2>2
<1> QED
  BY <1>1, <1>3, <1>4, <1>5 DEF BannerSound

(* A step that ends no save and stores nothing, on the same page.             *)
LEMMA BannerSamePage ==
  ASSUME Typed, BannerSound, UNCHANGED <<page, mount, stored>>,
         \/ writes' = writes
         \/ \E w \in Transactions :
              /\ writes' = Append(writes, w)
              /\ w.kind = "edit" => page = "projects",
         \/ /\ ui'.banner = ui.banner /\ ui'.error = ui.error
            /\ ui'.busy = ui.busy
         \/ ui'.banner = FALSE /\ ui'.error = TRUE /\ ui'.busy = FALSE
         \/ ui'.banner = FALSE /\ ui'.error = FALSE /\ ui'.busy = TRUE
  PROVE  BannerSound'
<1>1. ASSUME NEW n \in DOMAIN writes', writes'[n].kind = "edit", page # "projects"
      PROVE  writes'[n].mount # mount
  BY <1>1, WritesAppended DEF Typed, BannerSound
<1>2. BannerIsTrue'
  BY DEF BannerSound, BannerIsTrue, HasGps
<1> QED
  BY <1>1, <1>2 DEF BannerSound

LEMMA BannerBegins ==
  ASSUME Typed, BannerSound, FormsSound, Submit \/ SubmitEdit
  PROVE  BannerSound'
<1>0. ui \in Forms /\ mount \in Nat \ {0} /\ ui.input \in Nat /\ ui.edit \in Editing
  BY DEF Typed, Forms
<1>1. CASE Submit
  <2>1. ui'.banner = FALSE /\ ui'.error = FALSE /\ ui'.busy = TRUE
    BY <1>0, <1>1 DEF Submit, Forms
  <2>2. UNCHANGED <<page, mount, stored>>
    BY <1>1 DEF Submit, screen, store
  <2>3. CASE HasGps
    BY <1>1, <2>1, <2>2, <2>3, BannerSamePage DEF Submit
  <2>4. CASE ~HasGps
    <3>1. ui.input \in Nat \ {0}
      BY <1>0, <1>1 DEF Submit
    <3>2. PICK w \in Transactions : w = Creation(mount, ui.input, FALSE)
      BY <1>0, <3>1, NewTransactions
    <3>3. writes' = Append(writes, w) /\ w.kind # "edit"
      BY <1>1, <2>4, <3>2 DEF Submit, Creation
    <3> QED
      BY <2>1, <2>2, <3>3, BannerSamePage
  <2> QED
    BY <2>3, <2>4
<1>2. CASE SubmitEdit
  <2>1. page = "projects" /\ UNCHANGED <<page, mount, stored>>
    BY <1>2 DEF SubmitEdit, Write, FormsSound, screen, store
  <2>2. ui.banner = FALSE
    BY <1>0, <2>1 DEF BannerSound, BannerIsTrue, HasGps, Forms
  <2>3. ui'.banner = FALSE /\ ui'.error = FALSE /\ ui'.busy = TRUE
    BY <1>0, <1>2, <2>2 DEF SubmitEdit, Forms
  <2>4. PICK w \in Transactions : w = [kind |-> "edit", mount |-> mount, edit |-> ui.edit]
    BY <1>0, NewTransactions
  <2>5. writes' = Append(writes, w)
    BY <1>2, <2>4 DEF SubmitEdit, Write
  <2> QED
    BY <2>1, <2>3, <2>5, BannerSamePage
<1> QED
  BY <1>1, <1>2

LEMMA BannerResolved ==
  ASSUME Typed, BannerSound, NEW c \in captures, NEW gps \in BOOLEAN, Resolved(c, gps)
  PROVE  BannerSound'
<1>0. ui \in Forms /\ c \in Captured
  BY DEF Typed
<1>1. PICK w \in Transactions : w = Creation(c.mount, c.draft, gps)
  BY <1>0, NewTransactions DEF Captured
<1>2. writes' = Append(writes, w) /\ w.kind # "edit" /\ UNCHANGED <<page, mount, stored>>
  BY <1>1 DEF Resolved, Creation, screen, store
<1>3. ui'.banner = ui.banner /\ ui'.error = ui.error /\ ui'.busy = ui.busy
  <2>1. CASE c.mount = mount
    BY <1>0, <2>1 DEF Resolved, Forms
  <2>2. CASE c.mount # mount
    BY <1>0, <2>2 DEF Resolved
  <2> QED
    BY <2>1, <2>2
<1> QED
  BY <1>2, <1>3, BannerSamePage

LEMMA BannerCommit ==
  ASSUME Typed, SavesSound, BannerSound, Commit
  PROVE  BannerSound'
<1>0. PICK w : w = writes[1]
  OBVIOUS
<1>1. /\ writes # <<>> /\ writes' = Tail(writes) /\ UNCHANGED <<page, mount>>
      /\ w \in Transactions /\ 1 \in DOMAIN writes
  BY <1>0, CommitEffects, WritesShifted DEF Typed
<1>2. \A n \in DOMAIN writes' : n + 1 \in DOMAIN writes /\ writes'[n] = writes[n + 1]
  BY <1>1, WritesShifted DEF Typed
<1>3. page' # "projects" => \A n \in DOMAIN writes' : writes'[n].kind = "edit" => writes'[n].mount # mount'
  BY <1>1, <1>2 DEF BannerSound
<1>4. /\ ui \in Forms /\ ui' \in Forms /\ stored \in Seq(StoredRecords)
  BY TypedCommit DEF Typed
<1> DEFINE Mine == IsSave(w) /\ w.mount = mount
<1>5. Mine => ui.busy /\ ~ui.error /\ ui.banner = FALSE
  BY <1>0, <1>1, <1>4 DEF SavesSound, BannerSound, BannerIsTrue, Writing, SaveAt, Forms
<1>6. CASE stored' = stored /\ ~Mine
  <2>1. ui' = ui
    BY <1>0, <1>6, CommitEffects
  <2>2. BannerIsTrue'
    BY <1>1, <1>6, <2>1 DEF BannerSound, BannerIsTrue, HasGps
  <2> QED
    BY <1>1, <1>3, <1>6, <2>1, <2>2 DEF BannerSound
<1>7. CASE stored' = stored /\ Mine
  <2>1. /\ ui'.banner = ui.banner /\ (ui'.busy = FALSE)
        /\ ui'.error = TRUE \/ w.kind = "edit"
    BY <1>0, <1>4, <1>7, CommitEffects DEF Forms
  <2>2. w.kind = "edit" => page = "projects"
    BY <1>0, <1>1, <1>7 DEF BannerSound
  <2>3. BannerIsTrue'
    BY <1>1, <1>5, <1>7, <2>1, <2>2 DEF BannerIsTrue, HasGps
  <2> QED
    BY <1>1, <1>3, <1>7, <2>1, <2>3 DEF BannerSound
<1>8. CASE stored' # stored
  <2> DEFINE new == [mount |-> w.mount, draft |-> w.draft, gps |-> w.gps]
             last == Len(stored) + 1
  <2>1. w.kind = "create" /\ w \in Creations /\ stored' = Append(stored, new)
    BY <1>0, <1>8, CommitEffects
  <2>2. new \in StoredRecords /\ new.mount = w.mount /\ new.gps = w.gps /\ w.mount <= mount
        /\ w.gps \in BOOLEAN /\ IsSave(w)
    BY <1>0, <1>1, <2>1 DEF Creations, StoredRecords, SavesSound, IsSave
  <2> HIDE DEF new
  <2>3. /\ \A n \in DOMAIN stored : stored'[n] = stored[n] /\ n \in DOMAIN stored' /\ n <= last
        /\ stored'[last] = new /\ last \in DOMAIN stored' /\ last \notin DOMAIN stored
        /\ \A n \in DOMAIN stored' : (n \in DOMAIN stored \/ n = last) /\ n <= last
        /\ \A n \in DOMAIN stored : ~(last <= n)
    BY <1>4, <2>1, <2>2, Appended
  <2> HIDE DEF last
  <2>4. \A i \in DOMAIN stored' : stored'[i].mount <= mount'
    BY <1>1, <2>2, <2>3 DEF BannerSound
  <2>5. CASE w.mount = mount
    <3>1. /\ ui'.error = FALSE /\ ui'.busy = FALSE /\ (ui'.banner <=> HasGps /\ ~w.gps)
      <4>1. Mine
        BY <2>2, <2>5
      <4> QED
        BY <1>0, <1>4, <1>5, <1>8, <2>5, <4>1, CommitEffects DEF Forms
    <3>2. (\E n \in {k \in DOMAIN stored' : stored'[k].mount = mount} :
             /\ ~stored'[n].gps
             /\ \A k \in {m \in DOMAIN stored' : stored'[m].mount = mount} : k <= n) <=> ~w.gps
      BY <2>2, <2>3, <2>5
    <3>3. BannerIsTrue'
      BY <1>1, <3>1, <3>2 DEF BannerIsTrue, HasGps
    <3> QED
      BY <1>3, <2>4, <3>1, <3>3 DEF BannerSound
  <2>6. CASE w.mount # mount
    <3>1. ui' = ui
      BY <1>0, <2>6, CommitEffects
    <3>2. {n \in DOMAIN stored' : stored'[n].mount = mount} = {n \in DOMAIN stored : stored[n].mount = mount}
      BY <2>2, <2>3, <2>6
    <3>3. BannerIsTrue'
      BY <1>1, <2>3, <3>1, <3>2 DEF BannerSound, BannerIsTrue, HasGps
    <3> QED
      BY <1>3, <2>4, <3>1, <3>3 DEF BannerSound
  <2> QED
    BY <2>5, <2>6
<1> QED
  BY <1>6, <1>7, <1>8

LEMMA BannerNext ==
  ASSUME Typed, SavesSound, BannerSound, FormsSound, [Next]_vars
  PROVE  BannerSound'
<1>1. CASE Quiet
  <2>1. ui \in Forms
    BY DEF Typed
  <2> QED
    BY <1>1, <2>1, BannerSamePage DEF Quiet, Forms
<1> QED
  BY <1>1, QuietSteps, BannerNewPage, BannerBegins, BannerResolved, BannerCommit

-----------------------------------------------------------------------------
(* The way of an inspection.                                                *)

LEMMA LifecycleInit == Init => LifecycleSound
  BY DEF Init, LifecycleSound, FirstRecord, Starts, Completes

(* The record and the card stay; the transactions are some of the old ones,   *)
(* or one more that is no step of an inspection and no wrong edit.           *)
LEMMA LifecycleKept ==
  ASSUME Typed, LifecycleSound, UNCHANGED <<record, shown>>, budget'.card = budget.card,
         \/ writes' = writes \/ writes' = <<>>
         \/ \E w \in Transactions :
              /\ writes' = Append(writes, w) /\ w.kind # "advance"
              /\ w.kind = "edit" => budget.card = "project"
  PROVE  LifecycleSound'
<1>1. CASE writes' = writes \/ writes' = <<>>
  BY <1>1 DEF LifecycleSound, Starts, Completes
<1>2. ASSUME NEW w \in Transactions, writes' = Append(writes, w), w.kind # "advance",
             w.kind = "edit" => budget.card = "project"
      PROVE  LifecycleSound'
  <2> DEFINE last == Len(writes) + 1
  <2>1. /\ \A n \in DOMAIN writes : writes'[n] = writes[n]
        /\ writes'[last] = w
        /\ \A n \in DOMAIN writes' : n \in DOMAIN writes \/ n = last
    BY <1>2, WritesAppended DEF Typed
  <2> HIDE DEF last
  <2>2. \A n \in DOMAIN writes' :
          /\ Starts(n)' => n \in DOMAIN writes /\ Starts(n)
          /\ Completes(n)' => n \in DOMAIN writes /\ Completes(n)
    BY <1>2, <2>1 DEF Starts, Completes
  <2>3. /\ \A n \in DOMAIN writes' : writes'[n].kind = "advance" => budget'.card = "inspection"
        /\ \A n \in DOMAIN writes' : writes'[n].kind = "edit" => budget'.card = "project"
    BY <1>2, <2>1 DEF LifecycleSound
  <2> QED
    BY <2>2, <2>3 DEF LifecycleSound
<1> QED
  BY <1>1, <1>2

(* A card is rendered.                                                       *)
LEMMA LifecycleRendered ==
  ASSUME Typed, LifecycleSound, UNCHANGED <<record, budget>>, shown' = record,
         writes' = writes \/ writes' = <<>>
  PROVE  LifecycleSound'
<1>1. \A n \in DOMAIN writes' :
        /\ n \in DOMAIN writes /\ writes'[n] = writes[n]
        /\ Starts(n)' <=> Starts(n)
        /\ Completes(n)' <=> Completes(n)
  BY DEF Starts, Completes
<1> QED
  BY <1>1 DEF LifecycleSound

LEMMA LifecycleAdvance ==
  ASSUME Typed, LifecycleSound, Advance
  PROVE  LifecycleSound'
<1>0. shown \in Records /\ record \in Records
  BY DEF Typed
<1> DEFINE next == NextStatus(shown.status)
<1>1. /\ next \in {"IN_PROGRESS", "COMPLETED"}
      /\ next = "IN_PROGRESS" <=> shown.status = "DRAFT"
  BY <1>0, NextStatuses DEF Advance, Records
<1>2. UNCHANGED <<record, shown, budget>> /\ budget.card = "inspection"
  BY DEF Advance, Write, screen, store, Click
<1> HIDE DEF next
<1>3. PICK w \in Transactions : w = [kind |-> "advance", status |-> next]
  BY <1>1, NewTransactions
<1>4. w.kind = "advance" /\ w.status = next /\ writes' = Append(writes, w)
  BY <1>3 DEF Advance, Write, next
<1>4a. PICK last : last = Len(writes) + 1
  OBVIOUS
<1>5. /\ \A n \in DOMAIN writes : writes'[n] = writes[n] /\ n < last
      /\ writes'[last] = w
      /\ \A n \in DOMAIN writes' : n \in DOMAIN writes \/ n = last
  BY <1>4, <1>4a, WritesAppended DEF Typed
<1>6. \A n \in DOMAIN writes : (Starts(n)' <=> Starts(n)) /\ (Completes(n)' <=> Completes(n))
  BY <1>5 DEF Starts, Completes
<1>7. (Starts(last)' <=> next = "IN_PROGRESS") /\ (Completes(last)' <=> next = "COMPLETED")
  BY <1>4, <1>5 DEF Starts, Completes
<1>8. /\ \A n \in DOMAIN writes' : writes'[n].kind = "advance" => budget'.card = "inspection"
      /\ \A n \in DOMAIN writes' : writes'[n].kind = "edit" => budget'.card = "project"
  BY <1>2, <1>4, <1>5 DEF LifecycleSound
<1>9. \A n \in DOMAIN writes' : Completes(n)' => shown'.status # "DRAFT"
  BY <1>1, <1>2, <1>5, <1>6, <1>7 DEF LifecycleSound
<1>10. \A i, j \in DOMAIN writes' : Completes(i)' /\ Starts(j)' => j < i
  BY <1>1, <1>5, <1>6, <1>7 DEF LifecycleSound
<1>11. record'.by = "me" /\ record'.status = "COMPLETED" /\ ~record'.deleted =>
         shown'.status # "DRAFT" /\ \A n \in DOMAIN writes' : ~Starts(n)'
  BY <1>1, <1>2, <1>5, <1>6, <1>7 DEF LifecycleSound
<1> QED
  BY <1>2, <1>8, <1>9, <1>10, <1>11 DEF LifecycleSound

(* The record changes; the transactions stay, or the first of them ends.      *)
LEMMA LifecycleChanged ==
  ASSUME Typed, LifecycleSound, UNCHANGED shown, budget'.card = budget.card,
         NEW s \in {0, 1},
         \A n \in DOMAIN writes' :
           n \in Nat /\ n + s \in DOMAIN writes /\ writes'[n] = writes[n + s],
         budget.card = "project" => record'.status = record.status,
         record.status # "DRAFT" => record'.status # "DRAFT",
         record'.by = "me" /\ record'.status = "COMPLETED" /\ ~record'.deleted =>
           shown.status # "DRAFT" /\ \A n \in DOMAIN writes' : ~Starts(n + s)
  PROVE  LifecycleSound'
<1>1. \A n \in DOMAIN writes' :
        /\ Starts(n)' <=> Starts(n + s)
        /\ Completes(n)' <=> Completes(n + s)
  BY DEF Starts, Completes
<1>2. ASSUME NEW i \in DOMAIN writes', NEW j \in DOMAIN writes', Completes(i)', Starts(j)'
      PROVE  j < i
  <2>1. j + s < i + s
    BY <1>1, <1>2 DEF LifecycleSound
  <2> QED
    BY <2>1
<1> QED
  BY <1>1, <1>2 DEF LifecycleSound

LEMMA LifecyclePull ==
  ASSUME Typed, LifecycleSound, Pull
  PROVE  LifecycleSound'
<1>1. record \in Records /\ UNCHANGED <<shown, budget, writes>>
  BY DEF Typed, Pull, screen
<1>2. PICK r \in Theirs \cup {[record EXCEPT !.deleted = TRUE, !.by = "peer"]} :
        record' = [r EXCEPT !.version = @ + 1]
  BY DEF Pull
<1>3. /\ r \in Records /\ r.by = "peer"
      /\ budget.card = "project" => r.status = record.status
      /\ record.status # "DRAFT" => r.status # "DRAFT"
  BY <1>1, TheirsTyped DEF Records
<1>4. record'.by = "peer" /\ record'.status = r.status
  BY <1>2, <1>3 DEF Records
<1>5. \A n \in DOMAIN writes' :
        n \in Nat /\ n + 0 \in DOMAIN writes /\ writes'[n] = writes[n + 0]
  BY <1>1 DEF Typed
<1> QED
  BY <1>1, <1>3, <1>4, <1>5, LifecycleChanged

(* What a transaction that ends does to the record.                          *)
LEMMA CommitRecord ==
  ASSUME Typed, Commit
  PROVE  LET w == writes[1] IN
         \/ record' = record
         \/ /\ w.kind = "edit" /\ w \in Changes /\ Writable
            /\ record'.fields = w.edit.fields /\ record'.status = record.status
            /\ conflicts' = conflicts
         \/ /\ w.kind = "advance" /\ w \in Advances /\ Writable
            /\ record'.status = w.status /\ record'.deleted = record.deleted
            /\ conflicts' = conflicts
         \/ /\ w.kind = "delete" /\ record'.deleted = TRUE /\ Writable
            /\ record'.status = record.status /\ conflicts' = conflicts
         \/ /\ w.kind = "resolve" /\ record' \in Snapshots
<1>0. PICK w : w = Head(writes)
  OBVIOUS
<1>1. w = writes[1] /\ w \in Transactions /\ record \in Records
  BY <1>0, WritesShifted DEF Commit, Typed
<1>2. (Allowed(w) /\ TakesEffect(w)) \/ Throws(w)
  BY <1>0 DEF Commit
<1>3. ASSUME NEW r \in Records, Put(r)
      PROVE  /\ record'.fields = r.fields /\ record'.status = r.status
             /\ record'.deleted = r.deleted /\ conflicts' = conflicts
  BY <1>3 DEF Put, Records
<1>4. CASE Throws(w)
  BY <1>4 DEF Throws, store
<1>5. CASE Allowed(w) /\ w.kind = "create" /\ Created(w)
  BY <1>5 DEF Created
<1>6. CASE Allowed(w) /\ w.kind = "edit" /\ Edited(w)
  <2>1. w \in Changes /\ w.edit.fields \in [Fields -> Texts] /\ Writable
    BY <1>1, <1>6, Kinds DEF Changes, Editing, Allowed
  <2> DEFINE r == [record EXCEPT !.fields = w.edit.fields]
  <2>2. r \in Records /\ r.fields = w.edit.fields /\ r.status = record.status
    BY <1>1, <2>1 DEF Records
  <2>3. Put(r)
    BY <1>6 DEF Edited
  <2> HIDE DEF r
  <2> QED
    BY <1>1, <1>3, <1>6, <2>1, <2>2, <2>3
<1>7. CASE Allowed(w) /\ w.kind = "advance" /\ Advanced(w)
  <2>1. w \in Advances /\ w.status \in {"IN_PROGRESS", "COMPLETED"} /\ Writable
    BY <1>1, <1>7, Kinds DEF Advances, Allowed
  <2> DEFINE r == [record EXCEPT !.status = w.status]
  <2>2. r \in Records /\ r.status = w.status /\ r.deleted = record.deleted
    BY <1>1, <2>1 DEF Records
  <2>3. Put(r)
    BY <1>7 DEF Advanced
  <2> HIDE DEF r
  <2> QED
    BY <1>1, <1>3, <1>7, <2>1, <2>2, <2>3
<1>8. CASE Allowed(w) /\ w.kind = "delete" /\ Deleted
  <2> DEFINE r == [record EXCEPT !.deleted = TRUE]
  <2>1. r \in Records /\ r.deleted = TRUE /\ r.status = record.status /\ Writable
    BY <1>1, <1>8 DEF Records, Allowed
  <2>2. Put(r)
    BY <1>8 DEF Deleted
  <2> HIDE DEF r
  <2> QED
    BY <1>1, <1>3, <1>8, <2>1, <2>2
<1>9. CASE Allowed(w) /\ w.kind = "resolve" /\ Answered(w)
  BY <1>1, <1>9 DEF Answered
<1> QED
  BY <1>1, <1>2, <1>4, <1>5, <1>6, <1>7, <1>8, <1>9, Kinds DEF TakesEffect

LEMMA LifecycleCommit ==
  ASSUME Typed, LifecycleSound, Commit
  PROVE  LifecycleSound'
<1>0. PICK w : w = writes[1]
  OBVIOUS
<1>1. /\ UNCHANGED shown /\ budget'.card = budget.card /\ record \in Records
      /\ writes # <<>> /\ writes' = Tail(writes) /\ 1 \in DOMAIN writes
  BY CommitEffects, WritesShifted DEF Typed
<1>2. \A n \in DOMAIN writes' :
        n \in Nat /\ n + 1 \in DOMAIN writes /\ writes'[n] = writes[n + 1]
        /\ ~(n + 1 < 1)
  BY <1>1, WritesShifted, TailOf DEF Typed
<1>3. /\ budget.card = "project" => record'.status = record.status
      /\ record.status # "DRAFT" => record'.status # "DRAFT"
      /\ record'.by = "me" /\ record'.status = "COMPLETED" /\ ~record'.deleted =>
           shown.status # "DRAFT" /\ \A n \in DOMAIN writes' : ~Starts(n + 1)
  <2>1. CASE record' = record
    BY <1>2, <2>1 DEF LifecycleSound
  <2>2. CASE w.kind = "edit" /\ record'.status = record.status
    BY <1>0, <1>1, <2>2 DEF LifecycleSound
  <2>3. CASE w.kind = "advance" /\ w \in Advances /\ record'.status = w.status
    <3>1. w.status = "COMPLETED" => Completes(1)
      BY <1>0, <2>3 DEF Completes
    <3>2. budget.card = "inspection" /\ w.status # "DRAFT"
      BY <1>0, <1>1, <2>3 DEF LifecycleSound, Advances
    <3>3. ASSUME Completes(1)
          PROVE  shown.status # "DRAFT" /\ \A n \in DOMAIN writes' : ~Starts(n + 1)
      BY <1>1, <1>2, <3>3 DEF LifecycleSound
    <3> QED
      BY <2>3, <3>1, <3>2, <3>3
  <2>4. CASE record'.deleted = TRUE /\ record'.status = record.status
    BY <2>4
  <2>5. CASE record' \in Snapshots
    <3>1. PICK r \in Snapshots : r = record'
      BY <2>5
    <3> QED
      BY <1>1, <3>1, SnapshotsTyped
  <2> QED
    BY <1>0, <2>1, <2>2, <2>3, <2>4, <2>5, CommitRecord
<1> QED
  BY <1>1, <1>2, <1>3, LifecycleChanged

LEMMA LifecycleNext ==
  ASSUME Typed, FormsSound, LifecycleSound, [Next]_vars
  PROVE  LifecycleSound'
<1>0. ui \in Forms /\ mount \in Nat \ {0} /\ ui.input \in Nat /\ ui.edit \in Editing
  BY DEF Typed, Forms
<1>1. CASE Navigate \/ Reload
  BY <1>1, LifecycleRendered DEF Navigate, Reload, Open, store
<1>2. CASE Render
  BY <1>2, LifecycleRendered, LifecycleKept DEF Render, store
<1>3. CASE \/ UNCHANGED vars \/ ToggleForm \/ RefuseNumber \/ OpenEdit \/ CancelEdit
           \/ \E f \in Fields : TypeEdit(f)
           \/ \E c \in Conflicts : Found(c)
  BY <1>3, LifecycleKept
     DEF vars, ToggleForm, RefuseNumber, OpenEdit, CancelEdit, TypeEdit, Found, Local, screen, store
<1>4. CASE Type
  <2>1. budget'.card = budget.card
    BY <1>4 DEF Type, Typed, Bounds
  <2> QED
    BY <1>4, <2>1, LifecycleKept DEF Type, Local, screen, store
<1>5. ASSUME NEW w \in Transactions, writes' = Append(writes, w), w.kind # "advance",
             w.kind = "edit" => budget.card = "project", UNCHANGED <<record, shown, budget>>
      PROVE  LifecycleSound'
  BY <1>5, LifecycleKept
<1>6. CASE Submit
  <2>1. UNCHANGED <<record, shown, budget>>
    BY <1>6 DEF Submit, screen, store
  <2>2. CASE HasGps
    BY <1>6, <2>1, <2>2, LifecycleKept DEF Submit
  <2>3. CASE ~HasGps
    <3>1. ui.input \in Nat \ {0}
      BY <1>0, <1>6 DEF Submit
    <3>2. PICK w \in Transactions : w = Creation(mount, ui.input, FALSE)
      BY <1>0, <3>1, NewTransactions
    <3>3. writes' = Append(writes, w) /\ w.kind = "create"
      BY <1>6, <2>3, <3>2 DEF Submit, Creation
    <3> QED
      BY <1>5, <2>1, <3>3
  <2> QED
    BY <2>2, <2>3
<1>7. ASSUME NEW c \in captures, NEW gps \in BOOLEAN, Resolved(c, gps)
      PROVE  LifecycleSound'
  <2>1. PICK w \in Transactions : w = Creation(c.mount, c.draft, gps)
    BY NewTransactions DEF Typed, Captured
  <2>2. writes' = Append(writes, w) /\ w.kind = "create" /\ UNCHANGED <<record, shown, budget>>
    BY <1>7, <2>1 DEF Resolved, Creation, screen, store
  <2> QED
    BY <1>5, <2>2
<1>8. CASE SubmitEdit
  <2>1. PICK w \in Transactions : w = [kind |-> "edit", mount |-> mount, edit |-> ui.edit]
    BY <1>0, NewTransactions
  <2>2. /\ writes' = Append(writes, w) /\ w.kind = "edit" /\ budget.card = "project"
        /\ UNCHANGED <<record, shown, budget>>
    BY <1>8, <2>1 DEF SubmitEdit, Write, FormsSound, screen, store
  <2> QED
    BY <1>5, <2>2
<1>9. CASE \E card \in Cards : Discard(card)
  <2>1. PICK w \in Transactions : w = [kind |-> "delete"]
    BY NewTransactions
  <2>2. writes' = Append(writes, w) /\ w.kind = "delete" /\ UNCHANGED <<record, shown, budget>>
    BY <1>9, <2>1 DEF Discard, Write, screen, store
  <2> QED
    BY <1>5, <2>2
<1>10. ASSUME NEW c \in Conflicts, NEW r \in {"KEEP_SERVER", "KEEP_MINE"}, ClickResolve(c, r)
       PROVE  LifecycleSound'
  <2>1. PICK w \in Transactions : w = [kind |-> "resolve", conflict |-> c, resolution |-> r]
    BY NewTransactions
  <2>2. writes' = Append(writes, w) /\ w.kind = "resolve" /\ UNCHANGED <<record, shown, budget>>
    BY <1>10, <2>1 DEF ClickResolve, Write, screen, store
  <2> QED
    BY <1>5, <2>2
<1> QED
  BY <1>1, <1>2, <1>3, <1>4, <1>6, <1>7, <1>8, <1>9, <1>10,
     LifecycleAdvance, LifecyclePull, LifecycleCommit DEF Next, CallsBack, TimerFires

-----------------------------------------------------------------------------
(* The theorems.                                                            *)

LEMMA AlwaysUsable == Spec => []Usable
<1>1. Init => Usable
  BY TypedInit, SavesInit, DraftsInit, BannerInit, FormsInit, LifecycleInit DEF Usable
<1>2. Usable /\ [Next]_vars => Usable'
  BY TypedNext, SavesNext, DraftsNext, BannerNext, FormsNext, LifecycleNext DEF Usable
<1> QED
  BY <1>1, <1>2, PTL DEF Spec

(* Different numbers between two bounds are no more than fit between them.    *)
LEMMA DraftsFit ==
  ASSUME NEW lo \in Nat, NEW hi \in Nat, lo <= hi, NEW s \in Seq(StoredRecords),
         \A i \in DOMAIN s : lo < s[i].draft /\ s[i].draft <= hi,
         \A i, j \in DOMAIN s : s[i].draft = s[j].draft => i = j
  PROVE  lo + Len(s) <= hi
<1> DEFINE S == 1 .. Len(s)
           T == lo + 1 .. hi
           f == [i \in S |-> s[i].draft]
<1>1. S = DOMAIN s /\ Len(s) \in Nat
  OBVIOUS
<1>2. \A i \in S : s[i].draft \in Nat
  <2> SUFFICES ASSUME NEW i \in S PROVE s[i].draft \in Nat
    OBVIOUS
  <2>1. s[i] \in StoredRecords
    BY <1>1
  <2> QED
    BY <2>1 DEF StoredRecords
<1>3. f \in [S -> T]
  BY <1>1, <1>2
<1>4. f \in Injection(S, T)
  BY <1>1, <1>3 DEF Injection, IsInjective
<1>5. /\ IsFiniteSet(S) /\ Cardinality(S) = Len(s)
      /\ IsFiniteSet(T) /\ Cardinality(T) = hi - lo
  <2>1. Cardinality(S) = IF 1 <= Len(s) THEN Len(s) - 1 + 1 ELSE 0
    BY <1>1, FS_Interval
  <2>2. Cardinality(T) = IF lo + 1 <= hi THEN hi - (lo + 1) + 1 ELSE 0
    BY FS_Interval
  <2>3. IsFiniteSet(S) /\ IsFiniteSet(T)
    BY <1>1, FS_Interval
  <2> QED
    BY <1>1, <2>1, <2>2, <2>3
<1> HIDE DEF S, T, f
<1>6. Cardinality(S) <= Cardinality(T)
  BY <1>4, <1>5, FS_Injection
<1> QED
  BY <1>1, <1>5, <1>6

(* Every variable keeps its type, the mounts and texts of a behaviour stay    *)
(* within its budget, and no more records are stored than were typed.        *)
THEOREM WebTypesCorrect == Spec => []TypeOK
<1>1. Usable => TypeOK
  <2> SUFFICES ASSUME Usable PROVE TypeOK
    OBVIOUS
  <2>1. Typed /\ SavesSound /\ DraftsSound /\ BudgetSound
    BY DEF Usable
  <2>2. PICK b \in Budgets :
      /\ budget.mounts = b.mounts /\ budget.drafts <= b.drafts /\ budget.faults <= b.faults
      /\ mount <= budget.mounts
      /\ \A i \in DOMAIN stored : Typewritten(stored[i].draft, b)
    BY <2>1 DEF BudgetSound
  <2>3. b.drafts \in Nat /\ b.mounts \in Nat
    BY WebAssumption
  <2>4. page \in {Path[n] : n \in DOMAIN Path} /\ mount \in Mounts
    <3>1. mount \in Nat \ {0} /\ mount \in 1 .. b.mounts
      BY <2>1, <2>2, <2>3 DEF Typed
    <3> QED
      BY <2>1, <3>1 DEF Typed, Pages, Mounts
  <2>5. ui.input \in Nat /\ ui.gps \in {"idle", "capturing", "success", "degraded"}
    BY <2>1 DEF Typed, Forms
  <2>6. captures \subseteq [mount : 1 .. mount, draft : Nat \ {0}]
    <3> SUFFICES ASSUME NEW c \in captures
                 PROVE  c \in [mount : 1 .. mount, draft : Nat \ {0}]
      OBVIOUS
    <3>1. c \in Captured /\ c.mount <= mount /\ mount \in Nat
      BY <2>1 DEF Typed, SavesSound
    <3> QED
      BY <3>1 DEF Captured
  <2>7. record \in Records /\ shown \in Records
    BY <2>1 DEF Typed
  <2>8. /\ \A c \in Conflicts : conflicts[c] \in {"NONE", "PENDING", "KEEP_SERVER", "KEEP_MINE"}
        /\ drawer.pending \subseteq Conflicts /\ drawer.resolving \in Conflicts \cup {"none"}
    BY <2>1 DEF Typed
  <2>9. budget.drafts + Len(stored) <= b.drafts
    <3>1. /\ budget.drafts \in Nat /\ budget.drafts <= b.drafts /\ stored \in Seq(StoredRecords)
          /\ \A i \in DOMAIN stored : budget.drafts < stored[i].draft /\ stored[i].draft <= b.drafts
          /\ \A i, j \in DOMAIN stored : stored[i].draft = stored[j].draft => i = j
      BY <2>1, <2>2 DEF Typed, Bounds, Typewritten, DraftsSound, DraftsSavedOnce
    <3> QED
      BY <2>3, <3>1, DraftsFit
  <2> QED
    BY <2>2, <2>4, <2>5, <2>6, <2>7, <2>8, <2>9 DEF TypeOK
<1> QED
  BY <1>1, AlwaysUsable, PTL

(* isSubmitting is set exactly while one save of the page on the screen is    *)
(* under way, and never two are.                                            *)
THEOREM PagesSaveOnce == Spec => []OneSavePerPage
<1>1. Usable => OneSavePerPage
  <2> SUFFICES ASSUME Usable PROVE OneSavePerPage
    OBVIOUS
  <2>1. SavesSound
    BY DEF Usable
  <2>2. Saves(mount) # {} <=> Waiting(mount) \/ Writing(mount)
    BY DEF Saves, Waiting, Writing, SaveAt, IsSave
  <2>3. ASSUME NEW v \in Saves(mount), NEW w \in Saves(mount) PROVE v = w
    <3>1. \/ v \in captures /\ v.mount = mount
          \/ \E n \in DOMAIN writes : IsSave(writes[n]) /\ writes[n].mount = mount /\ v = writes[n]
      BY <2>3 DEF Saves, IsSave
    <3>2. \/ w \in captures /\ w.mount = mount
          \/ \E n \in DOMAIN writes : IsSave(writes[n]) /\ writes[n].mount = mount /\ w = writes[n]
      BY <2>3 DEF Saves, IsSave
    <3> QED
      BY <2>1, <3>1, <3>2 DEF SavesSound, SaveAt
  <2> QED
    BY <2>1, <2>2, <2>3 DEF OneSavePerPage, SavesSound, Waiting
<1> QED
  BY <1>1, AlwaysUsable, PTL

(* A text typed into the form of a new record is stored once at most.         *)
THEOREM DraftsAreSavedOnce == Spec => []DraftsSavedOnce
<1>1. Usable => DraftsSavedOnce
  BY DEF Usable, DraftsSound
<1> QED
  BY <1>1, AlwaysUsable, PTL

(* The banner speaks of the last record saved from the page on the screen.    *)
THEOREM BannerSpeaksTruly == Spec => []BannerIsTrue
<1>1. Usable => BannerIsTrue
  BY DEF Usable, BannerSound
<1> QED
  BY <1>1, AlwaysUsable, PTL

-----------------------------------------------------------------------------
(* What a step may do to the record and to the answers.                      *)

(* Only a pull and the end of a transaction change the record, and only the    *)
(* latter and a push that finds a conflict change what is known of one.       *)
LEMMA WhoChanges ==
  ASSUME [Next]_vars
  PROVE  /\ record' = record \/ Pull \/ Commit
         /\ conflicts' = conflicts \/ Commit \/ \E c \in Conflicts : Found(c)
  BY DEF Next, vars, screen, store, Navigate, Reload, Render, ToggleForm, Type, RefuseNumber,
         Submit, CallsBack, TimerFires, Resolved, OpenEdit, CancelEdit, SubmitEdit, Advance,
         TypeEdit, Discard, Pull, Found, ClickResolve, Local, Write

LEMMA PullIsTheirs ==
  ASSUME Typed, Pull
  PROVE  record'.by = "peer"
<1>1. PICK r \in Theirs \cup {[record EXCEPT !.deleted = TRUE, !.by = "peer"]} :
        record' = [r EXCEPT !.version = @ + 1]
  BY DEF Pull
<1>2. r \in Records /\ r.by = "peer"
  <2>1. PICK d : d = [record EXCEPT !.deleted = TRUE, !.by = "peer"]
    OBVIOUS
  <2>2. d \in Records /\ d.by = "peer"
    BY <2>1 DEF Typed, Records
  <2> QED
    BY <1>1, <2>1, <2>2, TheirsTyped DEF Typed
<1> QED
  BY <1>1, <1>2 DEF Records

(* While a conflict is unresolved no click changes the record.               *)
THEOREM LockedRecordsAreLeftAlone == Spec => LockedRecordsStay
<1>1. Usable /\ [Next]_vars => [Locked /\ Locked' /\ record' # record => record'.by = "peer"]_vars
  <2> SUFFICES ASSUME Usable, [Next]_vars, Locked, record' # record
               PROVE  record'.by = "peer"
    OBVIOUS
  <2>1. Typed /\ ~Writable
    BY DEF Usable, Writable
  <2>2. CASE Pull
    BY <2>1, <2>2, PullIsTheirs
  <2>3. CASE Commit
    <3>1. record' \in Snapshots
      BY <2>1, <2>3, CommitRecord
    <3>2. record \in Records
      BY <2>1 DEF Typed
    <3> QED
      BY <3>1, <3>2, SnapshotsTyped
  <2> QED
    BY <2>2, <2>3, WhoChanges
<1> QED
  BY <1>1, AlwaysUsable, PTL DEF Spec, LockedRecordsStay

(* An answer to a conflict is final.                                         *)
THEOREM AnswersAreFinal == Spec => AnswersStand
<1> DEFINE Stand == \A c \in Conflicts :
             conflicts[c] \in {"KEEP_SERVER", "KEEP_MINE"} => conflicts'[c] = conflicts[c]
<1>1. Usable /\ [Next]_vars => [Stand]_vars
  <2> SUFFICES ASSUME Usable, [Next]_vars
               PROVE  Stand
    OBVIOUS
  <2>1. Typed
    BY DEF Usable
  <2>2. ASSUME NEW d \in Conflicts, Found(d) PROVE Stand
    BY <2>1, <2>2 DEF Found, Typed
  <2>3. CASE Commit
    <3>1. PICK w : w = Head(writes)
      OBVIOUS
    <3>2. w \in Transactions
      BY <2>1, <2>3, <3>1, WritesShifted DEF Commit, Typed
    <3>3. (Allowed(w) /\ TakesEffect(w)) \/ Throws(w)
      BY <2>3, <3>1 DEF Commit
    <3>4. CASE w.kind = "resolve" /\ Allowed(w) /\ TakesEffect(w)
      <4>1. w.conflict \in Conflicts /\ conflicts[w.conflict] = "PENDING"
        BY <3>2, <3>4, Kinds DEF Resolutions, Allowed, Answerable
      <4>2. \A c \in Conflicts \ {w.conflict} : conflicts'[c] = conflicts[c]
        BY <2>1, <3>4 DEF TakesEffect, Answered, Typed
      <4> QED
        BY <4>1, <4>2
    <3>5. CASE Throws(w) \/ (w.kind # "resolve" /\ TakesEffect(w))
      <4>1. conflicts' = conflicts
        BY <3>2, <3>5, Kinds DEF Throws, store, TakesEffect, Created, Edited, Advanced, Deleted, Put
      <4> QED
        BY <4>1
    <3> QED
      BY <3>3, <3>4, <3>5
  <2> QED
    BY <2>2, <2>3, WhoChanges
<1> QED
  BY <1>1, AlwaysUsable, PTL DEF Spec, AnswersStand

-----------------------------------------------------------------------------
(* Nothing shown is undone.                                                 *)

LEMMA Ranks ==
  Rank("DRAFT") = 1 /\ Rank("IN_PROGRESS") = 2 /\ Rank("COMPLETED") = 3
<1>1. /\ \A n \in DOMAIN Lifecycle : n = 1 \/ n = 2 \/ n = 3
      /\ 1 \in DOMAIN Lifecycle /\ 2 \in DOMAIN Lifecycle /\ 3 \in DOMAIN Lifecycle
      /\ Lifecycle[1] = "DRAFT" /\ Lifecycle[2] = "IN_PROGRESS" /\ Lifecycle[3] = "COMPLETED"
  BY DEF Lifecycle
<1>2. ASSUME NEW s, NEW k \in DOMAIN Lifecycle, Lifecycle[k] = s,
             \A n \in DOMAIN Lifecycle : Lifecycle[n] = s => n = k
      PROVE  Rank(s) = k
  BY <1>2 DEF Rank
<1>3. \A n \in DOMAIN Lifecycle : Lifecycle[n] = "DRAFT" => n = 1
  BY <1>1
<1>4. \A n \in DOMAIN Lifecycle : Lifecycle[n] = "IN_PROGRESS" => n = 2
  BY <1>1
<1>5. \A n \in DOMAIN Lifecycle : Lifecycle[n] = "COMPLETED" => n = 3
  BY <1>1
<1> HIDE DEF Lifecycle
<1> QED
  BY <1>1, <1>2, <1>3, <1>4, <1>5

(* A transaction that ends is the only way the queue loses its first and the   *)
(* record changes.                                                          *)
LEMMA OneEnds ==
  ASSUME Typed, [Next]_vars, writes # <<>>, writes' = Tail(writes), record' # record
  PROVE  Commit
<1>1. writes' # writes
  BY TailOf DEF Typed
<1>2. ~Pull
  BY <1>1 DEF Pull
<1> QED
  BY <1>2, WhoChanges

(* No save of the edit form takes back a field that was not typed into, and   *)
(* no click takes back a status, unless another device changed the record.   *)
THEOREM ShownIsKept == Spec => NothingShownIsUndone
<1> DEFINE Undoes ==
      \A n \in 1 .. Len(writes) :
        n = 1 /\ writes' = Tail(writes) =>
          LET w == writes[1] IN
          /\ w.kind = "edit" =>
               \A f \in Fields \ w.edit.touched :
                 record'.fields[f] # record.fields[f] => record # w.edit.seen
          /\ w.kind = "advance" =>
               Rank(record'.status) >= Rank(record.status) \/ record.by = "peer"
<1>1. Usable /\ [Next]_vars => [Undoes]_vars
  <2> SUFFICES ASSUME Usable, [Next]_vars, NEW n \in 1 .. Len(writes), n = 1,
                      writes' = Tail(writes)
               PROVE  /\ writes[1].kind = "edit" =>
                           \A f \in Fields \ writes[1].edit.touched :
                             record'.fields[f] # record.fields[f] => record # writes[1].edit.seen
                      /\ writes[1].kind = "advance" =>
                           Rank(record'.status) >= Rank(record.status) \/ record.by = "peer"
    OBVIOUS
  <2>1. PICK w : w = writes[1]
    OBVIOUS
  <2>2. Typed /\ FormsSound /\ LifecycleSound
    BY DEF Usable
  <2>3. 1 \in DOMAIN writes /\ writes # <<>> /\ w \in Transactions /\ record \in Records
    BY <2>1, <2>2 DEF Typed
  <2>4. CASE record' = record
    <3>1. Rank(record.status) \in Nat
      BY <2>3, Ranks DEF Records
    <3> QED
      BY <2>4, <3>1
  <2>5. CASE record' # record
    <3>1. Commit
      BY <2>2, <2>3, <2>5, OneEnds
    <3>2. ASSUME w.kind = "edit", NEW f \in Fields \ w.edit.touched,
                 record'.fields[f] # record.fields[f]
          PROVE  record # w.edit.seen
      <4>1. record'.fields = w.edit.fields
        BY <2>1, <2>2, <2>5, <3>1, <3>2, CommitRecord
      <4>2. w.edit.fields[f] = w.edit.seen.fields[f]
        BY <2>1, <2>2, <2>3, <3>2 DEF FormsSound, Untouched
      <4> QED
        BY <3>2, <4>1, <4>2
    <3>3. ASSUME w.kind = "advance", record.by # "peer"
          PROVE  Rank(record'.status) >= Rank(record.status)
      <4>1. w \in Advances /\ record'.status = w.status /\ Writable
        BY <2>1, <2>2, <2>5, <3>1, <3>3, CommitRecord
      <4>2. CASE w.status = "COMPLETED"
        BY <2>3, <4>1, <4>2, Ranks DEF Records
      <4>3. CASE w.status = "IN_PROGRESS"
        <5>1. record.status # "COMPLETED"
          BY <2>1, <2>2, <2>3, <3>3, <4>1, <4>3 DEF LifecycleSound, Starts, Writable, Records
        <5> QED
          BY <2>3, <4>1, <4>3, <5>1, Ranks DEF Records
      <4> QED
        BY <4>1, <4>2, <4>3 DEF Advances
    <3> QED
      BY <2>1, <3>2, <3>3
  <2> QED
    BY <2>4, <2>5
<1> QED
  BY <1>1, AlwaysUsable, PTL DEF Spec, NothingShownIsUndone
=============================================================================
