----------------------------- MODULE EditQueue -----------------------------
(***************************************************************************)
(* What the queue of a device promises its user, without batches, requests, *)
(* backoff, repetitions or restarts: an edit is handed over when it is made, *)
(* decided at most once against the record as it then is, and reported as   *)
(* what it was decided to be.  An edit enters the history of its record      *)
(* again only after it was turned down and the user asked for it.           *)
(* DeviceSync implements it.                                               *)
(***************************************************************************)
EXTENDS Naturals, Sequences, FiniteSets

CONSTANTS
  Entities,
  Existing,  \* entities at version 1 from the start
  MaxOps     \* bound on the operations

VARIABLES
  queue,     \* the operations handed over: [entity, kind, base, edit]
  log,       \* the changes made, by anybody: [entity, edit, tombstone]
  verdict,   \* "NONE", "APPLIED" or "TURNED_DOWN" for every operation
  report     \* what the user is told: "WAITING", "SYNCED", "CONFLICT" or "GIVEN_UP"

vars == <<queue, log, verdict, report>>

Changes(e) == {n \in DOMAIN log : log[n].entity = e}
Version(e) == Cardinality(Changes(e)) + (IF e \in Existing THEN 1 ELSE 0)
Deleted(e) == \E n \in Changes(e) : log[n].tombstone

Fits(o) ==
  IF o.kind = "CREATE" THEN Version(o.entity) = 0
  ELSE Version(o.entity) = o.base /\ o.base > 0 /\ ~Deleted(o.entity)

Init ==
  /\ queue = <<>> /\ log = <<>>
  /\ verdict = [i \in 1 .. MaxOps |-> "NONE"]
  /\ report = [i \in 1 .. MaxOps |-> "WAITING"]

(* The queue grows by one operation, the newest.                            *)
Grows ==
  /\ Len(queue) < MaxOps
  /\ Len(queue') = Len(queue) + 1
  /\ SubSeq(queue', 1, Len(queue)) = queue

Newest == queue'[Len(queue')]

(* A new edit, named after its operation.                                   *)
HandOver ==
  /\ UNCHANGED <<log, verdict, report>>
  /\ Grows
  /\ Newest.entity \in Entities /\ Newest.edit = Len(queue')

Apply(i) ==
  /\ UNCHANGED <<queue, report>>
  /\ verdict[i] = "NONE" /\ Fits(queue[i])
  /\ verdict' = [verdict EXCEPT ![i] = "APPLIED"]
  /\ log' = Append(log, [entity |-> queue[i].entity, edit |-> queue[i].edit,
                         tombstone |-> queue[i].kind = "DELETE"])

TurnDown(i) ==
  /\ UNCHANGED <<queue, log, report>>
  /\ verdict[i] = "NONE" /\ ~Fits(queue[i])
  /\ verdict' = [verdict EXCEPT ![i] = "TURNED_DOWN"]

(* Operations are reported on, each once and truly.  Giving up needs no      *)
(* verdict: the server may fail, or not serve the device any more.          *)
Truthful(i, news) ==
  CASE news = "SYNCED" -> verdict[i] = "APPLIED"
    [] news = "CONFLICT" -> verdict[i] = "TURNED_DOWN"
    [] OTHER -> news = "GIVEN_UP"

Report ==
  /\ UNCHANGED <<queue, log, verdict>>
  /\ \A i \in DOMAIN report :
       report'[i] # report[i] =>
         i \in DOMAIN queue /\ report[i] = "WAITING" /\ Truthful(i, report'[i])

(* The user settles a conflict: the edit is dropped, or queued once more as   *)
(* an edit of what is known of the record by then, which is not always a     *)
(* later version: KEEP_SERVER of another conflict takes the record back.     *)
Settle(i) ==
  /\ UNCHANGED <<log, verdict>>
  /\ report[i] = "CONFLICT"
  /\ report' = [report EXCEPT ![i] = "GIVEN_UP"]
  /\ \/ UNCHANGED queue
     \/ /\ Grows
        /\ Newest = [queue[i] EXCEPT !.base = Newest.base]
        /\ Newest.base > 0

(* Somebody else changes a record.                                          *)
Elsewhere ==
  /\ UNCHANGED <<queue, verdict, report>>
  /\ Len(log') = Len(log) + 1
  /\ SubSeq(log', 1, Len(log)) = log
  /\ log'[Len(log')].edit > MaxOps

Next ==
  \/ HandOver \/ Report \/ Elsewhere
  \/ \E i \in DOMAIN queue : Apply(i) \/ TurnDown(i) \/ Settle(i)

Spec == Init /\ [][Next]_vars
=============================================================================
