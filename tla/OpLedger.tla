------------------------------ MODULE OpLedger ------------------------------
(***************************************************************************)
(* What the push protocol promises, without requests, transactions, locks  *)
(* or keys: a ledger in which every operation is decided at most once, in  *)
(* one atomic step, against the rows and memberships of that moment.       *)
(* PushServer implements it.                                               *)
(***************************************************************************)
EXTENDS Naturals

CONSTANTS OpIds, Contents, Users, UserOf, Entities, Level, Parent, Existing, Enrolled

VARIABLES
  content,   \* what each operation says
  row,       \* version and tombstone of every entity, version 0: none
  members,   \* pairs <<user, project>>
  history,   \* the changes made: [op, entity, version, tombstone]
  decided,   \* "NONE", "APPLIED" or "CONFLICT" for every operation
  missed     \* operations being evaluated whose entity was not there when looked up

vars == <<content, row, members, history, decided, missed>>

RootOf(e) == CASE Level[e] = "PROJECT" -> e
               [] Level[e] = "SITE" -> Parent[e]
               [] Level[e] = "INSPECTION" -> Parent[Parent[e]]
               [] OTHER -> Parent[Parent[Parent[e]]]

Member(o) == <<UserOf[content[o].device], RootOf(content[o].entity)>> \in members
Founds(o) == content[o].kind = "CREATE" /\ Level[content[o].entity] = "PROJECT"

(* A CREATE applies where there is no row; an UPDATE or DELETE to the       *)
(* version its author saw, unless it is a tombstone.                        *)
Applies(o) ==
  LET r == row[content[o].entity]
  IN IF content[o].kind = "CREATE" THEN r.version = 0
     ELSE r.version > 0 /\ ~r.deleted /\ r.version = content[o].base

Init ==
  /\ content \in [OpIds -> Contents]
  /\ row = [e \in Entities |->
              [version |-> IF e \in Existing THEN 1 ELSE 0, deleted |-> FALSE]]
  /\ members = Enrolled
  /\ history = {}
  /\ decided = [o \in OpIds |-> "NONE"]
  /\ missed = {}

Apply(o) ==
  LET e == content[o].entity
      next == [version |-> row[e].version + 1, deleted |-> content[o].kind = "DELETE"]
  IN /\ decided[o] = "NONE"
     /\ Founds(o) \/ Member(o)
     /\ Applies(o)
     /\ row' = [row EXCEPT ![e] = next]
     /\ members' = IF Founds(o) THEN members \cup {<<UserOf[content[o].device], e>>}
                                ELSE members
     /\ history' = history \cup
          {[op |-> o, entity |-> e, version |-> next.version, tombstone |-> next.deleted]}
     /\ decided' = [decided EXCEPT ![o] = "APPLIED"]
     /\ UNCHANGED content

(* An operation is turned down only when it does not apply.  The exception  *)
(* is an edit of a project that its row lock could not cover: the project   *)
(* was missing when it was looked up and is there when the verdict commits. *)
Overtaken(o) ==
  /\ o \in missed
  /\ Level[content[o].entity] = "PROJECT" /\ content[o].kind # "CREATE"

TurnDown(o) ==
  /\ decided[o] = "NONE"
  /\ Member(o)
  /\ ~Applies(o) \/ Overtaken(o)
  /\ decided' = [decided EXCEPT ![o] = "CONFLICT"]
  /\ UNCHANGED <<content, row, members, history>>

Enrol(u, p) ==
  /\ \E v \in Users : <<v, p>> \in members
  /\ members' = members \cup {<<u, p>>}
  /\ UNCHANGED <<content, row, history, decided>>

(* An operation may be looked up, or its evaluation end, at any step: it is  *)
(* missed only where there is no row.                                       *)
LookUp ==
  missed' \subseteq missed \cup {o \in OpIds : row[content[o].entity].version = 0}

Next ==
  /\ LookUp
  /\ \/ \E o \in OpIds : Apply(o) \/ TurnDown(o)
     \/ \E u \in Users, p \in Entities : Enrol(u, p)
     \/ UNCHANGED <<content, row, members, history, decided>>

Spec == Init /\ [][Next]_vars
=============================================================================
