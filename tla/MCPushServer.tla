---------------------------- MODULE MCPushServer ----------------------------
(* Small instances of PushServer: project p with its site s and inspection i, *)
(* and project q, which is created while the model runs.                      *)
EXTENDS PushServer, TLC

CONSTANTS w1, w2, o1, o2, d1, d2, u1, u2, p, q, s, i

MCLevel == [e \in Entities |-> CASE e = s -> "SITE" [] e = i -> "INSPECTION"
                                 [] OTHER -> "PROJECT"]
MCParent == [e \in Entities |-> CASE e = s -> p [] e = i -> s [] OTHER -> e]
MCUserOf == [d \in Devices |-> IF d = d1 THEN u1 ELSE u2]
MCEnrolled == {<<u1, p>>}

Said(d, e, k, b) == [device |-> d, entity |-> e, kind |-> k, base |-> b]

(* Edits of an existing site by two devices, whose user u2 is not a member   *)
(* at first, against its deletion and the edit that follows one of them; two *)
(* devices that create the same project, and the edit queued behind that; an *)
(* inspection, whose project is found through the site.                      *)
SharedContents ==
  {Said(d1, s, "UPDATE", 1), Said(d2, s, "UPDATE", 1), Said(d1, s, "DELETE", 1),
   Said(d1, s, "UPDATE", 2)} \cup
  {Said(d1, q, "CREATE", 0), Said(d2, q, "CREATE", 0), Said(d1, q, "UPDATE", 1)} \cup
  {Said(d1, i, "CREATE", 0)}

(* The shortest mix in which requests wait for each other's rows and inserts, *)
(* with an inspection that is sent before its site.                           *)
GateContents ==
  {Said(d1, s, "CREATE", 0), Said(d1, s, "UPDATE", 1), Said(d2, s, "CREATE", 0),
   Said(d1, i, "CREATE", 0)}

MCSymmetry == Permutations(Workers) \cup Permutations(OpIds)
=============================================================================
