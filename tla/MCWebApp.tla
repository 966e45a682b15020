------------------------------ MODULE MCWebApp ------------------------------
(* Small instances of WebApp.                                               *)
EXTENDS WebApp

CONSTANTS c1, c2

Budget(p, c, k, d, m, v, w, f) ==
  [page |-> p, card |-> c, conflicts |-> k, drafts |-> d, mounts |-> m, version |-> v, writes |-> w,
   faults |-> f]

(* New records, on pages that are left and opened again; the edit form of a   *)
(* project and its conflict; both forms of that page; the life of an         *)
(* inspection; and two conflicts that are answered at the same time.         *)
MCBudgets ==
  {Budget("inspections", "inspection", {}, 3, 3, 1, 0, 1),
   Budget("projects", "project", {c1}, 0, 1, 3, 1, 0),
   Budget("projects", "project", {}, 1, 2, 3, 1, 0),
   Budget("inspections", "inspection", {c1}, 0, 1, 4, 2, 1),
   Budget("inspections", "inspection", {c1, c2}, 0, 1, 2, 3, 0)}
=============================================================================
