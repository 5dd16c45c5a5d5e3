---------------------------- MODULE MC_Workspaces ----------------------------
(* Two attempts of a task, side by side in one worker or in two: one that  *)
(* parks, is resumed and parks for good, and one that completes.           *)
EXTENDS Workspaces, TLC

CONSTANTS a1, a2, f1, f2

const_Attempts == {a1, a2}
const_Files == {f1, f2}
const_Edits == {<<a1, f1, a1>>, <<a2, f2, a2>>, <<a2, f1, Absent>>}
const_Outcomes == (a1 :> {"parked"}) @@ (a2 :> {"completed"})
const_MaxParks == (a1 :> 1) @@ (a2 :> 0)
const_Faulty == {a1}
const_Boxes == 1..2
==============================================================================
