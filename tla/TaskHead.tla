------------------------------ MODULE TaskHead ------------------------------
(***************************************************************************)
(* What a task promises its attempts about the files they share.  The task *)
(* has one head: the files as they were last saved.  An attempt works on a *)
(* copy of its own; what it changed against the head it found is its work. *)
(* Saving applies the work to the head as it is then, in one step, and     *)
(* leaves every other file alone.  Work that is not saved is dropped.      *)
(*                                                                         *)
(* A store that lost a snapshot, and a holder of the commit lock that is   *)
(* still saving after its lock has expired, are damage: from then on       *)
(* nothing is promised about what a save leaves in the head.               *)
(***************************************************************************)
CONSTANTS
    Attempts,   \* the attempts of the task
    Files,      \* paths in the workspace
    Absent,     \* the content of a file that does not exist
    Same        \* in an attempt's work: this file was not changed

Contents == [Files -> Attempts \cup {Absent}]   \* a file's content is named by the attempt that wrote it

VARIABLES
    head,       \* the task's files
    work,       \* work[a]: what attempt a has changed and not yet saved
    damaged     \* a snapshot was lost, or a lock outlived

headVars == <<head, work, damaged>>

NoWork == [f \in Files |-> Same]

Init ==
    /\ head = [f \in Files |-> Absent]
    /\ work = [a \in Attempts |-> NoWork]
    /\ damaged = FALSE

(* An attempt changes a file of its copy; changing it back is no change.   *)
Edit(a) ==
    /\ \E f \in Files, v \in {a, Absent, Same} : work' = [work EXCEPT ![a][f] = v]
    /\ UNCHANGED <<head, damaged>>

Drop(S) ==
    /\ work' = [a \in Attempts |-> IF a \in S THEN NoWork ELSE work[a]]
    /\ UNCHANGED <<head, damaged>>

Save(a) ==
    /\ head' \in Contents
    /\ damaged \/ \A f \in Files : head'[f] = IF work[a][f] = Same THEN head[f] ELSE work[a][f]
    /\ UNCHANGED <<work, damaged>>

Damage ==
    /\ damaged' = TRUE
    /\ UNCHANGED <<head, work>>

Next ==
    \/ \E a \in Attempts : Edit(a) \/ Save(a)
    \/ \E S \in SUBSET Attempts : Drop(S)
    \/ Damage

Spec == Init /\ [][Next]_headVars
=============================================================================
