------------------------- MODULE MC_TaskLifecycle -------------------------
(***************************************************************************)
(* Plans for the runs of TaskLifecycle.                                    *)
(***************************************************************************)
EXTENDS TaskLifecycle

NoDeps  == {}
Chain2  == {<<1, 2>>}
Node1   == {1}
Node2   == {2}
Both    == {1, 2}
None    == {}
=============================================================================
