--------------------------- MODULE MCReticulumTask ---------------------------
(* Two tasks start and stop the loop at any time.  Two loop tasks could be     *)
(* alive at once if the claim failed, and a third may be on its way out.       *)
EXTENDS ReticulumTask

TwoCallers == {"a", "b"}
ThreeSlots == {1, 2, 3}
=============================================================================
