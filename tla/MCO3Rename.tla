---------------------------- MODULE MCO3Rename ----------------------------
(* O3Rename with two threads; the physical registers are interchangeable. *)
EXTENDS O3Rename, TLC

PhysSymmetry == Permutations(Phys)
=============================================================================
