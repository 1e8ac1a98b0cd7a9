------------------------------ MODULE MCPages ------------------------------
(***************************************************************************)
(* A project that runs though a part of it failed, and one that was        *)
(* stopped.  The readers are alike.                                        *)
(***************************************************************************)
EXTENDS Pages, TLC

MCProjects == {{"running", "failed"}, {"finished"}}
Alike == Permutations(Readers)
=============================================================================
