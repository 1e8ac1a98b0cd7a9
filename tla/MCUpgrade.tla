----------------------------- MODULE MCUpgrade -----------------------------
(***************************************************************************)
(* Two pages and two upgrades, alike; two releases after the one that runs.*)
(***************************************************************************)
EXTENDS Upgrade, TLC

Alike == Permutations(Pages) \cup Permutations(Units)
=============================================================================
