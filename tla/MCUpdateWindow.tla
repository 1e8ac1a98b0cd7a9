---------------------------- MODULE MCUpdateWindow ----------------------------
(* Days of ten units; a window in the early hours and one over midnight, with *)
(* room for both machines' runs.                                              *)
EXTENDS UpdateWindow

EarlyAndLate == [m \in {"pc", "desk"} |->
                    IF m = "pc" THEN [from |-> 1, to |-> 4] ELSE [from |-> 8, to |-> 2]]
EveryDay == [m \in {"pc", "desk"} |-> 1]
ListOrder == <<"pc", "desk">>

=============================================================================
