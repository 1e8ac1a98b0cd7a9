------------------------------ MODULE MCJobLoop -------------------------------
(* A week of two days of six units, and a schedule of each kind.          *)
EXTENDS JobLoop

Daily == [Never EXCEPT !.enabled = TRUE, !.at = 3]
Weekly == [Never EXCEPT !.enabled = TRUE, !.kind = "weekly", !.at = 5, !.day = 1]
EverySo == [Never EXCEPT !.enabled = TRUE, !.kind = "interval"]
Broken == [Never EXCEPT !.enabled = TRUE, !.at = 6]

AllSchedules == {Never, Daily, Weekly, EverySo, Broken}

=============================================================================
