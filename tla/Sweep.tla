-------------------------------- MODULE Sweep ---------------------------------
(***************************************************************************)
(* The work of one log sweep: run_log_checks and check_server of           *)
(* timar/log_checker.py, and what run_log_sweep (timar/jobs.py) makes of   *)
(* it.  The run's thread goes through the servers one after the other,     *)
(* asks each one that is up its questions over SSH, counts who was not     *)
(* asked, has a model write an assessment if there is one, and sends a     *)
(* message.  Beside it machines come and go, the operator enrols others,   *)
(* or asks the sweep to stop.                                              *)
(*                                                                         *)
(* Abstracted: the commands and their output (a question is answered well, *)
(* badly or not at all) and the wording of what is told.  A definition     *)
(* named like the one below it, with a suffix, is that one with a mistake  *)
(* in it, to test the properties with.                                     *)
(***************************************************************************)
EXTENDS Naturals

CONSTANTS
    Number,       \* how many servers config.yaml lists; they are numbered in that order
    WatchedOnly,  \* those without SSH
    NotToSweep,   \* job_exclude of the sweep
    Asked         \* the questions that each of them has an answer to

Servers == 1 .. Number

\* The questions, in the order they are asked.  An unreadable job log reads as one whose
\* job did not run, a watched log and a check say that they could not be read or run.
Questions == 1 .. 6
Journal == 1
Disk == 2
Containers == 3
JobLogs == 4
WatchLogs == 5
Checks == 6
Unnoticed == {Journal, Disk, Containers}   \* their exit status, if not their output, is ignored

ASSUME SweepAssumption ==
    /\ Number \in Nat
    /\ WatchedOnly \subseteq Servers /\ NotToSweep \subseteq Servers
    /\ Asked \in [Servers -> SUBSET Questions]

VARIABLES
    awake,      \* the servers that answer
    enrolled,   \* membership.enrolled()
    sweepStop,  \* cancel.requested("log_sweep")
    sweepAt,    \* where the thread is
    server,     \* the server it is on, or comes to next
    question,   \* the question it asks next
    found,      \* what the server has been found to have
    told,       \* results: per server, what became of it, or "nothing"
    notIn,      \* left_out: the servers counted as not in the sweep
    saysStopped,\* stopped: the summary says that the operator stopped it
    written,    \* the model wrote an assessment
    message,    \* what was sent
    heard,      \* history: per server and question, the answer
    passed,     \* history: the servers it did not ask because they were no part of it
    lastOne     \* history: the last server it had begun when it was asked to stop

machines == <<awake, enrolled, sweepStop, lastOne>>
outcome == <<notIn, saysStopped, written, message>>
sweepVars == <<machines, sweepAt, server, question, found, told, outcome, heard, passed>>

SweepInit ==
    /\ awake \in SUBSET Servers
    /\ enrolled \in SUBSET Servers
    /\ sweepStop = FALSE
    /\ sweepAt = "next" /\ server = 1 /\ question = 1 /\ found = {}
    /\ told = [s \in Servers |-> "nothing"]
    /\ notIn = {} /\ saysStopped = FALSE /\ written = FALSE /\ message = "none"
    /\ heard = [s \in Servers |-> [q \in Questions |-> "unasked"]]
    /\ passed = {} /\ lastOne = Number

-----------------------------------------------------------------------------
(* run_log_checks.                                                         *)

\* membership.skip_reason
Skipped(s) == s \in WatchedOnly \/ s \in NotToSweep \/ s \notin enrolled

PassServer ==
    /\ sweepAt = "next" /\ server \in Servers /\ Skipped(server)
    /\ passed' = passed \cup {server}
    /\ server' = server + 1
    /\ UNCHANGED <<machines, sweepAt, question, found, told, outcome, heard>>

BeginServer ==
    /\ sweepAt = "next" /\ server \in Servers /\ ~Skipped(server)
    /\ sweepAt' = IF sweepStop THEN "count" ELSE "probe"
    /\ UNCHANGED <<machines, server, question, found, told, outcome, heard, passed>>

SweepDone ==
    /\ sweepAt = "next" /\ server \notin Servers
    /\ sweepAt' = "count"
    /\ UNCHANGED <<machines, server, question, found, told, outcome, heard, passed>>

-----------------------------------------------------------------------------
(* check_server.                                                           *)

\* The server's LogResult, and on to the next one.
Conclude(verdict) ==
    /\ told' = [told EXCEPT ![server] = verdict]
    /\ sweepAt' = "next" /\ server' = server + 1
    /\ question' = 1 /\ found' = {}

\* One that does not answer its port is offline, and not asked.
Offline ==
    /\ sweepAt = "probe" /\ server \notin awake
    /\ Conclude("asleep")
    /\ UNCHANGED <<machines, outcome, heard, passed>>

IsUp ==
    /\ sweepAt = "probe" /\ server \in awake
    /\ sweepAt' = "connect"
    /\ UNCHANGED <<machines, server, question, found, told, outcome, heard, passed>>

Connect ==
    /\ sweepAt = "connect" /\ server \in awake
    /\ sweepAt' = "ask"
    /\ UNCHANGED <<machines, server, question, found, told, outcome, heard, passed>>

\* The login or the connection fails: an error, and what was found before it is not kept.
Breaks ==
    /\ sweepAt = "connect" \/ (sweepAt = "ask" /\ question < Checks)
    /\ Conclude("unreachable")
    /\ UNCHANGED <<machines, outcome, heard, passed>>

\* What is made of an answer: LogResult.has_issues, and what the parsers make of no output.
IsIssue(q, answer) == answer = "trouble" \/ (answer = "none" /\ q \notin Unnoticed)

\* A question is asked; run_check takes a broken connection for an answer, too.
AskServer ==
    /\ sweepAt = "ask" /\ question \in Questions
    /\ \E answer \in IF question \notin Asked[server] THEN {"unasked"}
                     ELSE IF server \in awake THEN {"fine", "trouble", "none"}
                     ELSE IF question = Checks THEN {"none"} ELSE {} :
          /\ heard' = [heard EXCEPT ![server][question] = answer]
          /\ found' = IF IsIssue(question, answer) THEN found \cup {question} ELSE found
    /\ question' = question + 1
    /\ UNCHANGED <<machines, sweepAt, server, told, outcome, passed>>

AllAsked ==
    /\ sweepAt = "ask" /\ question \notin Questions
    /\ Conclude(IF found = {} THEN "clean" ELSE "findings")
    /\ UNCHANGED <<machines, outcome, heard, passed>>

-----------------------------------------------------------------------------
(* run_log_sweep: the summary, the assessment and the message.             *)

Reached == {s \in Servers : told[s] # "nothing"}
CleanIfUnreachable == \A s \in Servers : told[s] # "findings"
Clean == \A s \in Servers : told[s] \notin {"findings", "unreachable"}

\* Asked for again, of a record of enrolled machines that may have grown meanwhile.
CountWithoutStop ==
    /\ sweepAt = "count"
    /\ notIn' = {s \in Servers \ WatchedOnly : Skipped(s)}
    /\ sweepAt' = "assess"
    /\ UNCHANGED <<machines, server, question, found, told, saysStopped, written, message,
                   heard, passed>>
Count ==
    /\ sweepAt = "count"
    /\ notIn' = {s \in Servers \ WatchedOnly : Skipped(s)}
    /\ saysStopped' = sweepStop
    /\ sweepAt' = "assess"
    /\ UNCHANGED <<machines, server, question, found, told, written, message, heard, passed>>

\* analyze: no model, nothing to assess, or a model that fails, is no assessment.
Assess ==
    /\ sweepAt = "assess"
    /\ written' \in IF Reached = {} THEN {FALSE} ELSE BOOLEAN
    /\ sweepAt' = "notify"
    /\ UNCHANGED <<machines, server, question, found, told, notIn, saysStopped, message,
                   heard, passed>>

\* _notify: the all-clear line, or the assessment, or the findings; without a bot, or when
\* it is not reached, nothing.
Notify ==
    /\ sweepAt = "notify"
    /\ message' \in {"none", IF Clean THEN "all clear"
                             ELSE IF written THEN "assessment" ELSE "findings"}
    /\ sweepAt' = "end"
    /\ UNCHANGED <<machines, server, question, found, told, notIn, saysStopped, written,
                   heard, passed>>

\* _sweep_body: whom the report names, who were asleep or clean among them, or the all-clear
\* line, which counts them.
Named == IF Clean THEN {} ELSE Reached

-----------------------------------------------------------------------------
(* Beside it.                                                              *)

SweepStays == UNCHANGED <<sweepAt, server, question, found, told, outcome, heard, passed>>

ComesOrGoes(s) ==
    /\ awake' = IF s \in awake THEN awake \ {s} ELSE awake \cup {s}
    /\ UNCHANGED <<enrolled, sweepStop, lastOne>>
    /\ SweepStays

\* The operator enrols a server from its card.
Enrol(s) ==
    /\ s \in (Servers \ WatchedOnly) \ enrolled
    /\ enrolled' = enrolled \cup {s}
    /\ UNCHANGED <<awake, sweepStop, lastOne>>
    /\ SweepStays

StopSweep ==
    /\ sweepAt # "end" /\ ~sweepStop
    /\ sweepStop' = TRUE
    /\ lastOne' = IF sweepAt = "next" THEN server - 1 ELSE server
    /\ UNCHANGED <<awake, enrolled>>
    /\ SweepStays

SweepNext ==
    \/ PassServer \/ BeginServer \/ SweepDone
    \/ Offline \/ IsUp \/ Connect \/ Breaks \/ AskServer \/ AllAsked
    \/ Count \/ Assess \/ Notify
    \/ \E s \in Servers : ComesOrGoes(s) \/ Enrol(s)
    \/ StopSweep

SweepSpec == SweepInit /\ [][SweepNext]_sweepVars

-----------------------------------------------------------------------------
(* What holds of it.                                                       *)

SweepStages == {"next", "probe", "connect", "ask", "count", "assess", "notify", "end"}
SweepVerdicts == {"nothing", "asleep", "unreachable", "findings", "clean"}
Answers == {"unasked", "fine", "trouble", "none"}
Counted == sweepAt \in {"assess", "notify", "end"}

\* The type invariant of run_log_checks, check_server and run_log_sweep.
SweepTypeOK ==
    /\ awake \subseteq Servers /\ enrolled \subseteq Servers /\ sweepStop \in BOOLEAN
    /\ sweepAt \in SweepStages /\ server \in 1 .. Number + 1
    /\ question \in 1 .. Checks + 1 /\ found \subseteq Questions
    /\ told \in [Servers -> SweepVerdicts]
    /\ notIn \subseteq Servers /\ saysStopped \in BOOLEAN /\ written \in BOOLEAN
    /\ message \in {"none", "all clear", "assessment", "findings"}
    /\ heard \in [Servers -> [Questions -> Answers]]
    /\ passed \subseteq Servers /\ lastOne \in 0 .. Number + 1

\* The answer can hide no trouble: it was fine, or none and nobody looks at that (check_server
\* and the platforms' parsers, log_checker.py and platforms.py).
AnsweredWell(s, q) == heard[s][q] = "fine" \/ (heard[s][q] = "none" /\ q \in Unnoticed)

\* A server is called clean only if it answered every question there is for it, and none
\* badly; one that has findings gave an answer that is one; and one that is asleep, or that
\* the sweep has not come to, was asked nothing (check_server, LogResult.has_issues).
VerdictsAreHeard ==
    /\ SweepTypeOK
    /\ \A s \in Servers :
        /\ told[s] = "clean" => \A q \in Asked[s] : AnsweredWell(s, q)
        /\ told[s] = "findings" => \E q \in Asked[s] : IsIssue(q, heard[s][q])
        /\ told[s] = "asleep" => \A q \in Questions : heard[s][q] = "unasked"

\* The operator reads an all-clear only when no server that was asked had anything to say:
\* not even one whose connection broke after it had (run_log_sweep).
AllClearHidesNothing ==
    message = "all clear" => \A s \in Servers, q \in Questions : heard[s][q] # "trouble"

\* Neither a server's verdict nor the message to the operator hides what was heard.
NoTroubleIsHidden == VerdictsAreHeard /\ AllClearHidesNothing

\* Unless its summary says that it was stopped, a sweep accounts for every server with SSH:
\* it has a result, or it is counted as not in the sweep, or it was none of it when its turn
\* came and has been enrolled since.  No server is in both (run_log_checks, run_log_sweep).
AllAreAccountedFor ==
    Counted =>
        /\ Reached \cap notIn = {}
        /\ saysStopped \/ \A s \in Servers \ WatchedOnly :
                              s \in Reached \cup notIn \/ (s \in passed /\ s \in enrolled)

\* Asked to stop, the sweep finishes the server it is on and begins no other
\* (cancel.requested in run_log_checks).
StopsAfterThis == sweepStop => Reached \subseteq 1 .. lastOne

\* A sweep goes through all its servers or as far as the one it was stopped at, and accounts
\* for each of them.
SweepIsComplete == AllAreAccountedFor /\ StopsAfterThis

=============================================================================
