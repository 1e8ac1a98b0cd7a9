------------------------------ MODULE Upgrade ------------------------------
(***************************************************************************)
(* Timar's upgrade of itself (release.py, and the version line of the      *)
(* settings page).  The page says which release is out, as far as the last *)
(* look at GitHub knows; the button hands a shell command to the host's    *)
(* systemd, which pulls the image, moves a pinned tag in the compose file, *)
(* and recreates the container this process runs in; what was handed over  *)
(* is kept in state.json, and whatever process answers the page next says  *)
(* how it ended.  Pages run in threads of their own, and one that was      *)
(* opened before still has the button it was drawn with.                   *)
(*                                                                         *)
(* Releases are numbered; times are ages, up to the one at which they make *)
(* no more difference.  Of state.json only the "upgrade" entry is kept     *)
(* here: what the whole-file writes do to each other is in Scheduler.      *)
(***************************************************************************)
EXTENDS Naturals

CONSTANTS Pages,        \* open settings pages, each with at most one request under way
          Units,        \* upgrades handed over, at most this many
          Newest,       \* the last release there will be
          CheckEvery,   \* how long an answer of GitHub is remembered
          RetryAfter,   \* how long a failed check is
          GiveUp,       \* UPGRADE_GIVE_UP
          MaxRestarts,  \* restarts of the process or the host
          Latest, Other, None

ASSUME UpgradeAssumption ==
  /\ Newest \in Nat /\ CheckEvery \in Nat /\ GiveUp \in Nat /\ MaxRestarts \in Nat
  /\ RetryAfter \in 1..CheckEvery
  /\ None \notin Units \cup Nat /\ {Latest, Other} \cap Nat = {} /\ Latest # Other

VARIABLES version,    \* what runs
          tag,        \* the tag its container was made from
          file,       \* the tag in the compose file
          images,     \* releases pulled to the host
          published,  \* the newest release
          news,       \* how long it has been out
          checked,    \* release._cache: None or [age, ttl, release]
          unit,       \* the host's units: [at, target, pin, code]
          rc,         \* UPGRADE_RC, one file for all units
          record,     \* state.json's "upgrade": None or [unit, target, age]
          asked,      \* a page was answered since the last tick
          page,       \* page -> [at, target, seen, offer]
          job,        \* whether a job runs, and began with an upgrade under way
          restarts

host == <<version, tag, file, images, unit, rc>>
vars == <<host, published, news, checked, record, asked, page, job, restarts>>

Releases == 0..Newest
Older(age, cap) == IF age < cap THEN age + 1 ELSE age
Highest(set) == CHOOSE v \in set : \A w \in set : w <= v

Active(u) == unit[u].at \notin {"free", "end"}
UnderWay == \/ \E u \in Units : Active(u)
            \/ \E p \in Pages : page[p].at = "starting"

Free == [at |-> "free", target |-> 0, pin |-> Other, code |-> 0]
Over == [Free EXCEPT !.at = "end"]

(******************************** The button *******************************)

\* A bug that BegunJobsAreSpared finds: the button does not ask for jobs.
PressAnyway(p) ==
  /\ page[p].at = "idle" /\ page[p].offer # 0
  /\ page' = [page EXCEPT ![p].at = "starting", ![p].target = page[p].offer]
  /\ UNCHANGED <<host, published, news, checked, record, asked, job, restarts>>

\* upgrade: pressed on a page that offers a release; refused while a job runs.
Press(p) ==
  /\ page[p].at = "idle" /\ page[p].offer # 0
  /\ job = "none"
  /\ page' = [page EXCEPT ![p].at = "starting", ![p].target = page[p].offer]
  /\ UNCHANGED <<host, published, news, checked, record, asked, job, restarts>>

\* start_upgrade's and upgrade_command's refusals: a release that is not newer, a tag that
\* is not this button's to move.
MayHand(target) == target > version /\ tag \in {Latest, version}

\* start_upgrade hands the command over, or refuses, or does not find or reach its host.
Hand(p) ==
  /\ page[p].at = "starting"
  /\ \/ \E u \in Units :
          /\ MayHand(page[p].target) /\ unit[u].at = "free"
          /\ unit' = [unit EXCEPT ![u] = [at |-> "pull", target |-> page[p].target,
                                          pin |-> tag, code |-> 0]]
          /\ rc' = None
          /\ page' = [page EXCEPT ![p].at = "noting", ![p].seen = u]
     \/ /\ page' = [page EXCEPT ![p].at = "idle", ![p].target = 0]
        /\ UNCHANGED <<unit, rc>>
  /\ UNCHANGED <<version, tag, file, images, published, news, checked, record, asked, job,
                 restarts>>

\* It is noted after that.
Note(p) ==
  /\ page[p].at = "noting"
  /\ record' = [unit |-> page[p].seen, target |-> page[p].target, age |-> 0]
  /\ page' = [page EXCEPT ![p].at = "idle", ![p].target = 0, ![p].seen = None]
  /\ UNCHANGED <<host, published, news, checked, asked, job, restarts>>

(***************************** On the host *********************************)

\* The command's steps, each of which ends it when it fails.
Ends(u, code) == unit' = [unit EXCEPT ![u].at = "report", ![u].code = code]

\* A bug that ImageIsThere finds: the steps go on after a pull that failed.
PullAndGoOn(u) ==
  /\ unit[u].at = "pull"
  /\ \E got \in SUBSET {IF unit[u].pin = Latest THEN published ELSE unit[u].target} :
       images' = images \cup got
  /\ unit' = [unit EXCEPT ![u].at = IF unit[u].pin = Latest THEN "up" ELSE "edit"]
  /\ UNCHANGED <<version, tag, file, rc, published, news, checked, record, asked, page, job,
                 restarts>>

Pull(u) ==
  /\ unit[u].at = "pull"
  /\ \/ /\ images' = images \cup {IF unit[u].pin = Latest THEN published ELSE unit[u].target}
        /\ unit' = [unit EXCEPT ![u].at = IF unit[u].pin = Latest THEN "up" ELSE "edit"]
     \/ Ends(u, 1) /\ UNCHANGED images
  /\ UNCHANGED <<version, tag, file, rc, published, news, checked, record, asked, page, job,
                 restarts>>

\* A bug that NeverOlder finds: whatever tag the file has is moved.
MoveAny(u) ==
  /\ unit[u].at = "edit"
  /\ file' = unit[u].target
  /\ unit' = [unit EXCEPT ![u].at = "up"]
  /\ UNCHANGED <<version, tag, images, rc, published, news, checked, record, asked, page, job,
                 restarts>>

\* grep and sed: only the tag that was running is moved.
Move(u) ==
  /\ unit[u].at = "edit"
  /\ IF file = unit[u].pin
     THEN file' = unit[u].target /\ unit' = [unit EXCEPT ![u].at = "up"]
     ELSE Ends(u, 1) /\ UNCHANGED file
  /\ UNCHANGED <<version, tag, images, rc, published, news, checked, record, asked, page, job,
                 restarts>>

\* A process that starts has no request under way and no job; the pages in the browsers,
\* what they last said, and the entry in state.json are still there.
Anew == /\ page' = [p \in Pages |-> [page[p] EXCEPT !.at = "idle", !.target = 0, !.seen = None]]
        /\ job' = "none"
        /\ checked' = None

\* What `up -d` makes of the compose file.
Made == IF file = Latest THEN Highest(images) ELSE file

\* up -d recreates the container, this process with it, if there is something to change.
Up(u) ==
  /\ unit[u].at = "up"
  /\ \/ /\ Ends(u, 0)
        /\ tag' = file /\ version' = Made
        /\ IF version' = version THEN UNCHANGED <<page, job, checked>> ELSE Anew
     \/ Ends(u, 1) /\ UNCHANGED <<tag, version, page, job, checked>>
  /\ UNCHANGED <<file, images, rc, published, news, record, asked, restarts>>

\* The exit status is written last.
Report(u) ==
  /\ unit[u].at = "report"
  /\ rc' = unit[u].code
  /\ unit' = [unit EXCEPT ![u] = Over]
  /\ UNCHANGED <<version, tag, file, images, published, news, checked, record, asked, page, job,
                 restarts>>

\* The process restarts, or the host does and its units are gone.
Restart ==
  /\ restarts < MaxRestarts /\ restarts' = restarts + 1
  /\ Anew
  /\ \/ UNCHANGED unit
     \/ unit' = [u \in Units |-> IF Active(u) THEN Over ELSE unit[u]]
  /\ UNCHANGED <<version, tag, file, images, rc, published, news, record, asked>>

(******************************** The page *********************************)

\* release.latest: the remembered answer, or a new one, and what the page offers by it.
Remembered == checked # None /\ checked.age < checked.ttl
\* A bug that NoReleaseHidden finds: a failed check is remembered as long as an answer.
AnswerForLong(release) == [age |-> 0, release |-> release, ttl |-> CheckEvery]

Answer(release) == [age |-> 0, release |-> release,
                    ttl |-> IF release = None THEN RetryAfter ELSE CheckEvery]
IsNewer(release) == release # None /\ release > version
Offer(release) == IF IsNewer(release) THEN release ELSE 0

Latests == IF Remembered THEN {checked} ELSE {Answer(published), Answer(None)}

\* The version line once the entry was looked at: an upgrade that is pending is said to be
\* and nothing offered; an outcome is told and the entry, whichever is there, removed.
Pending(p) ==
  /\ page' = [page EXCEPT ![p].at = "idle", ![p].seen = None, ![p].offer = 0]
  /\ asked' = TRUE
  /\ UNCHANGED <<checked, record>>

Tell(p) ==
  /\ \E latest \in Latests :
       /\ checked' = latest
       /\ page' = [page EXCEPT ![p].at = "idle", ![p].seen = None,
                               ![p].offer = Offer(latest.release)]
  /\ record' = None /\ asked' = TRUE

\* What upgrade_status knows from here: the release asked for runs, or it took too long.
Done == record.target = version
\* A bug that ToldInTime finds: an upgrade the host does not answer for is waited for.
OverdueNever == FALSE

Overdue == record.age > GiveUp

\* The page is opened, or asks again ...
Look(p) ==
  /\ page[p].at = "idle"
  /\ IF record = None \/ Done \/ Overdue THEN Tell(p)
     ELSE /\ page' = [page EXCEPT ![p].at = "asking", ![p].seen = record.unit]
          /\ UNCHANGED <<checked, record, asked>>
  /\ UNCHANGED <<host, published, news, job, restarts>>

\* handoff_status, as the host answers.
Word(u) == IF rc # None THEN "done" ELSE IF Active(u) THEN "pending" ELSE "gone"
Failed(u) == (Word(u) = "done" /\ rc # 0) \/ Word(u) = "gone"

\* ... and, failing that, from the host's answer, if it gives one.  (Deleting the host
\* itself meanwhile, which is told as a failure as well, is left out.)
Hear(p) ==
  /\ page[p].at = "asking"
  /\ (Failed(page[p].seen) /\ Tell(p)) \/ Pending(p)
  /\ UNCHANGED <<host, published, news, job, restarts>>

(****************************** Around them ********************************)

JobBegins == /\ job = "none" /\ job' = IF UnderWay THEN "during" ELSE "alone"
             /\ UNCHANGED <<host, published, news, checked, record, asked, page, restarts>>
JobEnds == /\ job # "none" /\ job' = "none"
           /\ UNCHANGED <<host, published, news, checked, record, asked, page, restarts>>

Publish == /\ published < Newest /\ published' = published + 1 /\ news' = 0
           /\ UNCHANGED <<host, checked, record, asked, page, job, restarts>>

\* A page that is open asks every few seconds, and is answered within the minute.
Tick ==
  /\ record # None => asked
  /\ \A p \in Pages : page[p].at = "idle"
  /\ news' = Older(news, CheckEvery)
  /\ checked' = IF checked = None THEN None ELSE [checked EXCEPT !.age = Older(@, CheckEvery)]
  /\ record' = IF record = None THEN None ELSE [record EXCEPT !.age = @ + 1]
  /\ asked' = FALSE
  /\ UNCHANGED <<host, published, page, job, restarts>>

Init ==
  /\ version = 0 /\ file \in {0, Latest, Other} /\ tag = file
  /\ images = {0} /\ published \in 0..1 /\ news = 0 /\ published <= Newest
  /\ checked = None /\ rc = None /\ record = None
  /\ unit = [u \in Units |-> Free]
  /\ page = [p \in Pages |->
               [at |-> "idle", target |-> 0, seen |-> None, offer |-> 0]]
  /\ asked = FALSE /\ job = "none" /\ restarts = 0

Request(p) == Hand(p) \/ Note(p) \/ Hear(p)
OnHost(u) == Pull(u) \/ Move(u) \/ Up(u) \/ Report(u)

Next == \/ \E p \in Pages : Press(p) \/ Look(p) \/ Request(p)
        \/ \E u \in Units : OnHost(u)
        \/ Restart \/ JobBegins \/ JobEnds \/ Publish \/ Tick

Spec == Init /\ [][Next]_vars

(******************************* Properties ********************************)

Page == [at : {"idle", "starting", "noting", "asking"}, target : Releases,
         seen : Units \cup {None}, offer : Releases]
Unit == [at : {"free", "pull", "edit", "up", "report", "end"}, target : Releases,
         pin : Releases \cup {Latest, Other}, code : {0, 1}]

TypeOK ==
  /\ version \in Releases /\ images \in SUBSET Releases /\ published \in Releases
  /\ {tag, file} \subseteq Releases \cup {Latest, Other}
  /\ news \in 0..CheckEvery /\ rc \in {0, 1, None}
  /\ checked = None \/ checked \in [age : 0..CheckEvery, ttl : {RetryAfter, CheckEvery},
                                    release : Releases \cup {None}]
  /\ record = None \/ record \in [unit : Units, target : Releases, age : Nat]
  /\ unit \in [Units -> Unit]
  /\ page \in [Pages -> Page]
  /\ \A p \in Pages : page[p].at \in {"noting", "asking"} <=> page[p].seen # None
  /\ asked \in BOOLEAN /\ job \in {"none", "alone", "during"} /\ restarts \in 0..MaxRestarts

\* The compose file never names an image that is not on the host, whatever failed on the
\* way and however two upgrades overlap: a restart of the host finds Timar's image.
FileNamesAnImage == file \in images \cup {Latest, Other}

\* And every variable keeps to its type.
ImageIsThere == TypeOK /\ FileNamesAnImage

\* A job that was running before anybody pressed the button is never cut by the upgrade:
\* one that is, began after the check.
BegunJobsAreSpared == job = "alone" => ~UnderWay

\* A release that has been out for as long as an answer is remembered is offered to
\* whoever opens the page, unless it runs already: a check that failed hides it no longer
\* than RetryAfter.
NoReleaseHidden ==
  [][\A p \in Pages :
       Tell(p) /\ news >= CheckEvery
       => \/ version = published
          \/ page'[p].offer = published
          \/ checked'.release = None /\ checked'.age < RetryAfter]_vars

\* The version that runs never goes back, with two upgrades to different releases under
\* way, started from pages of different ages.
NeverOlder == [][version' >= version]_version

\* An upgrade that was noted is told and forgotten soon after GiveUp, on a page that goes
\* on asking: also if the host never answers, forgot about it, or was brought to another
\* release than was asked for.
ToldInTime == record # None => record.age <= GiveUp + 1
=============================================================================
