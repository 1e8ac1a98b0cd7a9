------------------------------- MODULE Pages -------------------------------
(***************************************************************************)
(* What the dashboard shows: the answers of the probes (status.py) and of  *)
(* `docker ps` (containers.py), each kept with a time to live, read again  *)
(* by the refresher every minute and by any page that finds none, and      *)
(* dropped by the buttons.  A read takes a while, and is kept when it      *)
(* ends: one that was under way when the answers were dropped puts what it *)
(* saw before back.                                                        *)
(*                                                                         *)
(* One host with one compose project.  Times are kept as ages, up to the   *)
(* one at which they make no more difference.                              *)
(***************************************************************************)
EXTENDS Naturals, FiniteSets

CONSTANTS Readers,     \* threads: the refresher, pages, buttons
          Projects,    \* what may be in the project: sets of kinds of container
          None,
          Stale,       \* STALE_AFTER
          Longest      \* how long a read may take: its timeout

\* What project_state tells apart: running and well or without a health check,
\* unhealthy, starting; exited with 0, and exited otherwise or dead.
Kinds == {"running", "unhealthy", "starting", "finished", "failed"}

ASSUME PagesAssumption == /\ Projects \subseteq SUBSET Kinds
                          /\ None \notin Projects
                          /\ Stale \in Nat \ {0} /\ Longest \in Nat \ {0}

Error == {"error"}   \* an answer that is none: HostContainers.error

VARIABLES truth,   \* [host : is it up, docker : the containers]
          cache,   \* key -> None or [age, val]
          reader,  \* reader -> what it does
          held,    \* key -> value -> how long ago it was last true
          since    \* key -> what was true since it was dropped with no read of it under way, or None

vars == <<truth, cache, reader, held, since>>

Keys == {"host", "docker"}
Values(k) == IF k = "host" THEN BOOLEAN ELSE Projects
Answered(k) == IF k = "host" THEN BOOLEAN ELSE Projects \cup {Error}
Oldest == Stale + 2 * Longest + 1
Older(age, cap) == IF age < cap THEN age + 1 ELSE age

\* containers.project_state: the light of a project.
ProjectState(found, onDemand) ==
  IF found \cap {"running", "unhealthy", "starting"} = {}
  THEN IF onDemand THEN "asleep" ELSE "down"
  ELSE IF found \cap {"unhealthy", "failed"} # {} THEN "warn" ELSE "up"

\* containers.projects, for an entry whose host answered `up` and whose containers
\* were read as `found`; the health address only ever makes an "up" a "warn".
Light(up, found, onDemand, answers) ==
  IF ~up \/ found = Error THEN "unknown"
  ELSE IF ProjectState(found, onDemand) = "up" /\ ~answers THEN "warn"
  ELSE ProjectState(found, onDemand)

(********************************** Reading ********************************)

\* A reader is at a key, with what it read of it (`got`, for `age`) until that is kept,
\* and what it has seen of the keys before.
Idle == [op |-> "none", at |-> "none", got |-> None, age |-> 0, host |-> None, docker |-> None]
Reads(r, k) == reader[r].at = k /\ reader[r].got # None
\* A bug that ShownWasTrue finds: what was kept is used whatever its age.
FreshForEver(k) == cache[k] # None

Fresh(k) == cache[k] # None /\ cache[k].age < Stale

\* _probe asks the port; _ps logs in, which may fail also while the host is up.
Answers(k) == IF k = "host" THEN {truth.host}
              ELSE IF truth.host THEN {truth.docker, Error} ELSE {Error}

\* What comes after a key is known: the containers are asked of a host that is up.
After(r, k, val) ==
  [reader[r] EXCEPT
     !.got = None, !.age = 0,
     !.host = IF k = "host" /\ reader[r].op = "page" THEN val ELSE @,
     !.docker = IF k = "docker" /\ reader[r].op = "page" THEN val ELSE @,
     !.at = IF k = "host" /\ val THEN "docker" ELSE "done"]

\* The refresher begins a round, somebody asks for the page, or presses a button of
\* the project (which looks whether the project is Timar itself before it acts, unless the
\* button is the one for start).
Begin(r) ==
  /\ reader[r] = Idle
  /\ \E op \in {"refresh", "page", "act"}, at \in {"host", "docker", "done"} :
       /\ (at = "host") <=> (op # "act")
       /\ reader' = [reader EXCEPT ![r] = [Idle EXCEPT !.op = op,
                                          !.at = at]]
  /\ UNCHANGED <<truth, cache, held, since>>

\* _probe and _host_containers with an answer at hand that is not stale.
Use(r) ==
  \E k \in Keys :
    /\ reader[r].at = k /\ reader[r].got = None
    /\ reader[r].op # "refresh" /\ Fresh(k)
    /\ reader' = [reader EXCEPT ![r] = After(r, k, cache[k].val)]
    /\ UNCHANGED <<truth, cache, held, since>>

\* The same without one, or with fresh=True: the host is asked ...
Ask(r) ==
  \E k \in Keys :
    /\ reader[r].at = k /\ reader[r].got = None
    /\ (reader[r].op = "refresh" \/ ~Fresh(k))
    /\ \E val \in Answers(k) : reader' = [reader EXCEPT ![r].got = val]
    /\ UNCHANGED <<truth, cache, held, since>>

\* ... and the answer kept when it is there.
Keep(r) ==
  \E k \in Keys :
    /\ Reads(r, k)
    /\ cache' = [cache EXCEPT ![k] = [age |-> 0, val |-> reader[r].got]]
    /\ reader' = [reader EXCEPT ![r] = After(r, k, reader[r].got)]
    /\ UNCHANGED <<truth, held, since>>

\* The page is rendered, the refresher sleeps.
Done(r) ==
  /\ reader[r].at = "done" /\ reader[r].op # "act"
  /\ reader' = [reader EXCEPT ![r] = Idle]
  /\ UNCHANGED <<truth, cache, held, since>>

(********************************* Dropping ********************************)

Changes(new) == /\ truth' = new
                /\ held' = [k \in Keys |-> [held[k] EXCEPT ![truth[k]] = 0, ![new[k]] = 0]]
                /\ since' = [k \in Keys |-> IF since[k] = None THEN None
                                            ELSE since[k] \cup {new[k]}]

\* A bug that NothingFromBefore finds: the answers are not dropped.
DropNothing(k) ==
  /\ UNCHANGED cache
  /\ since' = [since EXCEPT ![k] = IF \E r \in Readers : Reads(r, k) THEN None ELSE {truth[k]}]

\* invalidate, of one of the two caches.
Drop(k) ==
  /\ cache' = [cache EXCEPT ![k] = None]
  /\ since' = [since EXCEPT ![k] = IF \E r \in Readers : Reads(r, k) THEN None ELSE {truth[k]}]

\* container_action after its look: compose ran (what it changed of the project happened
\* before the answers are dropped), or failed, and nothing is dropped.
Act(r) ==
  /\ reader[r].at = "done" /\ reader[r].op = "act"
  /\ reader' = [reader EXCEPT ![r] = Idle]
  /\ \/ /\ truth.host
        /\ Drop("docker")
        /\ UNCHANGED <<truth, held>>
     \/ UNCHANGED <<truth, cache, held, since>>

\* _power: the machine was told to go on or off, and the probes are dropped.  It takes
\* its time, so what the drop makes room for may still be the old state.
Power == Drop("host") /\ UNCHANGED <<truth, reader, held>>

\* The machine, or somebody at it.
Happens ==
  /\ \E new \in [host : BOOLEAN, docker : Projects] : new # truth /\ Changes(new)
  /\ UNCHANGED <<cache, reader>>

\* Time passes while hosts are asked, and a read ends by its timeout; the rest takes none.
Tick ==
  /\ \A r \in Readers : reader[r] = Idle \/ (reader[r].got # None /\ reader[r].age < Longest)
  /\ reader' = [r \in Readers |-> IF reader[r] = Idle THEN Idle
                                  ELSE [reader[r] EXCEPT !.age = @ + 1]]
  /\ cache' = [k \in Keys |-> IF cache[k] = None THEN None
                              ELSE [cache[k] EXCEPT !.age = Older(@, Stale)]]
  /\ held' = [k \in Keys |-> [v \in Values(k) |->
                IF v = truth[k] THEN 0 ELSE Older(held[k][v], Oldest)]]
  /\ UNCHANGED <<truth, since>>

Init == /\ truth \in [host : BOOLEAN, docker : Projects]
        /\ cache = [k \in Keys |-> None]
        /\ reader = [r \in Readers |-> Idle]
        /\ held = [k \in Keys |-> [v \in Values(k) |-> IF v = truth[k] THEN 0 ELSE Oldest]]
        /\ since = [k \in Keys |-> None]

Next == \/ \E r \in Readers : Begin(r) \/ Use(r) \/ Ask(r) \/ Keep(r) \/ Done(r) \/ Act(r)
        \/ Power \/ Happens \/ Tick

Spec == Init /\ [][Next]_vars

(******************************* Properties ********************************)

TypeOK ==
  /\ truth \in [host : BOOLEAN, docker : Projects]
  /\ \A k \in Keys :
       /\ cache[k] # None => /\ cache[k].age \in 0..Stale
                             /\ cache[k].val \in Answered(k)
       /\ held[k] \in [Values(k) -> 0..Oldest]
       /\ since[k] # None => truth[k] \in since[k]
  /\ \A r \in Readers :
       /\ reader[r].op \in {"none", "refresh", "page", "act"}
       /\ reader[r].at \in Keys \cup {"none", "done"}
       /\ reader[r].age \in 0..Longest

\* A page never shows a state of the host that is older than the time to live and the
\* time the reads took, whoever read it, dropped it or put it back meanwhile.
HostWasTrue ==
  \A r \in Readers :
    reader[r].at = "done" /\ reader[r].op = "page"
      => held["host"][reader[r].host] <= Stale + 2 * Longest

\* A project is shown as down or asleep only if it was: a host that does not answer, a
\* login that fails or an answer under way make it unknown and nothing else.
DownMeansDown ==
  \A r \in Readers, onDemand, answers \in BOOLEAN :
    /\ reader[r].at = "done" /\ reader[r].op = "page"
    /\ Light(reader[r].host, reader[r].docker, onDemand, answers) \in {"down", "asleep"}
    => \E found \in Projects : /\ found \cap {"running", "unhealthy", "starting"} = {}
                               /\ held["docker"][found] <= Stale + Longest

\* What a page shows was true, of the host and of its project.
ShownWasTrue == TypeOK /\ HostWasTrue /\ DownMeansDown

\* Once the answers were dropped with no read under way, nothing from before comes back:
\* what is kept from then on was true at the drop or later.
NothingFromBefore ==
  \A k \in Keys :
    /\ since[k] # None /\ cache[k] # None
    /\ (k = "host" \/ cache[k].val # Error)
    => cache[k].val \in since[k]
=============================================================================
