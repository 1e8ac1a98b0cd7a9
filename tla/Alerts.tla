------------------------------- MODULE Alerts ------------------------------
(***************************************************************************)
(* alerts.watch, once a minute after the probes (_keep_status_fresh), with *)
(* its file alerts.json, the bot it tells through, and restarts in between.*)
(* A look sends what is due before it saves what it knows, so a crash      *)
(* between the two has the next process send it again.                     *)
(*                                                                         *)
(* Times are kept as ages: `since` is how many looks' worth of time a host *)
(* has been down, up to the `Minutes` after which it is reported.          *)
(***************************************************************************)
EXTENDS Naturals, Sequences, SequencesExt, FiniteSets

CONSTANTS Hosts, None,
          Minutes,     \* down_alert_minutes
          MaxPending,  \* MAX_PENDING
          MaxCrashes,  \* bound on crashes
          MaxEdits     \* bound on removals and additions of hosts

ASSUME AlertsAssumption == /\ Minutes \in Nat \ {0} /\ None \notin Nat
                           /\ MaxPending \in Nat \ {0}
                           /\ {MaxCrashes, MaxEdits} \subseteq Nat
                           /\ IsFiniteSet(Hosts)

\* Of HostStatus.state, watch tells "down" from the two others: a host that is switched
\* to on-demand while it is down is told of as back, although it is asleep.
States == {"down", "up"}
Message == [host : Hosts, what : {"down", "back"}]
Entry == {e \in [since : 0..Minutes, told : BOOLEAN] : e.told => e.since = Minutes}

VARIABLES state,    \* host -> what the probe finds (HostStatus.state)
          known,    \* the hosts in config.yaml
          file,     \* alerts.json: [down: host -> entry, for some hosts; pending: messages]
          data,     \* the same in a look's memory, until it is saved
          at,       \* the refresher: "sleep", "look", "save"
          online,   \* the bot can be reached
          said,     \* host -> the last message that was delivered ("back" before any)
          row,      \* host -> age of the first of the looks in a row that found it down, or None
          excused,  \* hosts whose messages a fault has put out of step
          crashes, edits

vars == <<state, known, file, data, at, online, said, row, excused, crashes, edits>>

Empty == [down |-> [h \in {} |-> 0], pending |-> <<>>]

Due(e) == ~e.told /\ e.since >= Minutes

\* Bugs that FileIsTrue and NoBlips find: a host is never marked as told, or keeps the age
\* of an outage that is over.
NotedUntold(down) ==
  [h \in {h \in known : state[h] = "down"} |->
     IF h \notin DOMAIN down THEN [since |-> 0, told |-> FALSE] ELSE down[h]]

NotedForGood(down) ==
  [h \in {h \in known : state[h] = "down" \/ (h \in DOMAIN down /\ ~down[h].told)} |->
     IF h \notin DOMAIN down THEN [since |-> 0, told |-> FALSE]
     ELSE [down[h] EXCEPT !.told = @ \/ (state[h] = "down" /\ Due(down[h]))]]

\* The entries after a look: a host that is down begins one or is told of, one that
\* is not down, or not configured, has none.
Noted(down) ==
  [h \in {h \in known : state[h] = "down"} |->
     IF h \notin DOMAIN down THEN [since |-> 0, told |-> FALSE]
     ELSE [down[h] EXCEPT !.told = @ \/ Due(down[h])]]

\* The messages a look adds, in the order of the hosts.
News(down) ==
  LET fresh == {[host |-> h, what |-> "down"] :
                  h \in {h \in known \cap DOMAIN down : state[h] = "down" /\ Due(down[h])}}
        \cup {[host |-> h, what |-> "back"] :
                  h \in {h \in known \cap DOMAIN down : state[h] # "down" /\ down[h].told}}
  IN SetToSeq(fresh)

\* `del pending[:-MAX_PENDING]`
Newest(s) == IF Len(s) <= MaxPending THEN s ELSE SubSeq(s, Len(s) - MaxPending + 1, Len(s))

\* What the operator has read of h when the first n of the messages s have come, too.
WordAt(h, s, n) == LET of == {i \in 1..n : s[i].host = h}
                   IN IF of = {} THEN said[h] ELSE s[Max(of)].what
LastWord(h, s) == WordAt(h, s, Len(s))

(********************************** A look *********************************)

\* A minute has passed.
Older(age) == IF age < Minutes THEN age + 1 ELSE age
Tick == /\ at = "sleep"
        /\ at' = "look"
        /\ file' = [file EXCEPT !.down = [h \in DOMAIN file.down |->
                                         [file.down[h] EXCEPT !.since = Older(@)]]]
        /\ row' = [h \in Hosts |-> IF row[h] = None THEN None ELSE Older(row[h])]
        /\ UNCHANGED <<state, known, data, online, said, excused, crashes, edits>>

\* A bug that LastWordIsTrue finds: what could not be sent is not kept.
LookAndForget ==
  /\ at = "look"
  /\ LET pending == Newest(News(file.down))
     IN /\ data' = [down |-> Noted(file.down), pending |-> <<>>]
        /\ IF online THEN said' = [h \in Hosts |-> LastWord(h, pending)] ELSE UNCHANGED said
  /\ row' = [h \in Hosts |-> IF h \notin known \/ state[h] # "down" THEN None
                             ELSE IF row[h] = None THEN 0 ELSE row[h]]
  /\ at' = "save"
  /\ UNCHANGED <<state, known, file, online, excused, crashes, edits>>

\* watch up to the save: what is due is composed and sent, all of it in one message.
Look ==
  /\ at = "look"
  /\ LET waiting == file.pending \o News(file.down)
         pending == Newest(waiting)
     IN /\ IF online /\ pending # <<>>
           THEN /\ data' = [down |-> Noted(file.down), pending |-> <<>>]
                /\ said' = [h \in Hosts |-> LastWord(h, pending)]
           ELSE /\ data' = [down |-> Noted(file.down), pending |-> pending]
                /\ UNCHANGED said
        /\ excused' = excused
             \cup {waiting[i].host : i \in 1..(Len(waiting) - Len(pending))}
             \cup {h \in DOMAIN file.down \ known : file.down[h].told}
  /\ row' = [h \in Hosts |-> IF h \notin known \/ state[h] # "down" THEN None
                             ELSE IF row[h] = None THEN 0 ELSE row[h]]
  /\ at' = "save"
  /\ UNCHANGED <<state, known, file, online, crashes, edits>>

Save == /\ at = "save"
        /\ file' = data
        /\ data' = Empty
        /\ at' = "sleep"
        /\ UNCHANGED <<state, known, online, said, row, excused, crashes, edits>>

\* The process is killed and started again, perhaps before what was sent is saved.
Crash == /\ at # "sleep" /\ crashes < MaxCrashes
         /\ crashes' = crashes + 1
         /\ at' = "sleep"
         /\ data' = Empty
         /\ excused' = IF at = "save" THEN excused \cup Hosts ELSE excused
         /\ UNCHANGED <<state, known, file, online, said, row, edits>>

(********************************* Around it *******************************)

Change == /\ \E h \in Hosts, s \in States : state[h] # s /\ state' = [state EXCEPT ![h] = s]
          /\ UNCHANGED <<known, file, data, at, online, said, row, excused, crashes, edits>>

Line == /\ online' = ~online
        /\ UNCHANGED <<state, known, file, data, at, said, row, excused, crashes, edits>>

Edit == /\ edits < MaxEdits
        /\ edits' = edits + 1
        /\ \E h \in Hosts : known' = IF h \in known THEN known \ {h} ELSE known \cup {h}
        /\ UNCHANGED <<state, file, data, at, online, said, row, excused, crashes>>

Init == /\ state = [h \in Hosts |-> "up"]
        /\ known = Hosts
        /\ file = Empty /\ data = Empty
        /\ at = "sleep"
        /\ online = TRUE
        /\ said = [h \in Hosts |-> "back"]
        /\ row = [h \in Hosts |-> None]
        /\ excused = {}
        /\ crashes = 0 /\ edits = 0

Next == Tick \/ Look \/ Save \/ Crash \/ Change \/ Line \/ Edit

\* The refresher goes round, and a line that is up at look after look is used at one of them.
Spec == /\ Init /\ [][Next]_vars
        /\ WF_vars(Tick) /\ WF_vars(Look) /\ WF_vars(Save)
        /\ SF_vars(Look /\ online)

(******************************* Properties ********************************)

TypeOK ==
  LET ofFile(d) == /\ DOMAIN d.down \subseteq Hosts
                   /\ d.down \in [DOMAIN d.down -> Entry]
                   /\ d.pending \in Seq(Message)
  IN /\ state \in [Hosts -> States]
     /\ known \subseteq Hosts /\ excused \subseteq Hosts
     /\ ofFile(file) /\ ofFile(data)
     /\ at \in {"sleep", "look", "save"}
     /\ online \in BOOLEAN
     /\ said \in [Hosts -> {"down", "back"}]
     /\ row \in [Hosts -> (0..Minutes) \cup {None}]
     /\ crashes \in 0..MaxCrashes /\ edits \in 0..MaxEdits

\* The file does not grow while the bot is unreachable.
PendingBounded == Len(file.pending) <= MaxPending

\* What the operator has read of a host and will read of it next goes down, back, down,
\* back: nothing is said twice, no recovery is told of an outage that was not, and the
\* file knows which of the two comes next.  Excused are the hosts of which the cap
\* dropped a message, that were removed while down, and all after a crash between the
\* sending and the save.
OnceEach ==
  at # "save" =>
    /\ \A i \in DOMAIN file.pending :
         LET m == file.pending[i]
         IN m.host \in Hosts \ excused => m.what # WordAt(m.host, file.pending, i - 1)
    /\ \A h \in Hosts \ excused :
         (h \in DOMAIN file.down /\ file.down[h].told) <=> LastWord(h, file.pending) = "down"

\* alerts.json: typed, bounded, and in step with what was said.
FileIsTrue == TypeOK /\ PendingBounded /\ OnceEach

\* A reboot or a missed probe is no event: an outage is told of by a look that found the
\* host down, as did every look in the `Minutes` before it.
Told(d, h) == h \in DOMAIN d.down /\ d.down[h].told
NoBlips ==
  [][\A h \in Hosts \ excused :
       at = "look" /\ Told(data', h) /\ ~Told(file, h) => state[h] = "down" /\ row[h] = Minutes]_vars

\* An outage that lasts is told of, and stays told until it ends: across restarts, and
\* late if the line is down, provided that it is up at a look again and again.  (A crash
\* between a recovery's message and its save is excused here too: when the host is down
\* again at the next look, the file still has the first outage as told.)
LineComesBack == []<>(online /\ at = "look")

OutageIsTold ==
  \A h \in Hosts :
    LineComesBack /\ <>[](state[h] = "down" /\ h \in known)
      => <>[](said[h] = "down") \/ <>(h \in excused)

\* A host that is back for good is not left as down in what the operator read last.
RecoveryIsTold ==
  \A h \in Hosts :
    LineComesBack /\ <>[](state[h] = "up" /\ h \in known)
      => <>[](said[h] = "back") \/ <>(h \in excused)

\* In the end the operator is left with the truth.
LastWordIsTrue == OutageIsTold /\ RecoveryIsTold
=============================================================================
