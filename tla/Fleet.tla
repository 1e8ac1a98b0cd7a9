------------------------------- MODULE Fleet -------------------------------
(***************************************************************************)
(* config.yaml as the settings pages edit it: the servers, the guests      *)
(* their hypervisors manage, the compose projects, and which servers a job *)
(* leaves out, with the record of enrolled addresses beside it.            *)
(*                                                                         *)
(* A machine is referred to by name in five places of the file, and every  *)
(* handler of web/settings.py has to carry an edit into all of them.  The  *)
(* handlers load, change and save the file without giving the event loop   *)
(* back, so each is one step.  What is concurrent is the operator: a form  *)
(* may be open while another tab removes the machine it is about (`open`). *)
(***************************************************************************)
EXTENDS Naturals, FiniteSets

CONSTANTS Names,      \* names a server can be given
          Addresses,  \* addresses
          VmIds,      \* VM ids; NoId is the blank field
          Projects,   \* names of compose projects
          Jobs,       \* the jobs a server can be left out of
          Forms,      \* the server forms that are sent
          Start,      \* the configurations, written by hand, to start from
          None, NoId,
          MaxEdits    \* bound on changes of the file

\* What validate.server and the platforms tell apart: "watched" is a Linux
\* machine with `ssh: false`, "windows" one that runs no Docker.
Kinds == {"linux", "proxmox", "windows", "watched"}
HasSsh(kind) == kind # "watched"
SupportsDocker(kind) == kind # "windows"
PasswordEnrol(kind) == kind # "windows"

ServerForm == [name : Names, addr : Addresses, kind : Kinds, mac : BOOLEAN, od : BOOLEAN,
               host : Names \cup {None}, vm : VmIds \cup {NoId}]

\* `relay` and `logs` (wol_relay, job_logs and their like) have no field in the form.
Entry == [addr : Addresses, kind : Kinds, mac : BOOLEAN, od : BOOLEAN,
          relay : Names \cup {None}, logs : BOOLEAN]
Guest == [host : Names, vm : VmIds, guest : Names, od : BOOLEAN]
\* A compose project: the server it names, and keys its form does not have.
Project == [on : Names, hand : BOOLEAN]

ASSUME FleetAssumption == /\ None \notin Names \cup Projects
                          /\ NoId \notin VmIds
                          /\ Forms \subseteq ServerForm
                          /\ MaxEdits \in Nat

VARIABLES servers,   \* name -> entry
          guests,    \* the `manages_vms` of all entries, with the entry's name as `host`
          projects,  \* name -> project
          left,      \* job_exclude: job -> names
          enrolled,  \* addresses Timar has logged in to with its key
          open,      \* the machine whose edit form a second tab holds
          edits

cfg == [servers |-> servers, guests |-> guests, projects |-> projects, left |-> left]
vars == <<servers, guests, projects, left, enrolled, open, edits>>

Configured(c) == DOMAIN c.servers

(*************************** What the file says ****************************)

\* config.on_demand: own reasons, then guests inherit from on-demand
\* hypervisors, round by round until nothing changes.
OwnReason(c) ==
  {n \in Configured(c) : c.servers[n].mac \/ c.servers[n].od}
    \cup {g.guest : g \in {g \in c.guests : g.od}}

\* A bug that OnDemandIsLeast finds: guests inherit once, guests of guests do not.
OnDemandOnce(c) ==
  OwnReason(c) \cup {g.guest : g \in {g \in c.guests : g.host \in OwnReason(c)}}

OnDemand(c) ==
  LET Inherit[i \in 0..Cardinality(c.guests)] ==
        IF i = 0 THEN OwnReason(c)
        ELSE Inherit[i - 1] \cup {g.guest : g \in {g \in c.guests : g.host \in Inherit[i - 1]}}
  IN Inherit[Cardinality(c.guests)]

CanWake(c, n) == \/ n \in Configured(c) /\ c.servers[n].mac
                 \/ \E g \in c.guests : g.guest = n

\* A bug that BoxIsMeant finds: the box shows the machine's own flag.
ShownFlag(c, n) ==
  LET link == {g \in c.guests : g.guest = n}
      of == CHOOSE g \in link : TRUE
  IN [name |-> n, addr |-> c.servers[n].addr, kind |-> c.servers[n].kind,
      mac |-> c.servers[n].mac, od |-> c.servers[n].od,
      host |-> IF link = {} THEN None ELSE of.host,
      vm |-> IF link = {} THEN NoId ELSE of.vm]

\* _server_values: the edit form as it is shown, the link flattened into it,
\* the box ticked for what Timar will do and not for which flag is written.
Shown(c, n) ==
  LET link == {g \in c.guests : g.guest = n}
      of == CHOOSE g \in link : TRUE
  IN [name |-> n, addr |-> c.servers[n].addr, kind |-> c.servers[n].kind,
      mac |-> c.servers[n].mac, od |-> n \in OnDemand(c),
      host |-> IF link = {} THEN None ELSE of.host,
      vm |-> IF link = {} THEN NoId ELSE of.vm]

(******************************* Validation ********************************)

\* validate.server and validate.guest_link.  `original` is None for a new
\* server, and the name the form was opened with for an edit.
NameFree(c, original, f) == f.name = original \/ f.name \notin Configured(c)

LinkAllowed(c, original, f) ==
  IF f.host = None
  THEN f.vm = NoId
  ELSE /\ f.host \in Configured(c)
       /\ c.servers[f.host].kind = "proxmox"
       /\ f.host \notin {f.name, original}
       /\ f.vm # NoId
       /\ \A g \in c.guests :
            g.host = f.host /\ g.vm = f.vm => g.guest \in {f.name, original}

Accepted(c, original, f) == NameFree(c, original, f) /\ LinkAllowed(c, original, f)

(*************************** Saving and removing ***************************)

Swap(n, old, new) == IF n = old THEN new ELSE n

\* A bug that HandWrittenKept finds: what has no field in the form is lost.
BuiltAfresh(c, original, f) ==
  [addr |-> f.addr, kind |-> f.kind, mac |-> f.mac, od |-> f.od /\ ~f.mac /\ f.host = None,
   relay |-> IF original \in Configured(c) THEN c.servers[original].relay ELSE None,
   logs |-> FALSE]

\* The entry validate.server builds, with what _carry_hand_written keeps of the old one.
Built(c, original, f) ==
  LET known == original \in Configured(c)
  IN [addr |-> f.addr, kind |-> f.kind, mac |-> f.mac,
      od |-> f.od /\ ~f.mac /\ f.host = None,
      relay |-> IF known THEN c.servers[original].relay ELSE None,
      logs |-> known /\ c.servers[original].logs]

\* A new entry is appended, an edited one takes the place of the original.
\* When the original is gone by now, nothing takes any place.
Placed(c, original, f) ==
  IF original # None /\ original \notin Configured(c)
  THEN c
  ELSE [c EXCEPT
         !.servers = [n \in (Configured(c) \ {original}) \cup {f.name} |->
                        IF n = f.name THEN Built(c, original, f) ELSE c.servers[n]],
         !.guests = {[g EXCEPT !.host = Swap(g.host, original, f.name)] : g \in @}]

\* A bug that RenameIsRenaming finds: the projects keep the old name.
RenamedServers(c, old, new) ==
  [servers |-> [n \in Configured(c) |-> [c.servers[n] EXCEPT !.relay = Swap(@, old, new)]],
   guests |-> {[g EXCEPT !.guest = Swap(g.guest, old, new)] : g \in c.guests},
   projects |-> c.projects,
   left |-> [j \in DOMAIN c.left |-> {Swap(n, old, new) : n \in c.left[j]}]]

\* _rename_references, the projects in save_server, and membership.rename.
Renamed(c, old, new) ==
  [servers |-> [n \in Configured(c) |-> [c.servers[n] EXCEPT !.relay = Swap(@, old, new)]],
   guests |-> {[g EXCEPT !.guest = Swap(g.guest, old, new)] : g \in c.guests},
   projects |-> [p \in DOMAIN c.projects |-> [c.projects[p] EXCEPT !.on = Swap(@, old, new)]],
   left |-> [j \in DOMAIN c.left |-> {Swap(n, old, new) : n \in c.left[j]}]]

\* A bug that LinksHold finds: the old link stays.
RelinkedToo(c, f) ==
  [c EXCEPT !.guests =
     @ \cup IF f.host = None THEN {}
            ELSE {[host |-> f.host, vm |-> f.vm, guest |-> f.name, od |-> f.od]}]

\* _relink_guest: a guest of exactly the hypervisor in the form, or of none.
Relinked(c, f) ==
  [c EXCEPT !.guests =
     {g \in @ : g.guest # f.name}
       \cup IF f.host = None THEN {}
            ELSE {[host |-> f.host, vm |-> f.vm, guest |-> f.name, od |-> f.od]}]

Saved(c, original, f) ==
  LET placed == Placed(c, original, f)
      carried == IF original \in {None, f.name} THEN placed
                 ELSE Renamed(placed, original, f.name)
  IN Relinked(carried, f)

\* delete_server: the entry with its guests, the links to it, membership.forget.
\* A relay or a project that names it keeps the name.
Removed(c, n) ==
  [c EXCEPT !.servers = [m \in Configured(c) \ {n} |-> c.servers[m]],
            !.guests = {g \in @ : n \notin {g.host, g.guest}},
            !.left = [j \in DOMAIN c.left |-> c.left[j] \ {n}]]

\* validate.container, as far as it looks at another part of the file.
ContainerAccepted(c, original, p, n) ==
  /\ p = original \/ p \notin DOMAIN c.projects
  /\ n \in Configured(c) /\ SupportsDocker(c.servers[n].kind)

\* save_container: a new project is appended, an edited one takes the place of the
\* original with what its form does not have, and none the place of one that is gone.
Filed(c, original, p, n) ==
  LET known == original \in DOMAIN c.projects
  IN IF original # None /\ ~known
     THEN c
     ELSE [c EXCEPT
            !.projects = [q \in (DOMAIN @ \ {original}) \cup {p} |->
                            IF q = p THEN [on |-> n, hand |-> known /\ @[original].hand]
                            ELSE @[q]]]

(********************************* Actions *********************************)

Store(c) == /\ servers' = c.servers
            /\ guests' = c.guests
            /\ projects' = c.projects
            /\ left' = c.left

Edit(c) == /\ edits < MaxEdits
           /\ edits' = edits + 1
           /\ Store(c)

OpenForm == /\ open' \in DOMAIN servers
            /\ UNCHANGED <<servers, guests, projects, left, enrolled, edits>>

\* save_server, from a form opened just now or from the one in the other tab.
SaveServer ==
  \E original \in DOMAIN servers \cup {None, open}, f \in Forms :
    /\ Accepted(cfg, original, f)
    /\ Edit(Saved(cfg, original, f))
    /\ open' = IF original = open THEN None ELSE open
    /\ UNCHANGED enrolled

DeleteServer ==
  \E n \in DOMAIN servers :
    /\ Edit(Removed(cfg, n))
    /\ UNCHANGED <<enrolled, open>>

\* job_host and membership.set_excluded.
JobHost ==
  \E job \in Jobs, n \in DOMAIN servers :
    /\ \E names \in {left[job] \cup {n}, left[job] \ {n}} :
         Edit([cfg EXCEPT !.left[job] = names])
    /\ UNCHANGED <<enrolled, open>>

SaveContainer ==
  \E original \in Projects \cup {None}, p \in Projects, n \in DOMAIN servers :
    /\ ContainerAccepted(cfg, original, p, n)
    /\ Edit(Filed(cfg, original, p, n))
    /\ UNCHANGED <<enrolled, open>>

\* import_containers: the ticked projects of one host, all of them or none.
ImportContainers ==
  \E ticked \in SUBSET Projects \ {{}}, n \in DOMAIN servers :
    /\ \A p \in ticked : ContainerAccepted(cfg, None, p, n)
    /\ Edit([cfg EXCEPT !.projects = [p \in DOMAIN @ \cup ticked |->
                                        IF p \in ticked THEN [on |-> n, hand |-> FALSE]
                                        ELSE @[p]]])
    /\ UNCHANGED <<enrolled, open>>

DeleteContainer ==
  \E p \in DOMAIN projects :
    /\ Edit([cfg EXCEPT !.projects = [q \in DOMAIN projects \ {p} |-> projects[q]]])
    /\ UNCHANGED <<enrolled, open>>

\* membership.mark_enrolled: a login with the key worked, whoever asked for it.
MarkEnrolled(n) ==
  /\ enrolled' = enrolled \cup {servers[n].addr}
  /\ UNCHANGED <<servers, guests, projects, left, open, edits>>

\* _enrol: with a password the key is first put on the machine, for the platforms that
\* let Timar do it; either way a login with the key alone has to follow.  When anything
\* of it fails, nothing is recorded, though the key may be on the machine.
Enrol ==
  \E n \in DOMAIN servers, password \in BOOLEAN :
    /\ HasSsh(servers[n].kind)
    /\ password => PasswordEnrol(servers[n].kind)
    /\ MarkEnrolled(n)

\* ssh.connect: the key of somebody else's making is on the machine, and a job, a page
\* or a probe logs in.
KeyLogin ==
  \E n \in DOMAIN servers : HasSsh(servers[n].kind) /\ MarkEnrolled(n)

Init == /\ \E c \in Start : /\ servers = c.servers
                            /\ guests = c.guests
                            /\ projects = c.projects
                            /\ left = c.left
        /\ enrolled = {}
        /\ open = None
        /\ edits = 0

Next == \/ OpenForm \/ SaveServer \/ DeleteServer \/ JobHost
        \/ SaveContainer \/ ImportContainers \/ DeleteContainer
        \/ Enrol \/ KeyLogin

Spec == Init /\ [][Next]_vars

(******************************* Properties ********************************)

Typed(c) == /\ DOMAIN c.servers \subseteq Names
            /\ c.servers \in [DOMAIN c.servers -> Entry]
            /\ c.guests \subseteq Guest
            /\ DOMAIN c.projects \subseteq Projects
            /\ c.projects \in [DOMAIN c.projects -> Project]
            /\ c.left \in [Jobs -> SUBSET Names]

TypeOK == /\ Typed(cfg)
          /\ enrolled \subseteq Addresses
          /\ open \in Names \cup {None}
          /\ edits \in 0..MaxEdits

\* A machine is a guest of one hypervisor at most, and a VM id of a hypervisor
\* is one machine's, whatever forms are saved in whatever order: `qm` is told an
\* id, so a second owner would be started or shut down in place of the first.
OneHypervisor(c) ==
  \A g, h \in c.guests : g.guest = h.guest \/ (g.host = h.host /\ g.vm = h.vm) => g = h

\* Every hypervisor that manages somebody and every server left out of a job is
\* still configured: no rename, removal or stale form leaves a link to nobody,
\* and a server added under an old name starts without the old one's exclusions.
NothingOfTheRemoved(c) ==
  /\ \A g \in c.guests : g.host \in DOMAIN c.servers
  /\ \A job \in Jobs : c.left[job] \subseteq DOMAIN c.servers

\* No hypervisor is its own guest, not even after it took the name of one.
NobodysOwn(c) == \A g \in c.guests : g.host # g.guest

\* The file that somebody wrote by hand is as good: nothing checks that of it.
ASSUME StartAssumption ==
  \A c \in Start : /\ Typed(c) /\ IsFiniteSet(c.guests)
                   /\ OneHypervisor(c) /\ NothingOfTheRemoved(c) /\ NobodysOwn(c)

\* Every variable keeps to its type, and the links of the file lead to somebody else, one
\* each.
LinksHold == TypeOK /\ OneHypervisor(cfg) /\ NothingOfTheRemoved(cfg) /\ NobodysOwn(cfg)

\* A rename through the form is a renaming: the file that results is the old one
\* with the new name in every place of the old.  (_rename_references,
\* membership.rename and the projects in save_server cover every reference.)
WithName(c, old, new) ==
  [servers |-> [n \in {Swap(m, old, new) : m \in Configured(c)} |->
                 LET e == c.servers[Swap(n, new, old)]
                 IN [e EXCEPT !.relay = Swap(@, old, new)]],
   guests |-> {[g EXCEPT !.host = Swap(@, old, new), !.guest = Swap(@, old, new)] : g \in c.guests},
   projects |-> [p \in DOMAIN c.projects |-> [c.projects[p] EXCEPT !.on = Swap(@, old, new)]],
   left |-> [j \in DOMAIN c.left |-> {Swap(n, old, new) : n \in c.left[j]}]]

\* What the form's box writes is set aside: it is shown ticked for an inherited
\* reason too, and then written as the guest's own (see BoxIsMeant).
Unticked(c) == [c EXCEPT !.guests = {[g EXCEPT !.od = FALSE] : g \in @},
                         !.servers = [n \in DOMAIN @ |-> [@[n] EXCEPT !.od = FALSE]]]

RenameIsRenaming ==
  \A old \in DOMAIN servers, new \in Names \ (DOMAIN servers \cup {g.guest : g \in guests}) :
    Unticked(Saved(cfg, old, [Shown(cfg, old) EXCEPT !.name = new]))
      = Unticked(WithName(cfg, old, new))

\* Saving an edit form as it was shown, or with another name, changes neither what
\* is written by hand nor which machines are expected to be off or can be woken,
\* although the box mixes three reasons into one tick.
BoxIsMeant ==
  \A n \in DOMAIN servers :
    LET after == Saved(cfg, n, Shown(cfg, n))
    IN /\ Unticked(after) = Unticked(cfg)
       /\ OnDemand(after) = OnDemand(cfg)
       /\ \A m \in Names : CanWake(after, m) <=> CanWake(cfg, m)

\* config.on_demand is the least set that has the machines with a reason of their
\* own and the guests of its members: rounds enough even for guests of guests and
\* for hypervisors that are each other's guests, which the forms allow, and a
\* cycle with no reason of its own is expected to be up.
OnDemandIsLeast ==
  LET closed(S) == /\ OwnReason(cfg) \subseteq S
                   /\ \A g \in guests : g.host \in S => g.guest \in S
  IN /\ closed(OnDemand(cfg))
     /\ \A S \in SUBSET Names : closed(S) => OnDemand(cfg) \subseteq S

\* An edit leaves what is written by hand for every machine and every project that keeps
\* its name, but for a relay that follows a rename: a sweep that stops watching a log
\* reports nothing, so nobody would notice.
HandWrittenKept ==
  [][/\ \A n \in DOMAIN servers \cap DOMAIN servers' :
          /\ servers'[n].logs = servers[n].logs
          /\ \/ servers'[n].relay = servers[n].relay
             \/ servers[n].relay \notin DOMAIN servers'
     /\ \A p \in DOMAIN projects \cap DOMAIN projects' :
          projects'[p].hand = projects[p].hand]_vars
=============================================================================
