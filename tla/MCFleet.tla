------------------------------ MODULE MCFleet ------------------------------
(***************************************************************************)
(* Three names, for a hypervisor, a guest and a relay.  The first          *)
(* configuration is a fleet with every kind of reference, the second two   *)
(* hypervisors and no guest, from which loops and moves are made.          *)
(***************************************************************************)
EXTENDS Fleet, TLC

MCNames == {"hv", "vm", "pi"}
MCAddresses == {"x", "y"}
MCVmIds == {1, 2}

Machine(kind, mac, relay, logs) ==
  [addr |-> "x", kind |-> kind, mac |-> mac, od |-> FALSE, relay |-> relay, logs |-> logs]

MCStart ==
  {[servers |-> ("hv" :> Machine("proxmox", TRUE, "pi", TRUE))
                  @@ ("vm" :> Machine("linux", FALSE, None, TRUE))
                  @@ ("pi" :> Machine("linux", FALSE, None, FALSE)),
    guests |-> {[host |-> "hv", vm |-> 1, guest |-> "vm", od |-> FALSE]},
    projects |-> "site" :> [on |-> "vm", hand |-> TRUE],
    left |-> [job \in Jobs |-> {"vm", "pi"}]],
   [servers |-> ("hv" :> Machine("proxmox", FALSE, None, TRUE))
                  @@ ("vm" :> Machine("proxmox", FALSE, None, FALSE)),
    guests |-> {},
    projects |-> "site" :> [on |-> "hv", hand |-> TRUE],
    left |-> [job \in Jobs |-> {}]]}

\* What the properties tell apart: two addresses only for a machine that was not
\* reached yet, no Docker and no SSH only for machines without a hypervisor.
MCForms ==
  {f \in ServerForm : /\ f.mac => ~f.od /\ f.host = None
                      /\ f.kind \in {"windows", "watched"} => f.host = None /\ ~f.od /\ ~f.mac
                      /\ f.addr = "y" => f.kind = "linux" /\ ~f.mac /\ ~f.od /\ f.host = None
                      /\ f.od => f.kind = "linux"
                      /\ f.host = None => f.vm = NoId}
=============================================================================
