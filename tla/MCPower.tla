------------------------------ MODULE MCPower ------------------------------
(***************************************************************************)
(* Fleets for the power buttons: two guests of one hypervisor that is      *)
(* woken through a relay, a guest of a guest, and two hypervisors that are *)
(* each other's guests, which the settings page does not refuse.           *)
(***************************************************************************)
EXTENDS Power

MCMachines == {"hv", "vm", "in"}

On(hosts) == [m \in MCMachines |-> IF m \in DOMAIN hosts THEN hosts[m] ELSE None]

MCFleets ==
  {[parent |-> On([vm |-> "hv", in |-> "hv"]), mac |-> {"hv"}, relay |-> On(<<>>), onboot |-> {"in"}],
   [parent |-> On([vm |-> "hv", in |-> "vm"]), mac |-> {"hv"}, relay |-> On(<<>>), onboot |-> {"vm"}],
   [parent |-> On([in |-> "vm"]), mac |-> {"vm"}, relay |-> On([vm |-> "hv"]), onboot |-> {}],
   [parent |-> On([vm |-> "hv", hv |-> "vm"]), mac |-> {"in"}, relay |-> On(<<>>), onboot |-> {}],
   [parent |-> On([vm |-> "hv", in |-> "vm"]), mac |-> {}, relay |-> On(<<>>), onboot |-> {}]}
=============================================================================
