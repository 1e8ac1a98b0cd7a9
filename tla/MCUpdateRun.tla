----------------------------- MODULE MCUpdateRun ------------------------------
(* Small fleets.                                                            *)
EXTENDS UpdateRun

\* A fleet of servers with the given order, guests and timar's own host, all of
\* them enrolled, always on, without windows and on Linux.
Fleet(order, guestsOf, ownHost) ==
    [order |-> order,
     guests |-> [m \in Elements(order) |-> IF m \in DOMAIN guestsOf THEN guestsOf[m] ELSE <<>>],
     own |-> ownHost,
     leftOut |-> {}, watched |-> {}, windowed |-> {}, wakeable |-> {}, byHand |-> {},
     noCommand |-> {}, projects |-> {ownHost} \ {None}, desktops |-> {}]

\* timar's host listed first, a hypervisor that sleeps and its guest.
Rack == [Fleet(<<"docker", "hv", "vm">>, [hv |-> <<"vm">>], "docker") EXCEPT
            !.wakeable = {"hv"}, !.projects = {"docker", "vm"}]

\* A desktop with a window, and a hypervisor with timar's own host as a guest and
\* another one left out.
Home == [Fleet(<<"pc", "hv", "vm", "docker">>, [hv |-> <<"docker", "vm">>], "docker") EXCEPT
            !.leftOut = {"vm"}, !.windowed = {"pc"}, !.wakeable = {"pc"}, !.desktops = {"pc"}]

\* One switched on by hand, one with nothing to run, one only watched, and a
\* hypervisor left out of the job with timar's own host as one of its guests.
Lists == [Fleet(<<"laptop", "router", "camera", "hv", "vm", "docker">>,
                [hv |-> <<"docker", "vm">>], "docker") EXCEPT
             !.leftOut = {"camera", "hv"}, !.watched = {"camera"}, !.byHand = {"laptop"},
             !.noCommand = {"router"}]

\* timar's own host with a guest, which has one itself.
Nested == Fleet(<<"docker", "vm", "inner">>, [docker |-> <<"vm">>, vm |-> <<"inner">>], "docker")

Fleets == {Rack, Home, Lists, Nested}

=============================================================================
