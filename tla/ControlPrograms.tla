-------------------------- MODULE ControlPrograms --------------------------
(***************************************************************************)
(* The control programs that the Makefile of src/tbf builds, as records    *)
(* for module Controller.                                                  *)
(***************************************************************************)
EXTENDS Controller, FiniteSets

CONSTANTS
    HBW, LBW,       \* the rates of tbf, in bits per second
    bws,            \* the plan of the command line of the others
    InitialRate,    \* the rate in the tc commands (5.5Gbit)
    InitialLatency  \* the delay in the tc commands (100us)

nbws == Cardinality(DOMAIN bws)

\* A tc command that adds a qdisc.
Add(dev, place, handle, kind, rate, latency) ==
    [dev |-> dev, place |-> place,
     qdisc |-> [kind |-> kind, handle |-> handle, rate |-> rate, latency |-> latency]]

AddTbf(dev, handle) == Add(dev, "root", handle, "tbf", InitialRate, 0)

Macvlans == {"macvlan0", "macvlan1"}

\* The requests of a round.
Tbf(dev) ==
    [dev |-> dev, place |-> "root", kind |-> "tbf", rated |-> TRUE, delayed |-> FALSE]

Netem(dev, place) ==
    [dev |-> dev, place |-> place, kind |-> "netem", rated |-> FALSE, delayed |-> TRUE]

\* tbf starts behind the last of its two entries.
tbf ==
    [entries |-> 2, first |-> 1,
     plan |-> [e \in {0, 1} |-> [bandwidth |-> IF e = 0 THEN HBW ELSE LBW, delay |-> 0]],
     setup |-> {AddTbf(d, "any") : d \in Macvlans},
     requests |-> <<Tbf("macvlan0"), Tbf("macvlan1")>>]

netem ==
    [entries |-> nbws, first |-> 0, plan |-> bws,
     setup |-> {Add(d, "root", "any", "netem", InitialRate, 0) : d \in Macvlans},
     requests |-> <<[Netem("macvlan0", "root") EXCEPT !.rated = TRUE],
                    [Netem("macvlan1", "root") EXCEPT !.rated = TRUE]>>]

tn ==
    [entries |-> nbws, first |-> 0, plan |-> bws,
     setup |-> {AddTbf(d, "1:") : d \in Macvlans} \cup
               {Add(d, "child", "10:", "netem", 0, 0) : d \in Macvlans},
     requests |-> <<Tbf("macvlan0"), Tbf("macvlan1"),
                    Netem("macvlan0", "child"), Netem("macvlan1", "child")>>]

ti ==
    [entries |-> nbws, first |-> 0, plan |-> bws,
     setup |-> {AddTbf(d, "any") : d \in Macvlans} \cup
               {Add(d, "root", "any", "netem", 0, InitialLatency) : d \in {"ifb0", "ifb1"}},
     requests |-> <<Tbf("macvlan0"), Tbf("macvlan1"),
                    Netem("ifb0", "root"), Netem("ifb1", "root")>>]

te ==
    [entries |-> nbws, first |-> 0, plan |-> bws,
     setup |-> {AddTbf(d, "any") : d \in Macvlans} \cup
               {Add("enp1s0", "root", "any", "netem", 0, InitialLatency)},
     requests |-> <<Netem("enp1s0", "root"), Tbf("macvlan0"), Tbf("macvlan1")>>]

Built == {tbf, netem, tn, ti, te}
=============================================================================
