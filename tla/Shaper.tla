------------------------------- MODULE Shaper -------------------------------
(***************************************************************************)
(* A control program of src/tbf (tbf.c; tbfnetem.c, tbfifb.c and tbfenp.c  *)
(* drive their tbf in the same way) at work on the tbf qdisc of one        *)
(* device: tc adds the qdisc, then a round after the other sends the next  *)
(* entry of the plan to tbf_change, while packets pass.                    *)
(***************************************************************************)
EXTENDS Tbf

CONSTANTS
    Initial,    \* the option block of the tc command
    nbws,       \* the number of entries of the plan
    Plan,       \* the option blocks of the rounds
    First       \* the entry that index starts at

Entries == 0..nbws - 1

\* The tc commands ask for a burst of 48750 bytes and the rounds for 50000; the
\* last segment of a GSO packet is not the longest.
ASSUME ShaperAssumption ==
    /\ nbws \in Nat \ {0} /\ First \in Entries
    /\ \A o \in {Initial} \cup {Plan[e] : e \in Entries} :
        /\ o \in Opts /\ o.peakrate = 0 /\ o.burst # Absent
        /\ Initial.burst <= o.burst
    /\ \A d, e \in Entries : Plan[d].burst = Plan[e].burst
    /\ \A p \in Skbs : p.tail <= p.seg

VARIABLES
    prog,       \* "setup", "loop" or "exited"
    index       \* the entry sent last

control == <<prog, index>>
shaper  == <<vars, control>>

InitShaper == Init /\ prog = "setup" /\ index = First

\* system("tc qdisc del ..."), which has nothing to do at the first start.
tc_qdisc_del ==
    /\ prog = "setup"
    /\ tbf_destroy
    /\ UNCHANGED control

\* system("tc qdisc add ..."): the result is not looked at.  It fails when the old
\* qdisc could not be removed.
tc_qdisc_add ==
    /\ prog = "setup"
    /\ tbf_init(Initial) \/ UNCHANGED vars
    /\ prog' = "loop" /\ index' = First

\* One round of the loop, up to the reply of the kernel; an error ends the
\* program.
Round ==
    /\ prog = "loop" /\ pend = {}
    /\ index' = (index + 1) % nbws
    /\ \/ /\ tbf_change(Plan[index'])
          /\ prog' = IF res' < 0 THEN "exited" ELSE "loop"
       \/ /\ state = "none"
          /\ prog' = "exited"
          /\ UNCHANGED vars

\* The program is stopped and started again; a request it sent goes on.
Restart ==
    /\ prog # "setup"
    /\ prog' = "setup"
    /\ UNCHANGED <<vars, index>>

Program == tc_qdisc_del \/ tc_qdisc_add \/ Round \/ Restart

Device ==
    /\ PacketPath \/ tbf_change_locked \/ tbf_dump
    /\ UNCHANGED control

NextLinkKept == Program \/ Device

NextShaper == NextLinkKept \/ (Link /\ UNCHANGED control)

SpecShaper == InitShaper /\ [][NextShaper]_shaper

\* The link stays up; the packet path and the clock keep running.
FairShaper ==
    /\ InitShaper /\ [][NextLinkKept]_shaper
    /\ WF_shaper(Tick /\ UNCHANGED control)
    /\ WF_shaper(qdisc_watchdog /\ UNCHANGED control)
    /\ WF_shaper(tbf_dequeue /\ UNCHANGED control)
    /\ WF_shaper(tbf_change_locked /\ UNCHANGED control)
-----------------------------------------------------------------------------
\* Every packet in the queue, admitted under whichever request, can still be
\* paid for by the bucket of the request in force: the order in which a program
\* sends its bursts never strands a packet that tbf_enqueue let in.
HeadFits ==
    state # "none" => \A i \in DOMAIN queue : Payable(queue[i])
=============================================================================
