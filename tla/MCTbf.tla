------------------------------- MODULE MCTbf -------------------------------
(***************************************************************************)
(* Small instances of Tbf.  With NSEC_PER_SEC = 2 a byte costs 2 units at  *)
(* rate 1, 1 unit at rates 2 and 0, half a unit at rate 4.                 *)
(***************************************************************************)
EXTENDS Tbf

Packet(len) == [len |-> len, gso |-> FALSE, seg |-> len, full |-> 0, tail |-> len]

\* Two full segments and a shorter one, each with its own header.
Gso(len, seg, tail) == [len |-> len, gso |-> TRUE, seg |-> seg, full |-> 2, tail |-> tail]

\* As the programs under src/tbf send it: TCA_TBF_BURST and no peak rate.
Opt(rate, burst, limit) ==
    [parms |-> TRUE, rate |-> rate, peakrate |-> 0, limit |-> limit,
     buffer |-> 0, mtu |-> 0, burst |-> burst, pburst |-> Absent]

PeakOpt(rate, peak, burst, pburst, limit) ==
    [Opt(rate, burst, limit) EXCEPT !.peakrate = peak, !.pburst = pburst]

\* Times in ticks instead of TCA_TBF_BURST and TCA_TBF_PBURST.
TickOpt(rate, peak, buffer, mtu, limit) ==
    [Opt(rate, Absent, limit) EXCEPT
        !.peakrate = peak, !.buffer = buffer, !.mtu = mtu]

PlainPackets == {Packet(1), Packet(2)}
UpToThree == PlainPackets \cup {Packet(3)}
AllPackets == PlainPackets \cup {Packet(4), Gso(4, 2, 1)}
GsoPackets == {Packet(2), Gso(4, 2, 1)}

RateOpts == {Opt(1, 2, 3), Opt(2, 2, 3)}
AllOpts ==
    {Opt(1, 2, 3), PeakOpt(2, 4, 2, 1, 3), PeakOpt(2, 2, 2, 2, 3),
     TickOpt(1, 2, 3, 2, 0), [Opt(1, 2, 3) EXCEPT !.parms = FALSE], Opt(1, 0, 3)}

NoopOnly == {noop_qdisc}
PfifoOnly == {[kind |-> "pfifo", limit |-> 2]}
=============================================================================
