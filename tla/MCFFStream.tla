---------------------------- MODULE MCFFStream ----------------------------
(* Instances of FFStream for TLC. *)
EXTENDS FFStream, TLC

Res(w, h) == [f \in Fields |-> IF f = "width" THEN w ELSE h]
Low == Res(1, 1)
High == Res(2, 2)

\* Ladders of two rungs and of one, so that a client can swap one for the other.
TwoRungs == [ladder |-> <<Low, High>>, autoByPass |-> TRUE]
OneRung == [ladder |-> <<Low>>, autoByPass |-> FALSE]
MCAbrCfgs == {TwoRungs, OneRung}

GoodProps == [videoCopy |-> FALSE, resolution |-> High,
              audioCopy |-> FALSE, sampleRate |-> 1]
CopyProps == [videoCopy |-> TRUE, resolution |-> ZeroRes,
              audioCopy |-> TRUE, sampleRate |-> 0]
NoRate == [GoodProps EXCEPT !.sampleRate = 0]
NoSize == [GoodProps EXCEPT !.resolution = ZeroRes]

Cfg(in, out, p, m, a) ==
    [listen |-> TRUE, inputs |-> in, outputs |-> out, props |-> p,
     muxMode |-> m, abr |-> a]

\* Command lines for the races: a ladder in a mode that uses it, no ladder, and
\* what Start refuses early and late.
RaceConfigs ==
    {Cfg(1, 1, GoodProps, "DifferentOutputsSameTracks", TwoRungs),
     Cfg(1, 1, CopyProps, "Forbid", NoABR),
     Cfg(0, 1, GoodProps, "Forbid", NoABR),
     Cfg(1, 1, NoSize, "Forbid", OneRung)}
LadderConfigs ==
    {Cfg(1, 1, GoodProps, "DifferentOutputsSameTracks", TwoRungs)}

\* Command lines for the life cycle: a ladder in the modes that use it and in
\* one that does not, no ladder, and every way to make Start refuse.
LifeConfigs ==
    {Cfg(1, 1, GoodProps, "DifferentOutputsSameTracksSplitAV", OneRung),
     Cfg(1, 1, GoodProps, "Forbid", OneRung),
     Cfg(2, 1, CopyProps, "Forbid", NoABR),
     Cfg(1, 1, NoRate, "Forbid", NoABR),
     Cfg(0, 1, GoodProps, "Forbid", NoABR),
     Cfg(1, 2, GoodProps, "Forbid", NoABR)}

\* Operations racing over the auto-bit-rate handler, and all the others.
AbrOps == {"SetVideoAutoBitRateConfig", "SetVideoAutoBitRateCalculator"}
LifeOps == {r.op : r \in AllRequests} \ (AbrOps \cup (ReadOps \ {"GetBitRates"}))
EndOps == {"End"}
NoOps == {}
ClientSymmetry == Permutations(Clients)

MCReqProps == {CopyProps, NoSize}
MCFractions == {<<2, 1>>, <<3, 2>>, <<1, 0>>}
===========================================================================
