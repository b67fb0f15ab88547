-------------------------- MODULE MCStreamRegistry --------------------------
(* StreamRegistry with one dropped channel for all subscribers, as in the     *)
(* tests, or a nil one for one of them.                                    *)
EXTENDS StreamRegistry, TLC

CONSTANTS s1, s2, d1

MCShared(users) == [s \in users |-> d1]
MCSetup(drop, leavers, messages) ==
    [dropped |-> drop, leavers |-> leavers, messages |-> messages]

(* Two subscribers who may leave.                                           *)
MCLeaving == {MCSetup(MCShared({s1, s2}), {s1, s2}, 2)}

(* Four who stay: the last one is appended in place.                        *)
MCGrowing == {MCSetup(MCShared(Subs), {}, 1)}

(* One passes a nil dropped channel.                                        *)
MCOneNil == {MCSetup((s1 :> NoChannel) @@ MCShared({s1, s2}), {s2}, 1)}

MCSetups == MCLeaving \cup MCGrowing \cup MCOneNil
=============================================================================
