---------------------------- MODULE MCDdlCollect ----------------------------
(***************************************************************************)
(* Instances of DdlCollect for TLC.                                        *)
(***************************************************************************)
EXTENDS DdlCollect

CONSTANTS c1, c2, u1, u2, h1

MCOneUnit == {u1}
MCTwoUnits == {u1, u2}
MCHosts == {h1}
MCSvrIp == [u \in Units |-> h1]
MCIds2 == 1..2
MCIds3 == 1..3
=============================================================================
