---------------------------- MODULE MCLegacyChain ----------------------------
(***************************************************************************)
(* LegacyChain on a small instance: armors of one class at three places in *)
(* a row and one of another class, and five launches: the offline backend, *)
(* the mock backend alone and beside another publisher, and each of the    *)
(* two nodes without a vehicle profile.                                    *)
(***************************************************************************)
EXTENDS LegacyChain

MCObservations ==
  [class : {1}, pos : 0 .. 2, conf : {1, 2}] \cup [class : {2}, pos : {1}, conf : {2}]

Offline ==
  [offline |-> TRUE, absolute |-> TRUE, profile |-> TRUE, subProfile |-> TRUE,
   mock |-> 3, bypass |-> FALSE]

Mock == [Offline EXCEPT !.offline = FALSE, !.absolute = FALSE, !.mock = 5]

MCConfigs ==
  { Offline, Mock, [Mock EXCEPT !.bypass = TRUE],
    [Mock EXCEPT !.profile = FALSE], [Mock EXCEPT !.subProfile = FALSE] }

MCPoses == {0, 3, 5}
MCLow == -1
=============================================================================
