---------------------------- MODULE MCTwoTesters ----------------------------
(***************************************************************************)
(* Two concurrent runs on two test cases (one FAT32, one FAT12) with one  *)
(* expected file each and one image content: enough for one run to mount *)
(* a different image than the other while the other checks its files.    *)
(***************************************************************************)
EXTENDS TwoTesters, SectorImages

MCTwoCases ==
  << [fs_type |-> "FAT32", files |-> 1],
     [fs_type |-> "FAT12", files |-> 1] >>

MCTwoContents == { Encode(ScenarioA) }
=============================================================================
