------------------------- MODULE MCDiskImageTester -------------------------
(***************************************************************************)
(* DiskImageTester on the three test cases of run_all_tests (disk.img and *)
(* disk1.img expecting FAT32, floppy.img expecting FAT12), with the lists *)
(* of expected files cut to 2, 1 and 1 names: two names already give a    *)
(* case with one file found and one missing, and the names themselves    *)
(* play no part.  An existing image starts with one of three sectors: a  *)
(* valid FAT32 one, a valid FAT12 one, and the FAT32 one without the     *)
(* boot signature.                                                        *)
(***************************************************************************)
EXTENDS DiskImageTester, SectorImages

MCCases ==
  << [fs_type |-> "FAT32", files |-> 2],
     [fs_type |-> "FAT32", files |-> 1],
     [fs_type |-> "FAT12", files |-> 1] >>

Fat12Sector ==
  [ScenarioA EXCEPT !.root_entries = 224, !.total_sectors_16 = 2880,
                    !.sectors_per_fat_16 = 9, !.sectors_per_cluster = 1,
                    !.fs_type = <<70, 65, 84, 49, 50, 32, 32, 32>>]

MCContents ==
  { Encode(ScenarioA),
    Encode(Fat12Sector),
    Encode([ScenarioA EXCEPT !.signature = 0]) }

\* For the liveness run: what an image holds plays no part in whether the
\* run ends, so one content is enough.
MCOneContent == { Encode(ScenarioA) }
=============================================================================
