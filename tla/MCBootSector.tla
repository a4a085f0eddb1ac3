---------------------------- MODULE MCBootSector ----------------------------
(***************************************************************************)
(* Model-checking harness for BootSector: the state and the steps of      *)
(* BootSectorHarness, and the checks that need the power-of-two bit test   *)
(* of the specification or the dump tool: the FAT32 predicate against its  *)
(* reference definition, and the agreement of the two scripts.             *)
(***************************************************************************)
EXTENDS BootSectorHarness, DumpBootSector

---------------------------------------------------------------------------
\* The specification's power-of-two test: n > 0 and n & (n - 1) == 0.
PowerOfTwoTest(n) == n > 0 /\ (n & (n - 1)) = 0

\* The eight FAT32 conditions of the specification, on the written fields.
SpecFat32(r) ==
  /\ r.bytes_per_sector \in {512, 1024, 2048, 4096}
  /\ PowerOfTwoTest(r.sectors_per_cluster) /\ r.sectors_per_cluster <= 128
  /\ r.num_fats \in {1, 2}
  /\ r.root_entries = 0
  /\ r.total_sectors_16 = 0
  /\ r.sectors_per_fat_16 = 0
  /\ r.root_cluster >= 2
  /\ FsTrimmed = FAT32Text

\* is_valid_fat32 on the decoded sector holds exactly when the eight
\* conditions of the specification hold for the written fields.
Fat32ValidIffSpec ==
  f.length = 512 => (IsValidFat32(BootSectorOf(Sector)) <=> SpecFat32(f))

\* The two tools agree: a whole sector that test_disk_images.py accepts as
\* FAT32 with a boot signature is one dump_boot_sector.py calls valid
\* (the dump tool reads the FAT32 offsets without looking at the layout).
DumpAcceptsTesterFat32 ==
  (SignatureOK(Sector) /\ IsValidFat32(BootSectorOf(Sector)))
     => (DumpReadable(Sector) /\ DumpValid(Sector))
=============================================================================
