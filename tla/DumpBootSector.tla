--------------------------- MODULE DumpBootSector ---------------------------
(***************************************************************************)
(* scripts/dump_boot_sector.py: main refuses a file shorter than 512      *)
(* bytes, then parse_fat32_boot_sector reads every field at the FAT32     *)
(* offsets (whatever the layout) and its Validation section decides       *)
(* 'Boot sector appears valid'.  The hex dumps and the printing are left  *)
(* out.  Used by the model-checking runs only (it needs Bitwise).         *)
(***************************************************************************)
EXTENDS BootSector, Bitwise

\* main: f.read(512), then exit(1) when fewer than 512 bytes came back.
DumpReadable(d) == Len(d) >= 512

\* The power-of-two test of the Validation section.
DumpClusterOK(n) == ~(n = 0 \/ (n & (n - 1)) # 0)

\* Mutant: the root cluster check with the bound off by one.
DumpRootClusterOffByOne(rc) == rc > 2

\* root_cluster < 2 is an error.
DumpRootClusterOK(rc) == rc >= 2

\* The verdict of the Validation section: each failing check clears
\* 'valid'; an fs_type with 'FAT' but not 'FAT32' is only a warning.
DumpValid(d) ==
  /\ U16(d, 11) \in SectorSizes
  /\ DumpClusterOK(d[14])
  /\ DumpRootClusterOK(U32(d, 44))
  /\ U16(d, 510) = BootSignature
  /\ Contains(Text(d, 82, 90), FATText)
=============================================================================
