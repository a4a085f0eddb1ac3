---------------------------- MODULE SectorImages ----------------------------
(***************************************************************************)
(* Reference encoder for the model-checking harnesses: the bytes of a     *)
(* boot sector written from its field values at the offsets of the FAT    *)
(* layout table (the specification, section 4.1), little-endian.  It is   *)
(* the independent side the reader of BootSector is compared with.        *)
(***************************************************************************)
EXTENDS BootSector

\* n as w little-endian bytes.
LE(n, w) == [k \in 1..w |-> (n \div (256 ^ (k - 1))) % 256]

Label == <<68, 73, 83, 75, 32, 32, 32, 32, 32, 32, 32>>     \* 'DISK       '
LabelText == <<68, 73, 83, 75>>                              \* 'DISK'

\* The fixed fields the checks do not vary.
Reserved == 32
Media == 248
FatSize32 == 1000
FsInfo == 1
Backup == 6

\* The byte at position i (offset i - 1) of a sector holding the fields
\* of record r, row by row of the layout table: the field at offset off of
\* width w holds positions off + 1 .. off + w.  The extended FAT32 block
\* is written when sectors_per_fat_16 is 0, the FAT12/16 one otherwise;
\* fs_type is the 8-byte field and every other position is 0.
SectorByte(r, i) ==
  LET In(off, w) == off < i /\ i <= off + w
      fat32      == r.sectors_per_fat_16 = 0
  IN  CASE In(11, 2)            -> LE(r.bytes_per_sector, 2)[i - 11]
        [] In(13, 1)            -> r.sectors_per_cluster
        [] In(14, 2)            -> LE(Reserved, 2)[i - 14]
        [] In(16, 1)            -> r.num_fats
        [] In(17, 2)            -> LE(r.root_entries, 2)[i - 17]
        [] In(19, 2)            -> LE(r.total_sectors_16, 2)[i - 19]
        [] In(21, 1)            -> Media
        [] In(22, 2)            -> LE(r.sectors_per_fat_16, 2)[i - 22]
        [] fat32 /\ In(36, 4)   -> LE(r.sectors_per_fat_32, 4)[i - 36]
        [] fat32 /\ In(44, 4)   -> LE(r.root_cluster, 4)[i - 44]
        [] fat32 /\ In(48, 2)   -> LE(FsInfo, 2)[i - 48]
        [] fat32 /\ In(50, 2)   -> LE(Backup, 2)[i - 50]
        [] fat32 /\ In(71, 11)  -> Label[i - 71]
        [] fat32 /\ In(82, 8)   -> r.fs_type[i - 82]
        [] ~fat32 /\ In(43, 11) -> Label[i - 43]
        [] ~fat32 /\ In(54, 8)  -> r.fs_type[i - 54]
        [] In(510, 2)           -> LE(r.signature, 2)[i - 510]
        [] OTHER                -> 0

\* The 512 bytes of a sector with the fields of record r.
Encode(r) == [i \in 1..512 |-> SectorByte(r, i)]

\* The sector of scenario A of the specification: a valid FAT32 volume.
ScenarioA ==
  [bytes_per_sector |-> 512, sectors_per_cluster |-> 4, num_fats |-> 2,
   root_entries |-> 0, total_sectors_16 |-> 0, sectors_per_fat_16 |-> 0,
   sectors_per_fat_32 |-> FatSize32,
   root_cluster |-> 2, fs_type |-> <<70, 65, 84, 51, 50, 32, 32, 32>>,
   signature |-> 43605, length |-> 512]
=============================================================================
