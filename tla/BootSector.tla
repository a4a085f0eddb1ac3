----------------------------- MODULE BootSector -----------------------------
(***************************************************************************)
(* The boot sector reader and validator of scripts/test_disk_images.py:    *)
(* FAT32BootSector.is_valid_fat32 / is_valid_fat12,                        *)
(* DiskImageTester.read_boot_sector and the signature test of              *)
(* DiskImageTester.test_signature.                                          *)
(*                                                                         *)
(* A sector is the byte string the code reads from the image, as a TLA+    *)
(* sequence of numbers in 0..255; Python offset i is position i+1.  A      *)
(* file shorter than 512 bytes gives a shorter sequence: f.read(512)       *)
(* returns what there is.  Decoded text is a sequence of code points.      *)
(* The module has no variables: it is the pure part of the tester, used    *)
(* by the runner model DiskImageTester and checked by MCBootSector.        *)
(***************************************************************************)
EXTENDS Integers, Sequences, FiniteSetsExt

Byte == 0..255

\* data[a:b] in Python: the bytes from offset a up to offset b - 1, cut
\* short at the end of the data.
Slice(d, a, b) == SubSeq(d, a + 1, Min({b, Len(d)}))

\* struct.unpack('<H', data[o:o+2])[0] and struct.unpack('<I', ...)[0]:
\* little-endian, and an error (struct.error) when the slice is short.
U16Readable(d, o) == Len(d) >= o + 2
U32Readable(d, o) == Len(d) >= o + 4
U16(d, o) == d[o + 1] + 256 * d[o + 2]
\* Mutant: a 32-bit field read as its low 16 bits.
U32Low16(d, o) == U16(d, o)
U32(d, o) == U16(d, o) + 65536 * U16(d, o + 2)

\* bytes.decode('ascii', errors='ignore'): bytes above 127 are dropped.
AsciiIgnore(s) == SelectSeq(s, LAMBDA c : c < 128)

\* str.strip(): the code points Python counts as ASCII whitespace.
Whitespace == (9..13) \cup (28..32)

\* str.strip(): drop the leading and trailing whitespace.
Strip(s) ==
  LET Kept == {i \in 1..Len(s) : s[i] \notin Whitespace}
  IN  IF Kept = {} THEN << >> ELSE SubSeq(s, Min(Kept), Max(Kept))

\* data[a:b].decode('ascii', errors='ignore').strip()
Text(d, a, b) == Strip(AsciiIgnore(Slice(d, a, b)))

\* The string literals the validator compares with.
FAT32Text == <<70, 65, 84, 51, 50>>    \* 'FAT32'
FAT12Text == <<70, 65, 84, 49, 50>>    \* 'FAT12'
FATText   == <<70, 65, 84>>            \* 'FAT'

\* Python's  t in s  for strings.
Contains(s, t) == \E i \in 0..(Len(s) - Len(t)) : SubSeq(s, i + 1, i + Len(t)) = t

(***************************************************************************)
(* read_boot_sector.  The common BPB is read first (data[13] and data[16]  *)
(* raise IndexError, a short unpack raises struct.error); the layout is    *)
(* chosen by sectors_per_fat_16 = 0.  Text slices never raise.  Any        *)
(* exception makes the method log a FAIL and return None.                  *)
(***************************************************************************)
IsFat32Layout(d) == U16(d, 22) = 0

ReadOK(d) ==
  /\ Len(d) >= 24
  /\ IsFat32Layout(d) => /\ U32Readable(d, 36) /\ U32Readable(d, 44)
                         /\ U16Readable(d, 48) /\ U16Readable(d, 50)

BootSectorOf(d) ==
  LET fat32 == IsFat32Layout(d) IN
  [bytes_per_sector    |-> U16(d, 11),
   sectors_per_cluster |-> d[14],
   reserved_sectors    |-> U16(d, 14),
   num_fats            |-> d[17],
   root_entries        |-> U16(d, 17),
   total_sectors_16    |-> U16(d, 19),
   media_descriptor    |-> d[22],
   sectors_per_fat_16  |-> U16(d, 22),
   sectors_per_fat_32  |-> IF fat32 THEN U32(d, 36) ELSE 0,
   root_cluster        |-> IF fat32 THEN U32(d, 44) ELSE 0,
   fs_info_sector      |-> IF fat32 THEN U16(d, 48) ELSE 0,
   backup_boot_sector  |-> IF fat32 THEN U16(d, 50) ELSE 0,
   volume_label        |-> IF fat32 THEN Text(d, 71, 82) ELSE Text(d, 43, 54),
   fs_type             |-> IF fat32 THEN Text(d, 82, 90) ELSE Text(d, 54, 62)]

\* The lists the validator tests membership in.
SectorSizes   == {512, 1024, 2048, 4096}
\* Mutant: a power-of-two test without the n > 0 guard admits 0.
ClusterSizesWithZero == {0, 1, 2, 4, 8, 16, 32, 64, 128}
ClusterSizes  == {1, 2, 4, 8, 16, 32, 64, 128}
FatCounts     == {1, 2}

\* FAT32BootSector.is_valid_fat32.  fs_type is already stripped, so of
\* the two listed spellings only 'FAT32' can match.
IsValidFat32(bs) ==
  /\ bs.bytes_per_sector \in SectorSizes
  /\ bs.sectors_per_cluster \in ClusterSizes
  /\ bs.num_fats \in FatCounts
  /\ bs.root_entries = 0
  /\ bs.total_sectors_16 = 0
  /\ bs.sectors_per_fat_16 = 0
  /\ bs.root_cluster >= 2
  /\ Strip(bs.fs_type) \in {FAT32Text, <<70, 65, 84, 51, 50, 32, 32, 32>>}

\* FAT32BootSector.is_valid_fat12, with Python's precedence: 'and' binds
\* tighter than 'or', so the last 'or' is an alternative to everything
\* before it.
IsValidFat12(bs) ==
  \/ /\ bs.bytes_per_sector \in SectorSizes
     /\ bs.sectors_per_cluster \in ClusterSizes
     /\ bs.num_fats \in FatCounts
     /\ bs.root_entries > 0
     /\ Contains(Strip(bs.fs_type), FAT12Text)
  \/ Contains(Strip(bs.fs_type), FATText)

\* test_signature: seek(510), read(2), unpack '<H'; a short read raises.
SignatureReadable(d) == Len(d) >= 512
\* Mutant: the marker compared in the byte order it is written (0x55AA).
BootSignatureSwapped == 21930
BootSignature == 43605                  \* 0xAA55
SignatureOK(d) == SignatureReadable(d) /\ U16(d, 510) = BootSignature

\* test_boot_sector's verdict (PASS) for an expected kind: the sector
\* reads and the kind's predicate holds; any other expected kind passes
\* without a predicate.
BootSectorPasses(d, kind) ==
  /\ ReadOK(d)
  /\ kind = "FAT32" => IsValidFat32(BootSectorOf(d))
  /\ kind = "FAT12" => IsValidFat12(BootSectorOf(d))
=============================================================================
