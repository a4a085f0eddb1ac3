----------------------- MODULE BootSectorHarnessProofs -----------------------
(***************************************************************************)
(* Proofs about the boot sector harness: every sector it writes, for every *)
(* sequence of field rewrites, is checked by test_signature as the         *)
(* specification says.                                                     *)
(***************************************************************************)
EXTENDS BootSectorHarness, BootSectorProofs

\* A sequence cut at its own length is the sequence.
LEMMA SubSeqWhole ==
  ASSUME NEW S, NEW s \in Seq(S)
  PROVE  SubSeq(s, 1, Len(s)) = s
<1>1. \A i \in 1..Len(s) : s[i] \in S
  OBVIOUS
<1>2. /\ SubSeq(s, 1, Len(s)) \in Seq(S)
      /\ Len(SubSeq(s, 1, Len(s))) = Len(s)
      /\ \A i \in 1..Len(s) : SubSeq(s, 1, Len(s))[i] = s[1 + i - 1]
  BY <1>1, SubSeqProperties
<1>3. QED
  BY <1>2, SeqEqual

\* The harness only writes field values of FieldValues.
LEMMA TypeInit == Init => TypeOK
  BY DEF Init, TypeOK, FieldValues, ScenarioA, FsChoices, FatSize32

\* Rewriting one field keeps every field in its set of values.
LEMMA TypeStep == TypeOK /\ [Next]_vars => TypeOK'
<1> SUFFICES ASSUME TypeOK, [Next]_vars PROVE TypeOK'
  OBVIOUS
<1>1. CASE Next
  <2>1. PICK k \in DOMAIN FieldValues : \E v \in FieldValues[k] :
               v # f[k] /\ f' = [f EXCEPT ![k] = v]
    BY <1>1 DEF Next, SetField
  <2>2. PICK v \in FieldValues[k] : f' = [f EXCEPT ![k] = v]
    BY <2>1
  <2>3. QED
    BY <2>2 DEF TypeOK
<1>2. CASE UNCHANGED vars
  BY <1>2 DEF TypeOK, vars
<1>3. QED
  BY <1>1, <1>2

\* The fields of every reachable sector lie in FieldValues.
THEOREM HarnessTypeCorrect == Spec => []TypeOK
  BY TypeInit, TypeStep, PTL DEF Spec

\* test_signature (seek 510, read 2, unpack '<H', compare with 0xAA55)
\* passes on the first f.length bytes of a written sector exactly when the
\* file is a whole sector and its signature field is 55 AA, whatever the
\* BPB and the text fields hold.
LEMMA SignatureIffMarkerInv == TypeOK => SignatureIffMarker
<1> SUFFICES ASSUME TypeOK PROVE SignatureIffMarker
  OBVIOUS
<1>1. f.signature \in {43605, 21930} /\ f.length \in {512, 60, 30, 10}
  BY DEF TypeOK, FieldValues
<1>2. f.signature \in Nat /\ f.signature < 65536
  BY <1>1
<1> DEFINE S == {Encode(f)[i] : i \in DOMAIN Encode(f)}
<1>3. Encode(f) \in Seq(S) /\ Len(Encode(f)) = 512
  BY EncodeLength, EncodeIsSeq
<1>4. SignatureOK(Encode(f)) <=> f.signature = BootSignature
  BY <1>2, EncodeSignatureOK
<1>5. CASE f.length = 512
  <2>1. Sector = Encode(f)
    BY <1>3, <1>5, SubSeqWhole DEF Sector, Full
  <2>2. QED
    BY <1>4, <1>5, <2>1 DEF SignatureIffMarker, BootSignature
<1>6. CASE f.length # 512
  <2>1. f.length \in Nat /\ f.length < 512
    BY <1>1, <1>6
  <2>2. \A i \in 1..f.length : Encode(f)[i] \in S
    <3> SUFFICES ASSUME NEW i \in 1..f.length PROVE Encode(f)[i] \in S
      OBVIOUS
    <3>1. i \in DOMAIN Encode(f)
      BY <2>1 DEF Encode
    <3>2. QED
      BY <3>1, Zenon
  <2>3. Len(Sector) = f.length
    BY <2>1, <2>2, SubSeqProperties DEF Sector, Full
  <2>4. QED
    BY <1>6, <2>1, <2>3 DEF SignatureIffMarker, SignatureOK, SignatureReadable
<1>7. QED
  BY <1>5, <1>6

\* The check of the bootsector_decode run, for every sequence of rewrites.
THEOREM SignatureIffMarkerHolds == Spec => []SignatureIffMarker
  BY HarnessTypeCorrect, SignatureIffMarkerInv, PTL

\* The numeric half of DecodeMatchesLayout: read_boot_sector returns, for a
\* whole written sector, every integer field at the offset of the layout
\* table, and picks the FAT32 layout exactly when sectors_per_fat_16 is 0.
\* The two text fields (volume_label, fs_type) go through AsciiIgnore and
\* Strip, whose values for every input need induction over the bytes; they
\* stay with the bootsector_decode run.
DecodeNumericFields ==
  f.length = 512 =>
    LET bs == BootSectorOf(Sector) IN
    /\ ReadOK(Sector)
    /\ IsFat32Layout(Sector) <=> Fat32Layout
    /\ \A k \in {"bytes_per_sector", "sectors_per_cluster", "reserved_sectors",
                 "num_fats", "root_entries", "total_sectors_16",
                 "media_descriptor", "sectors_per_fat_16", "sectors_per_fat_32",
                 "root_cluster", "fs_info_sector", "backup_boot_sector"} :
         bs[k] = Expected[k]

\* Every field value of FieldValues is decoded back from the sector.
LEMMA DecodeNumericFieldsInv == TypeOK => DecodeNumericFields
<1> SUFFICES ASSUME TypeOK, f.length = 512 PROVE DecodeNumericFields
  BY DEF DecodeNumericFields
<1>1. /\ f.bytes_per_sector \in Nat /\ f.bytes_per_sector < 65536
      /\ f.root_entries \in Nat /\ f.root_entries < 65536
      /\ f.total_sectors_16 \in Nat /\ f.total_sectors_16 < 65536
      /\ f.sectors_per_fat_16 \in Nat /\ f.sectors_per_fat_16 < 65536
      /\ f.sectors_per_fat_32 \in Nat /\ f.sectors_per_fat_32 < U32Bound
      /\ f.root_cluster \in Nat /\ f.root_cluster < U32Bound
  <2>1. /\ f.bytes_per_sector \in {512, 511, 0}
        /\ f.root_entries \in {0, 224}
        /\ f.total_sectors_16 \in {0, 2880}
        /\ f.sectors_per_fat_16 \in {0, 9}
        /\ f.sectors_per_fat_32 \in {1000, 65536}
        /\ f.root_cluster \in {2, 1, 65536}
    BY DEF TypeOK, FieldValues
  <2>2. QED
    BY <2>1 DEF U32Bound
<1> DEFINE S == {Encode(f)[i] : i \in DOMAIN Encode(f)}
<1>2. Sector = Encode(f)
  <2>1. Encode(f) \in Seq(S) /\ Len(Encode(f)) = 512
    BY EncodeLength, EncodeIsSeq
  <2>2. QED
    BY <2>1, SubSeqWhole DEF Sector, Full
<1>3. LET bs == BootSectorOf(Encode(f))
          fat32 == f.sectors_per_fat_16 = 0
      IN  /\ ReadOK(Encode(f))
          /\ IsFat32Layout(Encode(f)) <=> fat32
          /\ bs.bytes_per_sector = f.bytes_per_sector
          /\ bs.sectors_per_cluster = f.sectors_per_cluster
          /\ bs.reserved_sectors = Reserved
          /\ bs.num_fats = f.num_fats
          /\ bs.root_entries = f.root_entries
          /\ bs.total_sectors_16 = f.total_sectors_16
          /\ bs.media_descriptor = Media
          /\ bs.sectors_per_fat_16 = f.sectors_per_fat_16
          /\ bs.sectors_per_fat_32 = IF fat32 THEN f.sectors_per_fat_32 ELSE 0
          /\ bs.root_cluster = IF fat32 THEN f.root_cluster ELSE 0
          /\ bs.fs_info_sector = IF fat32 THEN FsInfo ELSE 0
          /\ bs.backup_boot_sector = IF fat32 THEN Backup ELSE 0
  BY <1>1, DecodeEncodedFields
<1>4. QED
  BY <1>2, <1>3 DEF DecodeNumericFields, Expected, Fat32Layout

\* The numeric fields are decoded as written for every sequence of rewrites.
THEOREM DecodeNumericFieldsHold == Spec => []DecodeNumericFields
  BY HarnessTypeCorrect, DecodeNumericFieldsInv, PTL
====
