--------------------------- MODULE BootSectorProofs ---------------------------
(***************************************************************************)
(* Proofs about the boot sector operators of BootSector, for every byte   *)
(* string and every record, and about the little-endian encoder of        *)
(* SectorImages that the decoding checks compare with.                    *)
(***************************************************************************)
EXTENDS SectorImages, SequenceTheorems, TLAPS

\* A byte of a sector is a natural number below 256.
LEMMA ByteBounds ==
  ASSUME NEW x \in Byte
  PROVE  x \in Nat /\ x <= 255
  BY DEF Byte

\* A sequence of naturals that reads 70, 65, 84 is the text 'FAT'.
LEMMA IsFATText ==
  ASSUME NEW s \in Seq(Nat), Len(s) = 3, s[1] = 70, s[2] = 65, s[3] = 84
  PROVE  s = FATText
<1>1. FATText \in Seq(Nat) /\ Len(FATText) = 3
  BY DEF FATText
<1>2. \A k \in 1..Len(s) : s[k] = FATText[k]
  BY DEF FATText
<1>3. QED
  BY <1>1, <1>2, SeqEqual, SMTT(60)

\* struct.unpack('<H') of the two bytes n % 256, n // 256 gives back n.
LEMMA U16LittleEndian ==
  ASSUME NEW d, NEW o \in Nat, NEW n \in Nat, n < 65536,
         d[o + 1] = n % 256, d[o + 2] = (n \div 256) % 256
  PROVE  U16(d, o) = n
  BY SMT DEF U16

\* struct.unpack('<I') of the four little-endian bytes of n gives back n:
\* a 32-bit field is read whole, not as its low 16 bits.
LEMMA U32LittleEndian ==
  ASSUME NEW d, NEW o \in Nat, NEW n \in Nat, n < 65536 * 65536,
         d[o + 1] = n % 256, d[o + 2] = (n \div 256) % 256,
         d[o + 3] = (n \div 65536) % 256, d[o + 4] = (n \div 16777216) % 256
  PROVE  U32(d, o) = n
<1>1. U16(d, o) = n % 65536
  BY SMT DEF U16
<1>2. n \div 16777216 = (n \div 65536) \div 256 /\ n \div 65536 < 65536
  BY SMT
<1>3. U16(d, o + 2) = n \div 65536
  BY <1>2, SMT DEF U16
<1>4. n = (n % 65536) + 65536 * (n \div 65536)
  BY SMT
<1>5. QED
  BY <1>1, <1>3, <1>4, SMT DEF U32

\* test_signature passes on a byte string exactly when it has at least
\* 512 bytes and the bytes at offsets 510 and 511 are 0x55 and 0xAA: the
\* comparison with 0xAA55 of a little-endian read is the marker 55 AA and
\* nothing else.
THEOREM SignatureBytes ==
  ASSUME NEW d \in Seq(Byte)
  PROVE  SignatureOK(d) <=> (Len(d) >= 512 /\ d[511] = 85 /\ d[512] = 170)
<1>1. CASE Len(d) >= 512
  <2>0. d[511] \in Byte /\ d[512] \in Byte
    BY <1>1, ElementOfSeq
  <2>1. d[511] \in Nat /\ d[511] <= 255 /\ d[512] \in Nat /\ d[512] <= 255
    BY <2>0, ByteBounds
  <2>2. (d[511] + 256 * d[512] = 43605) <=> (d[511] = 85 /\ d[512] = 170)
    BY <2>1, SMT
  <2>3. QED
    BY <1>1, <2>2 DEF SignatureOK, SignatureReadable, U16, BootSignature
<1>2. CASE ~(Len(d) >= 512)
  BY <1>2 DEF SignatureOK, SignatureReadable
<1>3. QED
  BY <1>1, <1>2

\* Python's 'FAT12' in s implies 'FAT' in s.
LEMMA ContainsFAT12 ==
  ASSUME NEW t \in Seq(Nat), Contains(t, FAT12Text)
  PROVE  Contains(t, FATText)
<1>1. PICK i \in 0..(Len(t) - 5) : SubSeq(t, i + 1, i + 5) = FAT12Text
  BY DEF Contains, FAT12Text
<1>2. i \in Nat /\ i + 5 <= Len(t)
  OBVIOUS
<1>3. \A k \in (i + 1)..(i + 5) : t[k] \in Nat
  BY <1>2
<1>4. \A k \in 1..5 : SubSeq(t, i + 1, i + 5)[k] = t[i + k]
  BY <1>2, <1>3, SubSeqProperties
<1>5. FAT12Text[1] = 70 /\ FAT12Text[2] = 65 /\ FAT12Text[3] = 84
  BY DEF FAT12Text
<1>6. t[i + 1] = 70 /\ t[i + 2] = 65 /\ t[i + 3] = 84
  <2>1. SubSeq(t, i + 1, i + 5)[1] = t[i + 1] /\ SubSeq(t, i + 1, i + 5)[2] = t[i + 2]
        /\ SubSeq(t, i + 1, i + 5)[3] = t[i + 3]
    <3>1. 1 \in 1..5 /\ 2 \in 1..5 /\ 3 \in 1..5
      OBVIOUS
    <3>2. QED
      BY <1>4, <3>1, Zenon
  <2>2. QED
    BY <1>1, <1>5, <2>1, Zenon
<1>7. \A k \in (i + 1)..(i + 3) : t[k] \in Nat
  BY <1>3, <1>2
<1>8. /\ SubSeq(t, i + 1, i + 3) \in Seq(Nat)
      /\ Len(SubSeq(t, i + 1, i + 3)) = 3
      /\ \A k \in 1..3 : SubSeq(t, i + 1, i + 3)[k] = t[i + k]
  BY <1>2, <1>7, SubSeqProperties
<1>9. SubSeq(t, i + 1, i + 3) = FATText
  <2>1. /\ SubSeq(t, i + 1, i + 3)[1] = 70
        /\ SubSeq(t, i + 1, i + 3)[2] = 65
        /\ SubSeq(t, i + 1, i + 3)[3] = 84
    BY <1>6, <1>8
  <2>2. QED
    BY <1>8, <2>1, IsFATText, Zenon
<1>10. QED
  <2>1. i \in 0..(Len(t) - Len(FATText)) /\ i + Len(FATText) = i + 3
    BY <1>2 DEF FATText
  <2>2. QED
    BY <1>9, <2>1 DEF Contains

\* The precedence of is_valid_fat12 (line 63), for every decoded record:
\* the predicate holds exactly when the stripped fs_type contains 'FAT'.
\* The sector size, cluster size, FAT count and root directory checks
\* before the last 'or' never decide the result.
THEOREM Fat12IgnoresGeometry ==
  ASSUME NEW bs, Strip(bs.fs_type) \in Seq(Nat)
  PROVE  IsValidFat12(bs) <=> Contains(Strip(bs.fs_type), FATText)
  BY ContainsFAT12 DEF IsValidFat12

\* The two little-endian bytes of a 16-bit field.
LEMMA LE2 ==
  ASSUME NEW n \in Nat
  PROVE  /\ Len(LE(n, 2)) = 2
         /\ LE(n, 2)[1] = n % 256
         /\ LE(n, 2)[2] = (n \div 256) % 256
<1>1. 256 ^ 0 = 1 /\ 256 ^ 1 = 256
  BY SMT
<1>2. LE(n, 2) \in Seq(Nat)
  BY DEF LE
<1>3. DOMAIN LE(n, 2) = 1..2
  BY DEF LE
<1>4. QED
  BY <1>1, <1>2, <1>3 DEF LE

\* The four little-endian bytes of a 32-bit field: byte k is the value
\* shifted right by 8 * (k - 1) bits, taken modulo 256.
LEMMA LE4 ==
  ASSUME NEW n \in Nat
  PROVE  /\ LE(n, 4)[1] = n % 256
         /\ LE(n, 4)[2] = (n \div 256) % 256
         /\ LE(n, 4)[3] = ((n \div 256) \div 256) % 256
         /\ LE(n, 4)[4] = (((n \div 256) \div 256) \div 256) % 256
<1>1. 256 ^ 0 = 1 /\ 256 ^ 1 = 256 /\ 256 ^ 2 = 256 * 256 /\ 256 ^ 3 = 256 * 256 * 256
  BY SMT
<1>2. \A k \in Nat : /\ k \div (256 * 256) = (k \div 256) \div 256
                     /\ k \div (256 * 256 * 256) = ((k \div 256) \div 256) \div 256
  BY SMT
<1>3. QED
  BY <1>1, <1>2 DEF LE

\* The two little-endian bytes of a 16-bit value, read as
\* struct.unpack('<H') combines them, give back the value.
LEMMA U16Field ==
  \A n \in Nat : n < 65536 => LE(n, 2)[1] + 256 * LE(n, 2)[2] = n
<1> SUFFICES ASSUME NEW n \in Nat, n < 65536
             PROVE  LE(n, 2)[1] + 256 * LE(n, 2)[2] = n
  OBVIOUS
<1>1. LE(n, 2)[1] = n % 256 /\ LE(n, 2)[2] = (n \div 256) % 256
  BY LE2
<1>2. n = (n % 256) + 256 * (n \div 256) /\ (n \div 256) % 256 = n \div 256
  BY SMT
<1>3. QED
  BY <1>1, <1>2

\* 2^32: the values a 32-bit field holds.  Kept as a name, so that the
\* provers see the bound as a constant outside the proofs that expand it.
U32Bound == 65536 * 65536

\* The integer fields of read_boot_sector's record, one by one.
LEMMA BootSectorFields ==
  ASSUME NEW d
  PROVE  LET bs    == BootSectorOf(d)
             fat32 == IsFat32Layout(d)
         IN  /\ bs.bytes_per_sector = U16(d, 11)
             /\ bs.sectors_per_cluster = d[14]
             /\ bs.reserved_sectors = U16(d, 14)
             /\ bs.num_fats = d[17]
             /\ bs.root_entries = U16(d, 17)
             /\ bs.total_sectors_16 = U16(d, 19)
             /\ bs.media_descriptor = d[22]
             /\ bs.sectors_per_fat_16 = U16(d, 22)
             /\ bs.sectors_per_fat_32 = IF fat32 THEN U32(d, 36) ELSE 0
             /\ bs.root_cluster = IF fat32 THEN U32(d, 44) ELSE 0
             /\ bs.fs_info_sector = IF fat32 THEN U16(d, 48) ELSE 0
             /\ bs.backup_boot_sector = IF fat32 THEN U16(d, 50) ELSE 0
  BY DEF BootSectorOf

\* The four little-endian bytes of a 32-bit value, read as
\* struct.unpack('<I') combines them, give back the value.
LEMMA U32Field ==
  \A n \in Nat : n < U32Bound =>
     (LE(n, 4)[1] + 256 * LE(n, 4)[2]) + 65536 * (LE(n, 4)[3] + 256 * LE(n, 4)[4]) = n
<1>0. \A n \in Nat :
        /\ LE(n, 4)[1] = n % 256
        /\ LE(n, 4)[2] = (n \div 256) % 256
        /\ LE(n, 4)[3] = ((n \div 256) \div 256) % 256
        /\ LE(n, 4)[4] = (((n \div 256) \div 256) \div 256) % 256
  BY LE4
<1>1. \A n \in Nat :
        LET q1 == n \div 256
            q2 == q1 \div 256
            q3 == q2 \div 256
        IN  /\ q1 \in Nat /\ q2 \in Nat /\ q3 \in Nat
            /\ n = (n % 256) + 256 * q1
            /\ q1 = (q1 % 256) + 256 * q2
            /\ q2 = (q2 % 256) + 256 * q3
  BY SMT
<1>2. \A n \in Nat : n < 65536 * 65536 => ((n \div 256) \div 256) \div 256 < 256
  BY SMT
<1>3. \A n \in Nat : n < 65536 * 65536 =>
        (((n \div 256) \div 256) \div 256) % 256 = ((n \div 256) \div 256) \div 256
  BY <1>2, SMT
<1>4. \A n \in Nat : n < 65536 * 65536 =>
        ((n % 256) + 256 * ((n \div 256) % 256))
          + 65536 * ((((n \div 256) \div 256) % 256)
                     + 256 * ((((n \div 256) \div 256) \div 256) % 256)) = n
  BY <1>1, <1>3, SMT
<1>5. SUFFICES ASSUME NEW n \in Nat
               PROVE  n < U32Bound =>
                        (LE(n, 4)[1] + 256 * LE(n, 4)[2])
                          + 65536 * (LE(n, 4)[3] + 256 * LE(n, 4)[4]) = n
  OBVIOUS
<1>6. /\ LE(n, 4)[1] = n % 256
      /\ LE(n, 4)[2] = (n \div 256) % 256
      /\ LE(n, 4)[3] = ((n \div 256) \div 256) % 256
      /\ LE(n, 4)[4] = (((n \div 256) \div 256) \div 256) % 256
  BY <1>0, Zenon
<1>7. QED
  BY <1>4, <1>6 DEF U32Bound

\* The bytes of the common BPB, at the offsets of the layout table, in a
\* sector of either layout.
LEMMA CommonBytes ==
  ASSUME NEW r
  PROVE  /\ Encode(r)[12] = LE(r.bytes_per_sector, 2)[1]
         /\ Encode(r)[13] = LE(r.bytes_per_sector, 2)[2]
         /\ Encode(r)[14] = r.sectors_per_cluster
         /\ Encode(r)[15] = LE(Reserved, 2)[1]
         /\ Encode(r)[16] = LE(Reserved, 2)[2]
         /\ Encode(r)[17] = r.num_fats
         /\ Encode(r)[18] = LE(r.root_entries, 2)[1]
         /\ Encode(r)[19] = LE(r.root_entries, 2)[2]
         /\ Encode(r)[20] = LE(r.total_sectors_16, 2)[1]
         /\ Encode(r)[21] = LE(r.total_sectors_16, 2)[2]
         /\ Encode(r)[22] = Media
         /\ Encode(r)[23] = LE(r.sectors_per_fat_16, 2)[1]
         /\ Encode(r)[24] = LE(r.sectors_per_fat_16, 2)[2]
  BY DEF Encode, SectorByte

\* The bytes of the FAT32 extended block, in a sector of the FAT32 layout.
LEMMA Fat32Bytes ==
  ASSUME NEW r, r.sectors_per_fat_16 = 0
  PROVE  /\ Encode(r)[37] = LE(r.sectors_per_fat_32, 4)[1]
         /\ Encode(r)[38] = LE(r.sectors_per_fat_32, 4)[2]
         /\ Encode(r)[39] = LE(r.sectors_per_fat_32, 4)[3]
         /\ Encode(r)[40] = LE(r.sectors_per_fat_32, 4)[4]
         /\ Encode(r)[45] = LE(r.root_cluster, 4)[1] /\ Encode(r)[46] = LE(r.root_cluster, 4)[2]
         /\ Encode(r)[47] = LE(r.root_cluster, 4)[3] /\ Encode(r)[48] = LE(r.root_cluster, 4)[4]
         /\ Encode(r)[49] = LE(FsInfo, 2)[1] /\ Encode(r)[50] = LE(FsInfo, 2)[2]
         /\ Encode(r)[51] = LE(Backup, 2)[1] /\ Encode(r)[52] = LE(Backup, 2)[2]
  BY DEF Encode, SectorByte

\* The two bytes of the signature, at offset 510.
LEMMA SignatureField ==
  ASSUME NEW r
  PROVE  Encode(r)[511] = LE(r.signature, 2)[1] /\ Encode(r)[512] = LE(r.signature, 2)[2]
  BY DEF Encode, SectorByte

\* A function on 1..n is a sequence of length n.
LEMMA FcnIsSeq ==
  ASSUME NEW f, NEW n \in Nat, f = [i \in DOMAIN f |-> f[i]], DOMAIN f = 1..n
  PROVE  f \in Seq({f[i] : i \in DOMAIN f}) /\ Len(f) = n
<1> DEFINE S == {f[i] : i \in DOMAIN f}
<1>1. f = [i \in 1..n |-> f[i]]
  OBVIOUS
<1>2. f \in [1..n -> S]
  BY <1>1
<1>3. f \in Seq(S)
  <2>1. f \in UNION {[1..m -> S] : m \in Nat}
    BY <1>2
  <2>2. QED
    BY <2>1, SeqDef
<1>4. QED
  BY <1>3, LenProperties

\* The 512 bytes Encode writes form a byte string of length 512, as
\* f.read(512) returns for a full sector.
LEMMA EncodeLength ==
  ASSUME NEW r
  PROVE  Len(Encode(r)) = 512
<1>1. DOMAIN Encode(r) = 1..512
  BY DEF Encode
<1>2. Encode(r) = [i \in DOMAIN Encode(r) |-> Encode(r)[i]]
  BY DEF Encode
<1>3. 512 \in Nat
  BY SMT
<1>4. QED
  BY <1>1, <1>2, <1>3, FcnIsSeq

\* A sector Encode writes is a sequence of its own bytes.
LEMMA EncodeIsSeq ==
  ASSUME NEW r
  PROVE  Encode(r) \in Seq({Encode(r)[i] : i \in DOMAIN Encode(r)})
<1>1. DOMAIN Encode(r) = 1..512
  BY DEF Encode
<1>2. Encode(r) = [i \in DOMAIN Encode(r) |-> Encode(r)[i]]
  BY DEF Encode
<1>3. 512 \in Nat
  BY SMT
<1>4. Encode(r) \in Seq({Encode(r)[i] : i \in DOMAIN Encode(r)}) /\ Len(Encode(r)) = 512
  BY <1>1, <1>2, <1>3, FcnIsSeq
<1>5. QED
  BY <1>4

\* The encoder of the harnesses writes the signature field where
\* test_signature reads it: U16 at offset 510 of Encode(r) gives back
\* r.signature, for every 16-bit signature.
THEOREM EncodeSignature ==
  ASSUME NEW r, r.signature \in Nat, r.signature < 65536
  PROVE  U16(Encode(r), 510) = r.signature
<1>1. Encode(r)[511] = LE(r.signature, 2)[1] /\ Encode(r)[512] = LE(r.signature, 2)[2]
  BY SignatureField
<1>2. Encode(r)[511] + 256 * Encode(r)[512] = r.signature
  BY <1>1, U16Field
<1>3. QED
  BY <1>2 DEF U16

\* The boot sector check of test_disk_images.py accepts a sector built by
\* the harness encoder exactly when the signature field written is 0xAA55:
\* the length test and the little-endian read of bytes 511 and 512 agree
\* with what the encoder wrote.
THEOREM EncodeSignatureOK ==
  ASSUME NEW r, r.signature \in Nat, r.signature < 65536
  PROVE  SignatureOK(Encode(r)) <=> r.signature = BootSignature
<1>1. Len(Encode(r)) = 512
  BY EncodeLength
<1>2. U16(Encode(r), 510) = r.signature
  BY EncodeSignature
<1>3. QED
  BY <1>1, <1>2, SMT DEF SignatureOK, SignatureReadable

\* read_boot_sector on a whole sector written from record r: the read
\* does not fail, the layout is chosen by sectors_per_fat_16 alone, and
\* every numeric field comes back as it was written at the offset of the
\* layout table (the FAT32-only fields are 0 in the FAT12/16 layout).  It
\* holds for every value that fits its field: 16-bit fields below 65536,
\* the 32-bit root_cluster below 2^32, and the one-byte fields as stored.
THEOREM DecodeEncodedFields ==
  ASSUME NEW r,
         r.bytes_per_sector \in Nat, r.bytes_per_sector < 65536,
         r.root_entries \in Nat, r.root_entries < 65536,
         r.total_sectors_16 \in Nat, r.total_sectors_16 < 65536,
         r.sectors_per_fat_16 \in Nat, r.sectors_per_fat_16 < 65536,
         r.sectors_per_fat_32 \in Nat, r.sectors_per_fat_32 < U32Bound,
         r.root_cluster \in Nat, r.root_cluster < U32Bound
  PROVE  LET d     == Encode(r)
             bs    == BootSectorOf(d)
             fat32 == r.sectors_per_fat_16 = 0
         IN  /\ ReadOK(d)
             /\ IsFat32Layout(d) <=> fat32
             /\ bs.bytes_per_sector = r.bytes_per_sector
             /\ bs.sectors_per_cluster = r.sectors_per_cluster
             /\ bs.reserved_sectors = Reserved
             /\ bs.num_fats = r.num_fats
             /\ bs.root_entries = r.root_entries
             /\ bs.total_sectors_16 = r.total_sectors_16
             /\ bs.media_descriptor = Media
             /\ bs.sectors_per_fat_16 = r.sectors_per_fat_16
             /\ bs.sectors_per_fat_32 = IF fat32 THEN r.sectors_per_fat_32 ELSE 0
             /\ bs.root_cluster = IF fat32 THEN r.root_cluster ELSE 0
             /\ bs.fs_info_sector = IF fat32 THEN FsInfo ELSE 0
             /\ bs.backup_boot_sector = IF fat32 THEN Backup ELSE 0
<1> DEFINE d == Encode(r)
<1>1. Len(d) = 512
  BY EncodeLength
<1>0. LET bs    == BootSectorOf(d)
          fat32 == IsFat32Layout(d)
      IN  /\ bs.bytes_per_sector = U16(d, 11)
          /\ bs.sectors_per_cluster = d[14]
          /\ bs.reserved_sectors = U16(d, 14)
          /\ bs.num_fats = d[17]
          /\ bs.root_entries = U16(d, 17)
          /\ bs.total_sectors_16 = U16(d, 19)
          /\ bs.media_descriptor = d[22]
          /\ bs.sectors_per_fat_16 = U16(d, 22)
          /\ bs.sectors_per_fat_32 = IF fat32 THEN U32(d, 36) ELSE 0
          /\ bs.root_cluster = IF fat32 THEN U32(d, 44) ELSE 0
          /\ bs.fs_info_sector = IF fat32 THEN U16(d, 48) ELSE 0
          /\ bs.backup_boot_sector = IF fat32 THEN U16(d, 50) ELSE 0
  BY BootSectorFields
<1>2. /\ U16(d, 11) = r.bytes_per_sector
      /\ U16(d, 14) = Reserved
      /\ U16(d, 17) = r.root_entries
      /\ U16(d, 19) = r.total_sectors_16
      /\ U16(d, 22) = r.sectors_per_fat_16
  <2>1. Reserved \in Nat /\ Reserved < 65536
    BY DEF Reserved
  <2>0. /\ d[12] = LE(r.bytes_per_sector, 2)[1] /\ d[13] = LE(r.bytes_per_sector, 2)[2]
        /\ d[15] = LE(Reserved, 2)[1] /\ d[16] = LE(Reserved, 2)[2]
        /\ d[18] = LE(r.root_entries, 2)[1] /\ d[19] = LE(r.root_entries, 2)[2]
        /\ d[20] = LE(r.total_sectors_16, 2)[1] /\ d[21] = LE(r.total_sectors_16, 2)[2]
        /\ d[23] = LE(r.sectors_per_fat_16, 2)[1] /\ d[24] = LE(r.sectors_per_fat_16, 2)[2]
    BY CommonBytes
  <2>2. d[12] + 256 * d[13] = r.bytes_per_sector
    BY <2>0, U16Field
  <2>3. d[15] + 256 * d[16] = Reserved
    BY <2>0, <2>1, U16Field
  <2>4. d[18] + 256 * d[19] = r.root_entries
    BY <2>0, U16Field
  <2>5. d[20] + 256 * d[21] = r.total_sectors_16
    BY <2>0, U16Field
  <2>6. d[23] + 256 * d[24] = r.sectors_per_fat_16
    BY <2>0, U16Field
  <2>7. QED
    BY <2>2, <2>3, <2>4, <2>5, <2>6 DEF U16
<1>3. d[14] = r.sectors_per_cluster /\ d[17] = r.num_fats /\ d[22] = Media
  BY CommonBytes
<1>4. IsFat32Layout(d) <=> r.sectors_per_fat_16 = 0
  BY <1>2 DEF IsFat32Layout
<1>5. ReadOK(d)
  BY <1>1, SMT DEF ReadOK, U32Readable, U16Readable
<1>6. CASE r.sectors_per_fat_16 = 0
  <2>1. /\ FsInfo \in Nat /\ FsInfo < 65536
        /\ Backup \in Nat /\ Backup < 65536
    BY DEF FsInfo, Backup
  <2>7. /\ d[37] = LE(r.sectors_per_fat_32, 4)[1]
        /\ d[38] = LE(r.sectors_per_fat_32, 4)[2]
        /\ d[39] = LE(r.sectors_per_fat_32, 4)[3]
        /\ d[40] = LE(r.sectors_per_fat_32, 4)[4]
        /\ d[45] = LE(r.root_cluster, 4)[1] /\ d[46] = LE(r.root_cluster, 4)[2]
        /\ d[47] = LE(r.root_cluster, 4)[3] /\ d[48] = LE(r.root_cluster, 4)[4]
        /\ d[49] = LE(FsInfo, 2)[1] /\ d[50] = LE(FsInfo, 2)[2]
        /\ d[51] = LE(Backup, 2)[1] /\ d[52] = LE(Backup, 2)[2]
    BY <1>6, Fat32Bytes
  <2>8. (LE(r.sectors_per_fat_32, 4)[1] + 256 * LE(r.sectors_per_fat_32, 4)[2])
          + 65536 * (LE(r.sectors_per_fat_32, 4)[3] + 256 * LE(r.sectors_per_fat_32, 4)[4])
          = r.sectors_per_fat_32
    BY U32Field
  <2>9. (LE(r.root_cluster, 4)[1] + 256 * LE(r.root_cluster, 4)[2])
          + 65536 * (LE(r.root_cluster, 4)[3] + 256 * LE(r.root_cluster, 4)[4])
          = r.root_cluster
    BY U32Field
  <2>10. /\ LE(FsInfo, 2)[1] + 256 * LE(FsInfo, 2)[2] = FsInfo
         /\ LE(Backup, 2)[1] + 256 * LE(Backup, 2)[2] = Backup
    BY <2>1, U16Field
  <2>2. (d[37] + 256 * d[38]) + 65536 * (d[39] + 256 * d[40]) = r.sectors_per_fat_32
    BY <2>7, <2>8
  <2>3. (d[45] + 256 * d[46]) + 65536 * (d[47] + 256 * d[48]) = r.root_cluster
    BY <2>7, <2>9
  <2>4. d[49] + 256 * d[50] = FsInfo /\ d[51] + 256 * d[52] = Backup
    BY <2>7, <2>10
  <2>5. U32(d, 36) = r.sectors_per_fat_32 /\ U32(d, 44) = r.root_cluster
        /\ U16(d, 48) = FsInfo /\ U16(d, 50) = Backup
    BY <2>2, <2>3, <2>4 DEF U32, U16
  <2>6. QED
    BY <1>0, <1>2, <1>3, <1>4, <1>5, <1>6, <2>5
<1>7. CASE r.sectors_per_fat_16 # 0
  BY <1>0, <1>2, <1>3, <1>4, <1>5, <1>7
<1>8. QED
  BY <1>6, <1>7

=============================================================================
