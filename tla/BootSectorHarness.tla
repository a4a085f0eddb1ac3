-------------------------- MODULE BootSectorHarness --------------------------
(***************************************************************************)
(* The boot sector harness: the state is the field values a sector is      *)
(* written with (the layout table of the FAT specification) and the length *)
(* of the file it is read from; each step rewrites one field.  The checks  *)
(* decode the bytes with the code's reader and compare with the field      *)
(* values as written and with the signature bytes.  MCBootSector adds the  *)
(* checks that need the dump tool and the power-of-two bit test.           *)
(***************************************************************************)
EXTENDS SectorImages


VARIABLE f

vars == <<f>>

\* The values each field is rewritten with: valid ones, the boundary ones
\* the validator must reject, and one (65536) in each 32-bit field
\* (sectors per FAT at 36, root cluster at 44) that a 16-bit read of it
\* would get wrong.
\* Text fields are 8 raw bytes: 'FAT32   ', 'FAT12   ', 'FAT32' padded
\* with NULs (not whitespace to str.strip) and 'NO NAME '.
FsChoices == {<<70, 65, 84, 51, 50, 32, 32, 32>>,
              <<70, 65, 84, 49, 50, 32, 32, 32>>,
              <<70, 65, 84, 51, 50, 0, 0, 0>>,
              <<78, 79, 32, 78, 65, 77, 69, 32>>}

FieldValues ==
  [bytes_per_sector    |-> {512, 511, 0},
   sectors_per_cluster |-> {4, 0, 3, 128, 255},
   num_fats            |-> {2, 1, 3},
   root_entries        |-> {0, 224},
   total_sectors_16    |-> {0, 2880},
   sectors_per_fat_16  |-> {0, 9},
   sectors_per_fat_32  |-> {1000, 65536},
   root_cluster        |-> {2, 1, 65536},
   fs_type             |-> FsChoices,
   signature           |-> {43605, 21930},
   length              |-> {512, 60, 30, 10}]

\* Scenario A of the specification: a valid FAT32 sector.
Init == f = ScenarioA

\* Rewrite one field of the sector.
SetField ==
  \E k \in DOMAIN FieldValues : \E v \in FieldValues[k] :
    /\ v # f[k]
    /\ f' = [f EXCEPT ![k] = v]

Next == SetField

Spec == Init /\ [][Next]_vars

---------------------------------------------------------------------------
Full == Encode(f)

Fat32Layout == f.sectors_per_fat_16 = 0

\* The file's first min(size, 512) bytes, which is what f.read(512) gets.
Sector == SubSeq(Full, 1, f.length)

\* The fs_type text as the specification describes it: the field trimmed
\* of surrounding blanks.
FsTrimmed == Strip(f.fs_type)

\* The field values the reader must return for a whole sector.
Expected ==
  [bytes_per_sector    |-> f.bytes_per_sector,
   sectors_per_cluster |-> f.sectors_per_cluster,
   reserved_sectors    |-> Reserved,
   num_fats            |-> f.num_fats,
   root_entries        |-> f.root_entries,
   total_sectors_16    |-> f.total_sectors_16,
   media_descriptor    |-> Media,
   sectors_per_fat_16  |-> f.sectors_per_fat_16,
   sectors_per_fat_32  |-> IF Fat32Layout THEN f.sectors_per_fat_32 ELSE 0,
   root_cluster        |-> IF Fat32Layout THEN f.root_cluster ELSE 0,
   fs_info_sector      |-> IF Fat32Layout THEN FsInfo ELSE 0,
   backup_boot_sector  |-> IF Fat32Layout THEN Backup ELSE 0,
   volume_label        |-> LabelText,
   fs_type             |-> FsTrimmed]

---------------------------------------------------------------------------
TypeOK == DOMAIN f = DOMAIN FieldValues /\ \A k \in DOMAIN FieldValues : f[k] \in FieldValues[k]

\* read_boot_sector returns, for a whole sector of either layout, exactly
\* the field values written at the offsets of the layout table, and
\* chooses the layout by sectors_per_fat_16 alone.
DecodeMatchesLayout ==
  f.length = 512 => /\ ReadOK(Sector)
                    /\ BootSectorOf(Sector) = Expected

\* test_signature passes exactly when the file has the two bytes 55 AA at
\* offset 510, whatever the BPB holds.
SignatureIffMarker ==
  SignatureOK(Sector) <=> (f.length = 512 /\ f.signature = 43605)

\* The specification (section 8): a buffer shorter than 512 bytes fails
\* to decode, and no validator runs on it.  read_boot_sector does not check
\* the length.
TruncatedRejected == f.length < 512 => ~ReadOK(Sector)

\* The comment on is_valid_fat12 ('FAT12/16 specific') and the
\* specification: a sector passes the FAT12 check only with a root
\* directory (root_entries > 0) and a valid geometry.
Fat12RequiresRootEntries ==
  (f.length = 512 /\ IsValidFat12(BootSectorOf(Sector)))
     => /\ BootSectorOf(Sector).root_entries > 0
        /\ BootSectorOf(Sector).bytes_per_sector \in {512, 1024, 2048, 4096}
=============================================================================
