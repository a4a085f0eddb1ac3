# Formal model of the disk-image test scripts

This directory models the two Python scripts of the repository in TLA+:

- `src/scripts/test_disk_images.py` decodes and validates the FAT boot sector of
  each test image, then loop-mounts the image and looks for the expected files.
  It counts PASS and FAIL findings and exits 0 only when nothing failed.
- `src/scripts/dump_boot_sector.py` prints a boot sector and gives its own
  validity verdict.

The model has TLC runs on small instances and TLAPS proofs that hold for every
value of the constants.

## 1. Inventory

| Component | Code | State | Operations |
|---|---|---|---|
| BootSectorReader | `read_boot_sector` (87-145) | none (pure) | decode 512 bytes into a `FAT32BootSector`, branching on `sectors_per_fat_16 == 0` |
| BootSectorValidator | `is_valid_fat32` (41-53), `is_valid_fat12` (55-64), `test_signature` (251-267), `test_boot_sector` (164-194) | none (pure) | predicates on the record, the signature at offset 510 |
| MountManager | `test_mount_and_files` (196-249) | the kernel's mounts on `/tmp/test_mount_kernel` | mkdir, `sudo mount -o loop`, file lookups, `find` (verbose), `sudo umount` with `check=True`, the except clause with its second umount |
| DiskImageTestRunner | `run_all_tests` (269-324) | the current case, where it is in the case | the loop over the three cases, `test_image_exists` gating the rest of a case |
| ReportAggregator | `log` (74-85), summary (314-324) | `tests_passed`, `tests_failed` | count a PASS or a FAIL; verdict `tests_failed == 0` |
| BootSectorDumpTool | `dump_boot_sector.py` `main`, `parse_fat32_boot_sector` | none | refuse files under 512 bytes; validate at the FAT32 offsets |

How they interact. The runner calls the reader and validator through
`test_signature` and `test_boot_sector`. It drives the mount manager through
`test_mount_and_files`. Every check reports through `log`, which updates the
shared counters. The components interact through plain calls and these two
counters. The only external state is the shared mount point, which every case
mounts on and unmounts from, and which a leftover mount carries from one case
to the next.

What is hard:

- Partial failure of external calls. Each of mkdir, mount, the file lookups,
  `find` and umount can succeed, return non-zero, or raise, and each outcome
  takes a different path.
- The except clause, which sits beside a `check=True` umount.
- Exceptions that escape every try.
- Boundary data in the decoder: short files, the layout discriminant, 32-bit
  little-endian fields, the signature's byte order, and the unparenthesised
  `and`/`or` of the FAT12 predicate.

Nothing runs concurrently within one run. Two runs of the script at once would
share the fixed mount point.

What makes each component correct:

- **Reader**: for a whole sector, every field is the value written at the
  layout table's offset for its layout. A short file is rejected (the
  specification says so; the code does not).
- **Validator**: `is_valid_fat32` is exactly the specification's eight
  conditions. The FAT12 predicate requires a root directory and a valid
  geometry. The signature test depends on bytes 510-511 only.
- **Mount manager**: a mount made by a case is released on every path. The
  unmount is attempted once. A mount failure is not followed by an unmount.
- **Runner and aggregator**: the run finishes and its verdict reflects the
  images and the external calls exactly. No error aborts the run.
- **Dump tool**: it agrees with the tester on sectors the tester accepts.

## 2. Modules

| Module | Models | Kind |
|---|---|---|
| `BootSector.tla` | reader, validator, signature test, `test_boot_sector`'s verdict | pure operators, no `RECURSIVE` |
| `DumpBootSector.tla` | `dump_boot_sector.py` length check and Validation section | operators (uses Bitwise: TLC only) |
| `DiskImageTester.tla` | `run_all_tests`, `test_image_exists`, `test_signature`, `test_boot_sector`, `test_mount_and_files`, `log` | state machine, EXTENDS BootSector |
| `SectorImages.tla` | the reference encoder: `Encode(r)[i]` is the byte at position `i` read off the specification's layout table row by row (`SectorByte`), little-endian for integers | harness helper |
| `BootSectorHarness.tla` | harness: the state is a field record plus a file length; a step rewrites one field; the checks that need only BootSector (`DecodeMatchesLayout`, `SignatureIffMarker`, the two violation properties) | harness, no Bitwise |
| `MCBootSector.tla` | EXTENDS BootSectorHarness and DumpBootSector; adds the checks that need the dump tool or the power-of-two bit test | MC |
| `MCDiskImageTester.tla` | harness: the three cases of `run_all_tests` with 2, 1 and 1 expected files; three image contents | MC |
| `TestRun.tla` | what `run_all_tests` promises: cases in order, at most one counted finding per statement, nothing after the end | abstract specification |
| `TwoTesters.tla` | two runs of the script at once sharing the image files and `/tmp/test_mount_kernel` | composition: two INSTANCEs of DiskImageTester |
| `MCTwoTesters.tla` | harness of TwoTesters | MC |
| `DiskImageTesterProofs.tla` | TLAPS proofs about DiskImageTester: types, mount scoping, the verdict, the refinement of TestRun | proofs |
| `BootSectorProofs.tla` | TLAPS proofs about the operators of BootSector and the encoder of SectorImages | proofs |
| `BootSectorHarnessProofs.tla` | TLAPS proofs about the boot sector harness: types, `SignatureIffMarker`, the integer fields of `DecodeMatchesLayout` | proofs |

### How DiskImageTester corresponds to the code

The variables:

- `pc` and `idx` are the position in `run_all_tests`.
- `fileIdx` is the loop over `expected_files`.
- `passed` and `failed` are `tests_passed` and `tests_failed`.
- `mounts` is the kernel's mount stack on the mount point.

Three history variables record what the properties need:

- `umountFailed` counts umount calls that did not unmount.
- `mounted` and `umounts` record, for the current case, whether its mount
  succeeded and how many umount calls it made.
- `envOK[i]` records whether every external call of case `i` succeeded.

`image[i]` is the state of the image file, chosen once. It is missing, a
directory, empty, a path whose `stat` raises, unreadable, or a readable file
with given content.

Each action is one step of the code, with all of its effects:

- `TestImageExists`: lines 147-162 and the `continue` at 302.
- `TestSignature` and `TestBootSector`.
- `Mkdir`, `Mount`, `CheckFile` and `CheckFileRaises`, `ListFiles`: the parts
  of `test_mount_and_files`.
- `Umount`: the `check=True` unmount.
- `ExceptUmount`: the whole except clause, meaning its FAIL and its unchecked
  umount.
- `Terminated`: the end of the run, either normal or by an escaped exception.

`ExitStatus` is `main`'s `sys.exit(0 if success else 1)`; an exception that
escapes `run_all_tests` ends the interpreter with status 1.

A failed call's exception is a move of `pc` to `"except"`, or to `"crashed"`
where nothing catches it. `all_found`, the return value of
`test_mount_and_files`, is ignored by `run_all_tests`, so it is left out. The
`WARN` lines are not counted by `log`, so they are left out too.

### The abstract run and the refinement

`TestRun` has four variables: the current case `cur`, `state` (`"running"`,
`"done"`, `"aborted"`) and the two counters. A step is one statement of the
running loop: it logs at most one finding (`Record`) and stays in its case,
goes on to the next, reaches the summary after the last case, or aborts
(`Move`). DiskImageTester maps onto it by `Run == INSTANCE TestRun WITH
NCases <- N, cur <- idx, state <- RunState`, where `RunState` is `"done"` at
`pc = "done"`, `"aborted"` at `pc = "crashed"` and `"running"` elsewhere. The
file index, the mount stack and the history variables are hidden.
`ImplementsTestRun == Run!Spec` is checked by TLC and proved by TLAPS.

### The composition

`TwoTesters` instantiates DiskImageTester twice, with the
variables of the second run renamed, and shares `image` and `mounts`
between them. A step of the composition is a step of one run, so every
interleaving of the two processes is explored.

### How BootSector corresponds to the code

A sector is a sequence of byte values. Python offset `i` is position `i+1`. A
file shorter than 512 bytes is a shorter sequence, because `f.read(512)`
returns what there is.

The operators model the Python operations:

- `Slice` is Python slicing. It cuts the slice short at the end of the data
  and never fails.
- `U16Readable` and `U32Readable` are the conditions under which
  `struct.unpack` succeeds.
- `AsciiIgnore` drops bytes above 127.
- `Strip` removes Python's ASCII whitespace. NUL is not whitespace.
- `Contains` is Python's `in` on strings.

`ReadOK` holds exactly when `read_boot_sector` does not raise. `BootSectorOf`
is the record it returns. `IsValidFat12` keeps Python's precedence.

## 3. Runs

| Run | Checks | Result |
|---|---|---|
| `bootsector_decode` (MCBootSector.cfg) | `DecodeMatchesLayout`, `Fat32ValidIffSpec`, `SignatureIffMarker`, `DumpAcceptsTesterFat32` | pass, 69,120 sectors |
| `bootsector_truncated` | `TruncatedRejected` | violation: a 60-byte FAT32 file decodes |
| `bootsector_fat12_precedence` | `Fat12RequiresRootEntries` | violation: the FAT32 sector of scenario A passes `is_valid_fat12` |
| `tester_scoped` (MCDiskImageTester.cfg) | `TypeOK`, `VerdictReflectsImages`, `MountScoped` | pass, about 500,000 states |
| `tester_unmount_twice` | `UnmountAtMostOnce` | violation: a failed `check=True` umount is followed by the except clause's second umount |
| `tester_run_abort` | `RunNeverAborts` | violation: a raising stat, or a raising umount in the except clause, ends the run |
| `tester_terminates` (MCDiskImageTester_live.cfg) | `Terminates` under `FairSpec` | pass, 45,018 states |
| `tester_refines_run` (MCDiskImageTester_refines.cfg) | `ImplementsTestRun` | pass, 509,024 states |
| `two_runs_shared_mount` (MCTwoTesters.cfg) | `FilesSeeOwnImage` | violation: run 2's mkdir fails, its except clause unmounts run 1's image while run 1 checks its files |

Bounds, and why they are enough:

- **MCBootSector: which field values.** Each field takes a valid value and the
  boundary values the validator must reject: sector size 511 and 0; cluster
  size 0, 3, 128 and 255; FAT count 3.
  - Both 32-bit fields take 65536: sectors per FAT (offset 36, also 1000)
    and root cluster (offset 44, also 2 and 1). A 16-bit read of 65536
    gives 0, so a short read at either offset is caught.
  - The four fs_type strings are `FAT32`, `FAT12`, `FAT32` padded with NULs,
    and a non-FAT name.
  - The signature takes both byte orders.
  - The file length takes the values 10, 30, 60 and 512. These cover no
    header, a FAT12/16 header only, a FAT32 header without the text fields,
    and a whole sector.
  - Every combination of these values is reached, because a step rewrites any
    single field.
- **MCDiskImageTester: which cases and outcomes.** There are three cases, as
  in the code, so a mount leaked by one case is seen by the next two. Two
  expected files in the first case give a case with one file found and one
  missing. Every image state is combined with every outcome of every external
  call. `Verbose = TRUE`, so the `find` step and its raise are included.

- **Liveness run.** Whether a run ends does not depend on
  what an image holds, so these runs use one image content and
  `Verbose = FALSE`. Every image status and every call outcome remain, which
  keeps the liveness check at about a minute.
- **Two runs.** There are two cases, one FAT32 and one FAT12, with one
  expected file each and one content. Two distinct cases are needed for
  one run to mount an image different from the other's. The violation
  needs 12 steps.

Fairness. `FairSpec == Spec /\ WF_vars(Next)`. `run_all_tests` is one
sequential process, and until it returns its next statement can always
run. The scheduler does not stop a runnable process for ever, so weak
fairness is what the code justifies. Nothing stronger is assumed: an
external call's outcome is not fair, and it may fail every time. The for
loops end anyway. Every external call is assumed to return (with any
outcome); see "Not modelled" for calls that never do.

Deadlock is checked: the only final states are `"done"` and `"crashed"`, where
`Terminated` stutters, as the end of a program does.

Every property of a passing run has a mutant: a plausible bug in the mapped
code that TLC must catch. The mutants are listed in PROJECT.json "mutants":

- a 32-bit field read as 16 bits;
- a power-of-two test without its `n > 0` guard;
- the marker compared as 0x55AA;
- the root-cluster bound off by one;
- a loop step past the last case;
- a missing file reported as a warning;
- an except clause without its umount;
- a raising `stat` retried until it answers (kills `Terminates`);
- `test_boot_sector` logging a second FAIL after `read_boot_sector`'s
  (kills `ImplementsTestRun`).

## 4. Findings

1. **is_valid_fat12 precedence** (code bug, line 63). The trailing
   `or 'FAT' in fs_type` accepts any FAT volume, with no geometry check, so a
   FAT32 `floppy.img` passes the FAT12 check.
2. **No truncation check in the tester** (line 91). Short files decode, and
   the validator runs on them. The dump tool does check the length.
3. **Unmount twice and counted** (line 241). A failing umount is retried by
   the except clause and logged as a FAIL. The specification asks for a single
   unmount whose errors are swallowed.
4. **Run aborted** (lines 149 and 248, reached from 302). Some exceptions
   escape `run_all_tests`.
5. **Shared mount point without mutual exclusion** (lines 197 and 248).
   Two runs at once interfere. The except clause's unmount of one run
   removes the other run's mount, and the other run then looks up its files
   in an empty directory. Section 4.3 of the specification forbids
   concurrent acquisition.

## 5. Proofs (DiskImageTesterProofs.tla, BootSectorProofs.tla)

- `TypeCorrect == Spec => []TypeOK` holds for every `Cases`, `Contents` and
  `Verbose` allowed by the module's ASSUMEs. It rests on two lemmas:
  `NextCaseType` (the loop step stays within the cases) and `PopMountType`
  (unmount pops a case-index stack). `PopMountType` uses the generic lemma
  `SeqPrefix`, which comes from `SubSeqProperties`.
- `MountScopedHolds == Spec => []MountScoped` says that between cases no more
  mounts remain than failed unmounts. `MountScoped` is not inductive on its
  own: inside `test_mount_and_files` the case legitimately holds one mount.
  The strengthening `MountBound` allows one extra mount while `pc` is in
  `HoldsMount`, which runs from the mount call to the end of the except
  clause. TLC checked `MountBound` as an invariant of `tester_scoped` before it
  was proved. The inductive invariant is `IInv == TypeOK /\ MountBound`. Its
  step (`MountBoundStep`) has one case per action:
  - the mount pushes only on the way into `HoldsMount`;
  - every way out of `HoldsMount` either pops or increments `umountFailed`.

- `Refinement == Spec => ImplementsTestRun` shows that DiskImageTester
  implements TestRun for every list of test cases. `RunInit` maps the
  initial state. `RunStep` shows that every step, under `TypeOK`, is a
  `Run!Step` or leaves `<<idx, RunState, passed, failed>>` unchanged. It has
  one case per action and cites four small lemmas:
  - `RecordCases`: a PASS, a FAIL or no finding is a `Record`;
  - `StayMove`: a step inside a case;
  - `NextCaseMove`: the loop's step to the next case or to the summary;
  - `CrashMove`: an escaped exception is an abort.

  The theorem combines these with `TypeCorrect` by PTL.

- `VerdictCorrect == Spec => []VerdictReflectsImages` says that a run
  which has ended (normally or by an escaped exception) exits with status 0
  exactly when every case's image is good and its mount environment worked.
  `VerdictReflectsImages` is not inductive: it only speaks of the end, and
  the count `failed` is built up one check at a time. The strengthening
  `VerdictInv` (TLC checked it as an invariant on the full
  MCDiskImageTester instance, 509,024 distinct states, before it was proved) says, stage by stage:
  - in `signature` the image was found, or the read failed;
  - at the boot sector check, an earlier failing check of this case has
    already counted;
  - every case before the current one, and the current one once its checks
    are done, that has a bad image has counted a failure;
  - every failed mount environment has counted, except in the `except`
    clause that is about to count it;
  - a failure is only ever counted for a case that is bad (`CaseBad`);
  - a crash happens only in a bad case, and `done` is reached only after
    the last case.

  The inductive invariant is `VInv == TypeOK /\ VerdictInv`.
  `VerdictStep` has one case per action, and the unmount case is split
  between moving to the next case and entering the `except` clause.
  `SignatureOK` and `BootSectorPasses` are never expanded, so the theorem
  holds for any decoder outcome on any image bytes.

BootSectorProofs proves facts about the operators, for every byte string:
- `SignatureBytes`: `test_signature` passes exactly when the buffer is at
  least 512 bytes and bytes 511 and 512 are 0x55 and 0xAA. This is the
  statement of `SignatureIffMarker`, for every buffer and not only the
  encoded ones. It rests on `ByteBounds` and `U16LittleEndian`.
- `EncodeSignatureOK`: the check accepts a sector written by the harness
  encoder exactly when the signature field is 0xAA55. It rests on:
  - `EncodeSignature`: the decoder reads back the signature that `Encode`
    wrote;
  - `EncodeLength`: the sector is a sequence of length 512;
  - `SignatureField` (bytes 511 and 512 of `Encode(r)` are the two
    little-endian bytes of the signature), `LE2`, `U16Field` (two bytes
    of a value below 2^16 read back as it), `FcnIsSeq` and
    `EncodeIsSeq`.

  `U32LittleEndian` states the same round trip for 32-bit fields.
- `DecodeEncodedFields`: for every record whose 16-bit fields are below
  2^16 and whose sectors per FAT and root cluster are below 2^32, `read_boot_sector` on
  `Encode(r)` succeeds, picks the FAT32 layout exactly when
  `sectors_per_fat_16` is 0, and returns every integer field that was
  written: the common BPB, and the FAT32 fields (sectors per FAT, root
  cluster, FSInfo and backup sectors) or 0 in the FAT12/16 layout. It rests
  on `CommonBytes` and `Fat32Bytes` (the bytes at each offset of the layout
  table, which the provers get by evaluating `SectorByte` at ground
  positions), `BootSectorFields` (each integer field of the decoded record
  as the read that produces it), `LE4`, `U16Field` and `U32Field`. The
  32-bit bound is the named constant `U32Bound` (2^32), so the provers
  treat it as a constant outside the one proof that expands it. The encoder is written
  pointwise, one CASE row per table row, so that each byte is a closed
  term; TLC checked that it equals the earlier field-by-field writer on
  all 34,560 harness sectors before the change.

BootSectorHarnessProofs lifts those facts to every behaviour of the harness:
- `HarnessTypeCorrect == Spec => []TypeOK`: every field stays in
  `FieldValues` (it is inductive as it stands).
- `SignatureIffMarkerHolds == Spec => []SignatureIffMarker`, the invariant
  the `bootsector_decode` run checks. From `TypeOK` alone: a whole sector
  is `Encode(f)` itself (`SubSeqWhole`), so `EncodeSignatureOK` applies;
  a shorter file is too short for the read at offset 510.
- `DecodeNumericFieldsHold == Spec => []DecodeNumericFields`: for a whole
  sector, `ReadOK`, the layout choice and the twelve integer fields of
  `DecodeMatchesLayout`, by `DecodeEncodedFields` with the bounds that
  `TypeOK` gives.
- `Fat12IgnoresGeometry`: because Python's `and` binds tighter than `or`,
  `is_valid_fat12` holds exactly when the stripped `fs_type` contains 'FAT'.
  The geometry checks never decide the result. It rests on `ContainsFAT12`
  (containing 'FAT12' implies containing 'FAT'). The theorem assumes that
  `Strip(bs.fs_type)` is a sequence of naturals. `Strip` is built from the
  CHOOSE-based `Min` and `Max` of FiniteSetsExt. Proving that it returns a
  sequence needs induction over finite sets, and the library states that
  induction with an operator parameter, which the installed provers cannot
  instantiate.

Only model-checked:
- The text half of `DecodeMatchesLayout`: `volume_label` and `fs_type`
  come out of `AsciiIgnore` (a `SelectSeq`, recursive in the standard
  module) and `Strip` (CHOOSE-based `Min` and `Max`); what they return for
  every byte string needs induction over the bytes, which the installed
  provers cannot instantiate.
- `Fat32ValidIffSpec` and `DumpAcceptsTesterFat32`: they need the
  power-of-two bit test of DumpBootSector, which uses Bitwise, and no
  module with a theorem may reach Bitwise.
- `FilesSeeOwnImage` and the violation runs: they are counterexamples, and
  nothing is to be proved about them.
- `Terminates`, under either fairness: TLAPS handles neither liveness nor
  `ENABLED`. What a recursive or CHOOSE-based operator computes for every
  input would need induction over data, which is also out of reach.

## 6. Not modelled

- Printing, colours, hex dumps and argparse: they are output only.
- Calls that never return. Every `subprocess.run` of
  `test_mount_and_files` (lines 201, 204, 228, 241 and 248) is made without
  `timeout=`, so a hung loop device or a sudo password prompt blocks the
  run for ever, which section 5 of the specification warns about. This is
  plain in the code. A model would only add a state with no successor, and
  the check that the run then never ends would just restate that
  assumption. So `Terminates` is checked with every call returning, and the
  hazard is listed without a property. Time is not modelled, because there
  is no timeout to compare it with.
- argparse, and `--project-root`, which only chooses the directory the
  images are read from.
- A run killed from outside (SIGKILL, CI cancellation) with a mount held.
  The code has no recovery for it, and nothing is persisted between runs
  besides the mount itself. The composition shows what a leftover or
  foreign mount does to a run.

## 7. Plan for the next sittings

1. **Proofs**: add the per-case accounting (one finding per expected file)
   as an invariant and a theorem. Prove the action properties of the
   runner (`failed` never decreases; cases are visited in order) as
   `[][A]_vars` theorems.
2. **Fixed composition**: two runs with a lock, or with a mount point per
   run, to show `FilesSeeOwnImage` holds when the specification's mutual
   exclusion is implemented.
