--------------------------- MODULE DiskImageTester ---------------------------
(***************************************************************************)
(* DiskImageTester.run_all_tests of scripts/test_disk_images.py: for each  *)
(* test case in order, test_image_exists (whose failure skips the rest of  *)
(* the case), test_signature, test_boot_sector and test_mount_and_files,   *)
(* counting PASS and FAIL findings in tests_passed / tests_failed (log).   *)
(*                                                                         *)
(* The environment is nondeterministic: the state of each image file,      *)
(* chosen once, and the result of every external call (mkdir, sudo mount, *)
(* Path.exists under the mount point, find, sudo umount): it succeeds,     *)
(* returns non-zero, or raises.  The kernel's mounts on the shared mount   *)
(* point are a stack: mount pushes, umount removes the top one and fails   *)
(* when nothing is mounted.                                                *)
(***************************************************************************)
EXTENDS BootSector

CONSTANTS
  Cases,     \* the test cases: fs_type and the number of expected files
  Contents,  \* the byte strings an existing image may begin with
  Verbose    \* the -v flag: test_mount_and_files also runs find

Kinds == {"FAT32", "FAT12"}

ASSUME CasesAssumption ==
  /\ Cases \in Seq([fs_type : Kinds, files : Nat])
  /\ Len(Cases) >= 1

ASSUME ContentsAssumption == Contents \subseteq Seq(Byte)

ASSUME VerboseAssumption == Verbose \in BOOLEAN

N == Len(Cases)
CaseIds == 1..N

\* What test_image_exists and the reads find: no file, a directory, an
\* empty file, a path whose stat raises (e.g. EACCES on a parent), a file
\* that cannot be opened for reading, or a readable file.
Statuses == {"missing", "dir", "empty", "stat_error", "noread", "file"}
Images ==
  {[status |-> s, data |-> << >>] : s \in Statuses \ {"file"}}
    \cup {[status |-> "file", data |-> c] : c \in Contents}

VARIABLES
  image,         \* image[i]: the file of case i (never changes)
  pc,            \* where run_all_tests is
  idx,           \* the current test case
  fileIdx,       \* the expected file test_mount_and_files checks next
  passed,        \* tests_passed
  failed,        \* tests_failed
  mounts,        \* the mounts on /tmp/test_mount_kernel, bottom first
  umountFailed,  \* umount calls so far that did not unmount
  mounted,       \* the current case's mount call succeeded
  umounts,       \* umount calls in the current case
  envOK          \* envOK[i]: every external call of case i succeeded

vars == <<image, pc, idx, fileIdx, passed, failed, mounts, umountFailed,
          mounted, umounts, envOK>>

PCs == {"exists", "signature", "bootsector", "mkdir", "mount", "files",
        "list", "umount", "except", "done", "crashed"}

Data == image[idx].data
Kind == Cases[idx].fs_type

\* log(..., 'PASS') and log(..., 'FAIL').
Pass == passed' = passed + 1 /\ UNCHANGED failed
Fail == failed' = failed + 1 /\ UNCHANGED passed

\* Mutant: the last case is followed by a case past the end.
NextCaseOffByOne ==
  IF idx <= N THEN pc' = "exists" /\ idx' = idx + 1
              ELSE pc' = "done" /\ UNCHANGED idx

\* The for loop moves on to the next test case, or ends.
NextCase ==
  /\ IF idx < N THEN pc' = "exists" /\ idx' = idx + 1
                ELSE pc' = "done" /\ UNCHANGED idx

\* umount removes the topmost mount on the mount point.
PopMount == SubSeq(mounts, 1, Len(mounts) - 1)

\* The external calls of the current case did not all succeed.
EnvFault == envOK' = [envOK EXCEPT ![idx] = FALSE]

Init ==
  /\ image \in [CaseIds -> Images]
  /\ pc = "exists"
  /\ idx = 1
  /\ fileIdx = 1
  /\ passed = 0
  /\ failed = 0
  /\ mounts = << >>
  /\ umountFailed = 0
  /\ mounted = FALSE
  /\ umounts = 0
  /\ envOK = [i \in CaseIds |-> TRUE]

---------------------------------------------------------------------------
\* test_image_exists: exists(), is_file(), st_size == 0, each failure a
\* FAIL that makes the loop 'continue'.  A stat that raises is not caught
\* anywhere and ends the run.
\* Mutant: a stat that raises is retried until it answers.
TestImageExistsRetry ==
  /\ pc = "exists"
  /\ \/ /\ image[idx].status \in {"missing", "dir", "empty"}
        /\ Fail
        /\ NextCase
        /\ UNCHANGED <<mounted, umounts>>
     \/ /\ image[idx].status = "stat_error"
        /\ UNCHANGED <<pc, idx, passed, failed, mounted, umounts>>
     \/ /\ image[idx].status \in {"noread", "file"}
        /\ Pass
        /\ pc' = "signature"
        /\ UNCHANGED <<idx, mounted, umounts>>
  /\ UNCHANGED <<image, fileIdx, mounts, umountFailed, envOK>>

TestImageExists ==
  /\ pc = "exists"
  /\ \/ /\ image[idx].status \in {"missing", "dir", "empty"}
        /\ Fail
        /\ NextCase
        /\ UNCHANGED <<mounted, umounts>>
     \/ /\ image[idx].status = "stat_error"
        /\ pc' = "crashed"
        /\ UNCHANGED <<idx, passed, failed, mounted, umounts>>
     \/ /\ image[idx].status \in {"noread", "file"}
        /\ Pass
        /\ pc' = "signature"
        /\ UNCHANGED <<idx, mounted, umounts>>
  /\ UNCHANGED <<image, fileIdx, mounts, umountFailed, envOK>>

\* test_signature: PASS iff the two bytes at 510 are 55 AA; an unreadable
\* or short file raises inside the try and is a FAIL.
TestSignature ==
  /\ pc = "signature"
  /\ IF image[idx].status = "file" /\ SignatureOK(Data) THEN Pass ELSE Fail
  /\ pc' = "bootsector"
  /\ UNCHANGED <<image, idx, fileIdx, mounts, umountFailed, mounted, umounts, envOK>>

\* test_boot_sector: read_boot_sector (a FAIL when it raises), then the
\* validator of the expected kind.  The WARN lines are not counted.
\* Mutant: test_boot_sector logs its own FAIL after read_boot_sector's.
TestBootSectorDoubleFail ==
  /\ pc = "bootsector"
  /\ \/ image[idx].status = "file" /\ BootSectorPasses(Data, Kind) /\ Pass
     \/ image[idx].status = "file" /\ ReadOK(Data) /\ ~BootSectorPasses(Data, Kind) /\ Fail
     \/ ~(image[idx].status = "file" /\ ReadOK(Data))
          /\ failed' = failed + 2 /\ UNCHANGED passed
  /\ pc' = "mkdir"
  /\ UNCHANGED <<image, idx, fileIdx, mounts, umountFailed, mounted, umounts, envOK>>

TestBootSector ==
  /\ pc = "bootsector"
  /\ IF image[idx].status = "file" /\ BootSectorPasses(Data, Kind) THEN Pass ELSE Fail
  /\ pc' = "mkdir"
  /\ UNCHANGED <<image, idx, fileIdx, mounts, umountFailed, mounted, umounts, envOK>>

\* test_mount_and_files: mkdir -p with check=True; a failure raises into
\* the except clause.  The case's mount has not happened yet.
Mkdir ==
  /\ pc = "mkdir"
  /\ \/ pc' = "mount" /\ UNCHANGED envOK
     \/ pc' = "except" /\ EnvFault
  /\ mounted' = FALSE
  /\ umounts' = 0
  /\ UNCHANGED <<image, idx, fileIdx, passed, failed, mounts, umountFailed>>

\* sudo mount -o loop: success is a PASS and the image is mounted on top;
\* a non-zero return is a FAIL and returns without unmounting; a raise
\* goes to the except clause.
Mount ==
  /\ pc = "mount"
  /\ \/ /\ mounts' = Append(mounts, idx)
        /\ mounted' = TRUE
        /\ Pass
        /\ fileIdx' = 1
        /\ pc' = IF Cases[idx].files > 0 THEN "files"
                 ELSE IF Verbose THEN "list" ELSE "umount"
        /\ UNCHANGED <<idx, umounts, envOK>>
     \/ /\ Fail
        /\ EnvFault
        /\ NextCase
        /\ UNCHANGED <<mounts, fileIdx, mounted, umounts>>
     \/ /\ pc' = "except"
        /\ EnvFault
        /\ UNCHANGED <<idx, passed, failed, mounts, fileIdx, mounted, umounts>>
  /\ UNCHANGED <<image, umountFailed>>

\* One iteration of the loop over expected_files: (mount_point /
\* expected).exists() is a PASS or a FAIL, or raises into the except
\* clause.
\* Mutant: a missing file reported as a warning, not a FAIL.
CheckFileMissingWarns ==
  /\ pc = "files"
  /\ \/ /\ Pass
        /\ UNCHANGED envOK
     \/ /\ UNCHANGED <<passed, failed>>
        /\ EnvFault
  /\ fileIdx' = fileIdx + 1
  /\ pc' = IF fileIdx < Cases[idx].files THEN "files"
           ELSE IF Verbose THEN "list" ELSE "umount"
  /\ UNCHANGED <<image, idx, mounts, umountFailed, mounted, umounts>>

CheckFile ==
  /\ pc = "files"
  /\ \/ /\ Pass
        /\ UNCHANGED envOK
     \/ /\ Fail
        /\ EnvFault
  /\ fileIdx' = fileIdx + 1
  /\ pc' = IF fileIdx < Cases[idx].files THEN "files"
           ELSE IF Verbose THEN "list" ELSE "umount"
  /\ UNCHANGED <<image, idx, mounts, umountFailed, mounted, umounts>>

CheckFileRaises ==
  /\ pc = "files"
  /\ pc' = "except"
  /\ EnvFault
  /\ UNCHANGED <<image, idx, fileIdx, passed, failed, mounts, umountFailed, mounted, umounts>>

\* With -v: find over the mount point; only a raise matters (no check).
ListFiles ==
  /\ pc = "list"
  /\ \/ pc' = "umount" /\ UNCHANGED envOK
     \/ pc' = "except" /\ EnvFault
  /\ UNCHANGED <<image, idx, fileIdx, passed, failed, mounts, umountFailed, mounted, umounts>>

\* Mutant: the except clause returns without unmounting.
ExceptNoUmount ==
  /\ pc = "except"
  /\ Fail
  /\ NextCase
  /\ UNCHANGED <<image, fileIdx, mounts, umountFailed, mounted, umounts, envOK>>

\* sudo umount with check=True: success ends the case; a non-zero return
\* (CalledProcessError) or a raise goes to the except clause.
Umount ==
  /\ pc = "umount"
  /\ umounts' = umounts + 1
  /\ \/ /\ mounts # << >>
        /\ mounts' = PopMount
        /\ NextCase
        /\ UNCHANGED <<umountFailed, envOK>>
     \/ /\ pc' = "except"
        /\ umountFailed' = umountFailed + 1
        /\ EnvFault
        /\ UNCHANGED <<idx, mounts>>
  /\ UNCHANGED <<image, fileIdx, passed, failed, mounted>>

\* The except clause: log a FAIL, then sudo umount without check.  Its
\* non-zero return is ignored; its raise escapes run_all_tests.
ExceptUmount ==
  /\ pc = "except"
  /\ Fail
  /\ umounts' = umounts + 1
  /\ \/ /\ mounts # << >>
        /\ mounts' = PopMount
        /\ NextCase
        /\ UNCHANGED <<umountFailed, envOK>>
     \/ /\ umountFailed' = umountFailed + 1
        /\ EnvFault
        /\ NextCase
        /\ UNCHANGED mounts
     \/ /\ umountFailed' = umountFailed + 1
        /\ EnvFault
        /\ pc' = "crashed"
        /\ UNCHANGED <<idx, mounts>>
  /\ UNCHANGED <<image, fileIdx, mounted>>

\* The run has ended: normally, or by an exception nothing catches.
Terminated ==
  /\ pc \in {"done", "crashed"}
  /\ UNCHANGED vars

Next ==
  \/ TestImageExists \/ TestSignature \/ TestBootSector
  \/ Mkdir \/ Mount \/ CheckFile \/ CheckFileRaises \/ ListFiles
  \/ Umount \/ ExceptUmount
  \/ Terminated

Spec == Init /\ [][Next]_vars

\* run_all_tests is one sequential process: until it returns, its next
\* statement can always run, so it is not stopped for ever (weak fairness).
FairSpec == Spec /\ WF_vars(Next)

---------------------------------------------------------------------------
\* main: sys.exit(0 if success else 1) once run_all_tests returns; an
\* exception that escapes it ends the interpreter with status 1.
ExitStatus == IF pc = "done" /\ failed = 0 THEN 0 ELSE 1

\* Where the loop of run_all_tests is, as TestRun sees it.
RunState ==
  CASE pc = "done"    -> "done"
    [] pc = "crashed" -> "aborted"
    [] OTHER          -> "running"

\* The refinement mapping: the case index and the two counters are the
\* abstract ones; every other variable is hidden.
Run == INSTANCE TestRun WITH NCases <- N, cur <- idx, state <- RunState

TypeOK ==
  /\ image \in [CaseIds -> Images]
  /\ pc \in PCs
  /\ idx \in CaseIds
  /\ fileIdx \in Nat
  /\ passed \in Nat
  /\ failed \in Nat
  /\ mounts \in Seq(CaseIds)
  /\ umountFailed \in Nat
  /\ mounted \in BOOLEAN
  /\ umounts \in Nat
  /\ envOK \in [CaseIds -> BOOLEAN]

\* An image the tester must accept: a readable file with the boot
\* signature and a boot sector valid for the case's expected kind.
ImageGood(i) ==
  /\ image[i].status = "file"
  /\ SignatureOK(image[i].data)
  /\ BootSectorPasses(image[i].data, Cases[i].fs_type)

\* When the process ends, normally or by an escaped exception, its exit
\* status is 0 exactly when every image is good and every mount, file
\* lookup and unmount of every case succeeded: no failure is lost, and no
\* success is reported as a FAIL.
VerdictReflectsImages ==
  pc \in {"done", "crashed"} =>
    ((ExitStatus = 0) <=> \A i \in CaseIds : ImageGood(i) /\ envOK[i])

\* Between test cases the shared mount point carries no more mounts than
\* there were umount calls that failed: every mount a case makes is
\* released on every path of test_mount_and_files unless an unmount
\* itself failed.
MountScoped ==
  pc \in {"exists", "done"} => Len(mounts) <= umountFailed

\* The inductive form of MountScoped: while a case may hold its own mount
\* (from the mount call to the end of the except clause) one more mount
\* is allowed.
HoldsMount == {"files", "list", "umount", "except", "crashed"}
MountBound ==
  Len(mounts) <= umountFailed + (IF pc \in HoldsMount THEN 1 ELSE 0)

\* The run ends: every case is visited once, every loop over the expected
\* files runs out, and no step waits on another, as long as every
\* external call returns.
Terminates == <>(pc \in {"done", "crashed"})

\* The statements after test_boot_sector: the image checks of the current
\* case are behind them.
ChecksDone == {"mkdir", "mount", "files", "list", "umount", "except", "done"}

\* A case whose image is bad or one of whose external calls failed.
CaseBad(i) == ~ImageGood(i) \/ ~envOK[i]

\* The inductive form of VerdictReflectsImages: every bad image of a case
\* whose checks are done, and every failed call outside a pending except
\* clause, has been logged as a FAIL; every FAIL has a bad case behind it;
\* an escaped exception leaves its case bad; the run ends at the last case.
VerdictInv ==
  /\ pc = "signature" => image[idx].status \in {"noread", "file"}
  /\ (pc = "bootsector" /\ ~(image[idx].status = "file" /\ SignatureOK(Data)))
       => failed > 0
  /\ \A i \in CaseIds :
       ((i < idx \/ (i = idx /\ pc \in ChecksDone)) /\ ~ImageGood(i)) => failed > 0
  /\ \A i \in CaseIds : ~envOK[i] => (failed > 0 \/ (pc = "except" /\ i = idx))
  /\ pc = "except" => ~envOK[idx]
  /\ failed > 0 => \E i \in CaseIds : CaseBad(i)
  /\ pc = "crashed" => CaseBad(idx)
  /\ pc = "done" => idx = N

\* run_all_tests implements TestRun: it takes the cases in order, one at
\* a time, logs at most one finding per statement, and changes nothing
\* once it has reached the summary or been ended by an exception.
ImplementsTestRun == Run!Spec

\* The specification (4.3): after a successful mount the unmount is
\* attempted exactly once, best-effort.  The code's check=True turns a
\* failed umount into an exception whose handler unmounts again.
UnmountAtMostOnce == mounted => umounts <= 1

\* The specification (7): no error ever aborts the whole run.
RunNeverAborts == pc # "crashed"
=============================================================================
