------------------------ MODULE DiskImageTesterProofs ------------------------
(***************************************************************************)
(* Proofs about DiskImageTester for every list of test cases, every set   *)
(* of image contents and either value of the verbose flag.                *)
(***************************************************************************)
EXTENDS DiskImageTester, SequenceTheorems, TLAPS

\* The for loop's step keeps the case index within the test cases.
LEMMA NextCaseType ==
  ASSUME TypeOK, NextCase
  PROVE  idx' \in CaseIds /\ pc' \in PCs
  BY CasesAssumption DEF NextCase, TypeOK, CaseIds, N, PCs

\* A prefix of a sequence is a sequence over the same set, of the length
\* asked for.
LEMMA SeqPrefix ==
  ASSUME NEW S, NEW s \in Seq(S), NEW k \in 0..Len(s)
  PROVE  SubSeq(s, 1, k) \in Seq(S) /\ Len(SubSeq(s, 1, k)) = k
<1>1. \A i \in 1..k : s[i] \in S
  OBVIOUS
<1>2. QED
  BY <1>1, SubSeqProperties

\* Removing the top mount leaves a sequence of case indices one shorter.
LEMMA PopMountType ==
  ASSUME TypeOK, mounts # << >>
  PROVE  /\ PopMount \in Seq(CaseIds)
         /\ Len(PopMount) = Len(mounts) - 1
<1>1. mounts \in Seq(CaseIds) /\ Len(mounts) - 1 \in 0..Len(mounts)
  BY DEF TypeOK
<1>2. QED
  BY <1>1, SeqPrefix DEF PopMount

\* The initial state is well typed.
LEMMA TypeInit == Init => TypeOK
<1> SUFFICES ASSUME Init PROVE TypeOK
  OBVIOUS
<1>1. idx \in CaseIds
  BY CasesAssumption DEF Init, CaseIds, N
<1>2. pc \in PCs /\ mounts \in Seq(CaseIds) /\ envOK \in [CaseIds -> BOOLEAN]
  BY DEF Init, PCs
<1>3. QED
  BY <1>1, <1>2 DEF Init, TypeOK

\* Every step keeps the state well typed.
LEMMA TypeStep == TypeOK /\ [Next]_vars => TypeOK'
<1> SUFFICES ASSUME TypeOK, [Next]_vars PROVE TypeOK'
  OBVIOUS
<1>1. CASE TestImageExists
  BY <1>1, NextCaseType DEF TestImageExists, Pass, Fail, TypeOK, PCs
<1>2. CASE TestSignature
  BY <1>2 DEF TestSignature, Pass, Fail, TypeOK, PCs
<1>3. CASE TestBootSector
  BY <1>3 DEF TestBootSector, Pass, Fail, TypeOK, PCs
<1>4. CASE Mkdir
  BY <1>4 DEF Mkdir, EnvFault, TypeOK, PCs
<1>5. CASE Mount
  <2>1. Append(mounts, idx) \in Seq(CaseIds)
    BY DEF TypeOK
  <2>2. CASE /\ mounts' = Append(mounts, idx)
             /\ mounted' = TRUE
             /\ Pass
             /\ fileIdx' = 1
             /\ pc' = IF Cases[idx].files > 0 THEN "files"
                      ELSE IF Verbose THEN "list" ELSE "umount"
             /\ UNCHANGED <<idx, umounts, envOK>>
    BY <1>5, <2>1, <2>2 DEF Mount, Pass, TypeOK, PCs
  <2>3. CASE Fail /\ EnvFault /\ NextCase /\ UNCHANGED <<mounts, fileIdx, mounted, umounts>>
    BY <1>5, <2>3, NextCaseType DEF Mount, Fail, EnvFault, TypeOK
  <2>4. CASE /\ pc' = "except"
             /\ EnvFault
             /\ UNCHANGED <<idx, passed, failed, mounts, fileIdx, mounted, umounts>>
    BY <1>5, <2>4 DEF Mount, EnvFault, TypeOK, PCs
  <2>5. QED
    BY <1>5, <2>2, <2>3, <2>4 DEF Mount
<1>6. CASE CheckFile
  <2>1. pc' \in PCs
    BY <1>6 DEF CheckFile, PCs
  <2>2. fileIdx' \in Nat
    BY <1>6 DEF CheckFile, TypeOK
  <2>3. CASE Pass /\ UNCHANGED envOK
    BY <1>6, <2>1, <2>2, <2>3 DEF CheckFile, Pass, TypeOK
  <2>4. CASE Fail /\ EnvFault
    BY <1>6, <2>1, <2>2, <2>4 DEF CheckFile, Fail, EnvFault, TypeOK
  <2>5. QED
    BY <1>6, <2>3, <2>4 DEF CheckFile
<1>7. CASE CheckFileRaises
  BY <1>7 DEF CheckFileRaises, EnvFault, TypeOK, PCs
<1>8. CASE ListFiles
  BY <1>8 DEF ListFiles, EnvFault, TypeOK, PCs
<1>9. CASE Umount
  <2>1. CASE /\ mounts # << >>
             /\ mounts' = PopMount
             /\ NextCase
             /\ UNCHANGED <<umountFailed, envOK>>
    BY <1>9, <2>1, NextCaseType, PopMountType DEF Umount, TypeOK
  <2>2. CASE /\ pc' = "except"
             /\ umountFailed' = umountFailed + 1
             /\ EnvFault
             /\ UNCHANGED <<idx, mounts>>
    BY <1>9, <2>2 DEF Umount, EnvFault, TypeOK, PCs
  <2>3. QED
    BY <1>9, <2>1, <2>2 DEF Umount
<1>10. CASE ExceptUmount
  <2>1. CASE /\ mounts # << >>
             /\ mounts' = PopMount
             /\ NextCase
             /\ UNCHANGED <<umountFailed, envOK>>
    BY <1>10, <2>1, NextCaseType, PopMountType DEF ExceptUmount, Fail, TypeOK
  <2>2. CASE /\ umountFailed' = umountFailed + 1
             /\ EnvFault
             /\ NextCase
             /\ UNCHANGED mounts
    BY <1>10, <2>2, NextCaseType DEF ExceptUmount, Fail, EnvFault, TypeOK
  <2>3. CASE /\ umountFailed' = umountFailed + 1
             /\ EnvFault
             /\ pc' = "crashed"
             /\ UNCHANGED <<idx, mounts>>
    BY <1>10, <2>3 DEF ExceptUmount, Fail, EnvFault, TypeOK, PCs
  <2>4. QED
    BY <1>10, <2>1, <2>2, <2>3 DEF ExceptUmount
<1>11. CASE Terminated
  BY <1>11 DEF Terminated, vars, TypeOK
<1>12. CASE UNCHANGED vars
  BY <1>12 DEF vars, TypeOK
<1>13. QED
  BY <1>1, <1>2, <1>3, <1>4, <1>5, <1>6, <1>7, <1>8, <1>9, <1>10,
     <1>11, <1>12 DEF Next

\* Every state of the run is well typed: the case index stays a case, the
\* counters are natural numbers, and the mount point holds a stack of
\* case indices.
THEOREM TypeCorrect == Spec => []TypeOK
  BY TypeInit, TypeStep, PTL DEF Spec
---------------------------------------------------------------------------
\* The for loop's step starts a case or ends the run; in neither place
\* does the runner hold a mount of its own.
LEMMA NextCaseReleases ==
  ASSUME NextCase
  PROVE  pc' \in {"exists", "done"} /\ pc' \notin HoldsMount
  BY DEF NextCase, HoldsMount

\* The inductive invariant behind MountScoped.
IInv == TypeOK /\ MountBound

\* Every step keeps the bound on leftover mounts: a mount is pushed only
\* on the way into the part of test_mount_and_files that holds it, and
\* that part is left either through an umount that pops it or through
\* an umount whose failure is counted.
LEMMA MountBoundStep == IInv /\ [Next]_vars => MountBound'
<1> SUFFICES ASSUME TypeOK, MountBound, [Next]_vars PROVE MountBound'
  BY DEF IInv
<1>1. Len(mounts) \in Nat /\ umountFailed \in Nat
  BY DEF TypeOK
<1>2. CASE TestImageExists
  BY <1>1, <1>2 DEF TestImageExists, MountBound, HoldsMount
<1>3. CASE TestSignature \/ TestBootSector \/ Mkdir
  BY <1>1, <1>3 DEF TestSignature, TestBootSector, Mkdir, MountBound, HoldsMount
<1>4. CASE Mount
  <2>1. CASE /\ mounts' = Append(mounts, idx)
             /\ pc' = IF Cases[idx].files > 0 THEN "files"
                      ELSE IF Verbose THEN "list" ELSE "umount"
    <3>1. Len(mounts') = Len(mounts) + 1 /\ pc' \in HoldsMount
      BY <2>1 DEF TypeOK, HoldsMount
    <3>2. QED
      BY <1>1, <1>4, <3>1 DEF Mount, MountBound, HoldsMount
  <2>2. CASE NextCase /\ UNCHANGED mounts
    BY <1>1, <1>4, <2>2, NextCaseReleases DEF Mount, MountBound, HoldsMount
  <2>3. CASE pc' = "except" /\ UNCHANGED mounts
    BY <1>1, <1>4, <2>3 DEF Mount, MountBound, HoldsMount
  <2>4. QED
    BY <1>4, <2>1, <2>2, <2>3 DEF Mount
<1>5. CASE CheckFile \/ CheckFileRaises \/ ListFiles
  <2>1. pc \in HoldsMount /\ pc' \in HoldsMount
    BY <1>5 DEF CheckFile, CheckFileRaises, ListFiles, HoldsMount
  <2>2. UNCHANGED <<mounts, umountFailed>>
    BY <1>5 DEF CheckFile, CheckFileRaises, ListFiles
  <2>3. QED
    BY <2>1, <2>2 DEF MountBound
<1>6. CASE Umount
  <2>1. pc \in HoldsMount
    BY <1>6 DEF Umount, HoldsMount
  <2>2. CASE mounts # << >> /\ mounts' = PopMount /\ NextCase
             /\ UNCHANGED umountFailed
    BY <1>1, <2>1, <2>2, PopMountType, NextCaseReleases DEF MountBound
  <2>3. CASE pc' = "except" /\ umountFailed' = umountFailed + 1
             /\ UNCHANGED mounts
    BY <1>1, <2>1, <2>3 DEF MountBound, HoldsMount
  <2>4. QED
    BY <1>6, <2>2, <2>3 DEF Umount
<1>7. CASE ExceptUmount
  <2>1. pc \in HoldsMount
    BY <1>7 DEF ExceptUmount, HoldsMount
  <2>2. CASE mounts # << >> /\ mounts' = PopMount /\ NextCase
             /\ UNCHANGED umountFailed
    BY <1>1, <2>1, <2>2, PopMountType, NextCaseReleases DEF MountBound
  <2>3. CASE umountFailed' = umountFailed + 1 /\ NextCase /\ UNCHANGED mounts
    BY <1>1, <2>1, <2>3, NextCaseReleases DEF MountBound
  <2>4. CASE umountFailed' = umountFailed + 1 /\ pc' = "crashed"
             /\ UNCHANGED mounts
    BY <1>1, <2>1, <2>4 DEF MountBound, HoldsMount
  <2>5. QED
    BY <1>7, <2>2, <2>3, <2>4 DEF ExceptUmount
<1>8. CASE Terminated \/ UNCHANGED vars
  BY <1>8 DEF Terminated, vars, MountBound
<1>9. QED
  BY <1>2, <1>3, <1>4, <1>5, <1>6, <1>7, <1>8 DEF Next

\* Between two test cases, and when the run ends normally, the shared
\* mount point holds at most as many mounts as there were failed umount
\* calls: test_mount_and_files releases its mount on every path unless an
\* unmount itself fails.  For every list of test cases.
THEOREM MountScopedHolds == Spec => []MountScoped
<1>1. Init => IInv
  BY TypeInit DEF Init, IInv, MountBound
<1>2. IInv /\ [Next]_vars => IInv'
  BY TypeStep, MountBoundStep DEF IInv
<1>3. IInv => MountScoped
  BY DEF IInv, MountBound, MountScoped, TypeOK, HoldsMount
<1>4. QED
  BY <1>1, <1>2, <1>3, PTL DEF Spec
---------------------------------------------------------------------------
(***************************************************************************)
(* Refinement: DiskImageTester implements TestRun under the mapping Run.  *)
(***************************************************************************)

\* log(..., 'PASS'), log(..., 'FAIL') and a step without a finding are
\* abstract Record steps.
LEMMA RecordCases ==
  ASSUME passed \in Nat, failed \in Nat,
         Pass \/ Fail \/ UNCHANGED <<passed, failed>>
  PROVE  Run!Record
  BY DEF Pass, Fail, Run!Record

\* A step that stays inside the loop body leaves the abstract position.
LEMMA StayMove ==
  ASSUME pc \notin {"done", "crashed"}, pc' \notin {"done", "crashed"},
         UNCHANGED idx
  PROVE  Run!Move /\ RunState = "running"
  BY DEF Run!Move, RunState

\* The loop's step moves on to the next case or, after the last, to the
\* summary.
LEMMA NextCaseMove ==
  ASSUME TypeOK, pc \notin {"done", "crashed"}, NextCase
  PROVE  Run!Move /\ RunState = "running"
  BY CasesAssumption DEF NextCase, Run!Move, RunState, TypeOK, CaseIds, N

\* An exception that nothing catches is an abstract abort.
LEMMA CrashMove ==
  ASSUME pc \notin {"done", "crashed"}, pc' = "crashed", UNCHANGED idx
  PROVE  Run!Move /\ RunState = "running"
  BY DEF Run!Move, RunState

\* The mapped initial state is TestRun's.
LEMMA RunInit == Init => Run!Init
  BY DEF Init, Run!Init, RunState

\* Every step of the runner is a TestRun step or leaves the mapped state
\* unchanged.
LEMMA RunStep == TypeOK /\ [Next]_vars => [Run!Step]_Run!vars
<1> SUFFICES ASSUME TypeOK, [Next]_vars PROVE [Run!Step]_Run!vars
  OBVIOUS
<1>1. passed \in Nat /\ failed \in Nat
  BY DEF TypeOK
<1>2. CASE TestImageExists
  <2>1. CASE image[idx].status \in {"missing", "dir", "empty"} /\ Fail /\ NextCase
    BY <1>1, <1>2, <2>1, RecordCases, NextCaseMove DEF TestImageExists, Run!Step
  <2>2. CASE pc' = "crashed" /\ UNCHANGED <<idx, passed, failed>>
    BY <1>1, <1>2, <2>2, RecordCases, CrashMove DEF TestImageExists, Run!Step
  <2>3. CASE pc' = "signature" /\ Pass /\ UNCHANGED idx
    BY <1>1, <1>2, <2>3, RecordCases, StayMove DEF TestImageExists, Run!Step
  <2>4. QED
    BY <1>2, <2>1, <2>2, <2>3 DEF TestImageExists
<1>3. CASE TestSignature \/ TestBootSector
  <2>1. (Pass \/ Fail) /\ UNCHANGED idx /\ pc \notin {"done", "crashed"}
        /\ pc' \notin {"done", "crashed"}
    BY <1>3 DEF TestSignature, TestBootSector
  <2>2. QED
    BY <1>1, <2>1, RecordCases, StayMove DEF Run!Step
<1>4. CASE Mkdir \/ CheckFileRaises \/ ListFiles
  <2>1. UNCHANGED <<idx, passed, failed>> /\ pc \notin {"done", "crashed"}
        /\ pc' \notin {"done", "crashed"}
    BY <1>4 DEF Mkdir, CheckFileRaises, ListFiles
  <2>2. QED
    BY <1>1, <2>1, RecordCases, StayMove DEF Run!Step
<1>5. CASE CheckFile
  <2>1. (Pass \/ Fail) /\ UNCHANGED idx /\ pc \notin {"done", "crashed"}
        /\ pc' \notin {"done", "crashed"}
    BY <1>5 DEF CheckFile
  <2>2. QED
    BY <1>1, <2>1, RecordCases, StayMove DEF Run!Step
<1>6. CASE Mount
  <2>1. pc = "mount"
    BY <1>6 DEF Mount
  <2>2. CASE Pass /\ UNCHANGED idx
             /\ pc' = IF Cases[idx].files > 0 THEN "files"
                      ELSE IF Verbose THEN "list" ELSE "umount"
    BY <1>1, <2>1, <2>2, RecordCases, StayMove DEF Run!Step
  <2>3. CASE Fail /\ NextCase
    BY <1>1, <2>1, <2>3, RecordCases, NextCaseMove DEF Run!Step
  <2>4. CASE pc' = "except" /\ UNCHANGED <<idx, passed, failed>>
    BY <1>1, <2>1, <2>4, RecordCases, StayMove DEF Run!Step
  <2>5. QED
    BY <1>6, <2>2, <2>3, <2>4 DEF Mount
<1>7. CASE Umount
  <2>1. pc = "umount" /\ UNCHANGED <<passed, failed>>
    BY <1>7 DEF Umount
  <2>2. CASE NextCase
    BY <1>1, <2>1, <2>2, RecordCases, NextCaseMove DEF Run!Step
  <2>3. CASE pc' = "except" /\ UNCHANGED idx
    BY <1>1, <2>1, <2>3, RecordCases, StayMove DEF Run!Step
  <2>4. QED
    BY <1>7, <2>2, <2>3 DEF Umount
<1>8. CASE ExceptUmount
  <2>1. pc = "except" /\ Fail
    BY <1>8 DEF ExceptUmount
  <2>2. CASE NextCase
    BY <1>1, <2>1, <2>2, RecordCases, NextCaseMove DEF Run!Step
  <2>3. CASE pc' = "crashed" /\ UNCHANGED idx
    BY <1>1, <2>1, <2>3, RecordCases, CrashMove DEF Run!Step
  <2>4. QED
    BY <1>8, <2>2, <2>3 DEF ExceptUmount
<1>9. CASE Terminated \/ UNCHANGED vars
  BY <1>9 DEF Terminated, vars, Run!vars, RunState
<1>10. QED
  BY <1>2, <1>3, <1>4, <1>5, <1>6, <1>7, <1>8, <1>9 DEF Next

\* run_all_tests implements TestRun for every list of test cases: it runs
\* the cases in order without skipping or revisiting one, logs at most
\* one finding per statement, and changes nothing after the summary or an
\* escaped exception.
THEOREM Refinement == Spec => ImplementsTestRun
<1>1. Init => Run!Init
  BY RunInit
<1>2. TypeOK /\ [Next]_vars => [Run!Step]_Run!vars
  BY RunStep
<1>3. QED
  BY <1>1, <1>2, TypeCorrect, PTL DEF Spec, ImplementsTestRun, Run!Spec
---------------------------------------------------------------------------
(***************************************************************************)
(* The verdict.  SignatureOK and BootSectorPasses, the decoder's outcome  *)
(* on an image, are never expanded: the argument holds whatever they      *)
(* compute.                                                               *)
(***************************************************************************)

\* No step of the runner changes the image files.
LEMMA ImageUnchanged == [Next]_vars => UNCHANGED image
  BY DEF Next, vars, TestImageExists, TestSignature, TestBootSector, Mkdir,
         Mount, CheckFile, CheckFileRaises, ListFiles, Umount, ExceptUmount,
         Terminated

\* Whether an image is good depends on the image files alone.
LEMMA ImageGoodStable ==
  ASSUME UNCHANGED image, NEW i \in CaseIds
  PROVE  ImageGood(i)' <=> ImageGood(i)
  BY DEF ImageGood

\* The inductive invariant behind VerdictReflectsImages.
VInv == TypeOK /\ VerdictInv

\* The initial state: nothing is bad yet and nothing has failed.
LEMMA VerdictInit == Init => VerdictInv
  BY CasesAssumption DEF Init, VerdictInv, ChecksDone, CaseIds, N

\* Every step keeps VerdictInv.
LEMMA VerdictStep == VInv /\ [Next]_vars => VerdictInv'
<1> SUFFICES ASSUME TypeOK, VerdictInv, [Next]_vars PROVE VerdictInv'
  BY DEF VInv
<1>1. UNCHANGED image
  BY ImageUnchanged
<1>2. \A i \in CaseIds : ImageGood(i)' <=> ImageGood(i)
  BY <1>1, ImageGoodStable
<1>3. failed \in Nat /\ idx \in CaseIds /\ envOK \in [CaseIds -> BOOLEAN]
  BY DEF TypeOK
<1>4. CASE TestImageExists
  BY <1>1, <1>2, <1>3, <1>4, CasesAssumption
  DEF TestImageExists, VerdictInv, ChecksDone, CaseBad, ImageGood, Pass, Fail, NextCase, CaseIds, N
<1>5. CASE TestSignature
  BY <1>1, <1>2, <1>3, <1>5
  DEF TestSignature, VerdictInv, ChecksDone, CaseBad, ImageGood, Pass, Fail, Data
<1>6. CASE TestBootSector
  BY <1>1, <1>2, <1>3, <1>6
  DEF TestBootSector, VerdictInv, ChecksDone, CaseBad, ImageGood, Pass, Fail, Data, Kind
<1>7. CASE Mkdir
  BY <1>1, <1>2, <1>3, <1>7 DEF Mkdir, VerdictInv, ChecksDone, CaseBad, EnvFault
<1>8. CASE Mount
  BY <1>1, <1>2, <1>3, <1>8, CasesAssumption
  DEF Mount, VerdictInv, ChecksDone, CaseBad, Pass, Fail, EnvFault, NextCase, CaseIds, N
<1>9. CASE CheckFile
  BY <1>1, <1>2, <1>3, <1>9 DEF CheckFile, VerdictInv, ChecksDone, CaseBad, Pass, Fail, EnvFault
<1>10. CASE CheckFileRaises \/ ListFiles
  BY <1>1, <1>2, <1>3, <1>10
  DEF CheckFileRaises, ListFiles, VerdictInv, ChecksDone, CaseBad, EnvFault
<1>11. CASE Umount
  <2>1. pc = "umount" /\ UNCHANGED <<failed, image>>
    BY <1>11 DEF Umount
  <2>2. CASE NextCase /\ UNCHANGED envOK
    BY <1>2, <1>3, <2>1, <2>2, CasesAssumption
    DEF VerdictInv, ChecksDone, CaseBad, NextCase, CaseIds, N
  <2>3. CASE pc' = "except" /\ EnvFault /\ UNCHANGED idx
    BY <1>2, <1>3, <2>1, <2>3 DEF VerdictInv, ChecksDone, CaseBad, EnvFault
  <2>4. QED
    BY <1>11, <2>2, <2>3 DEF Umount
<1>12. CASE ExceptUmount
  BY <1>1, <1>2, <1>3, <1>12, CasesAssumption
  DEF ExceptUmount, VerdictInv, ChecksDone, CaseBad, Fail, EnvFault, NextCase, CaseIds, N
<1>13. CASE Terminated \/ UNCHANGED vars
  <2>1. UNCHANGED <<pc, idx, failed, envOK, image>>
    BY <1>13 DEF Terminated, vars
  <2>2. QED
    BY <1>2, <1>3, <2>1 DEF VerdictInv, CaseBad, Data
<1>14. QED
  BY <1>4, <1>5, <1>6, <1>7, <1>8, <1>9, <1>10, <1>11, <1>12, <1>13 DEF Next

\* When the process ends, normally or by an escaped exception, its exit
\* status is 0 exactly when every image is good and every external call
\* succeeded, for every list of test cases and whatever the decoder makes
\* of the images.
THEOREM VerdictCorrect == Spec => []VerdictReflectsImages
<1>1. Init => VInv
  BY TypeInit, VerdictInit DEF VInv
<1>2. VInv /\ [Next]_vars => VInv'
  BY TypeStep, VerdictStep DEF VInv
<1>3. VInv => VerdictReflectsImages
  BY DEF VInv, VerdictInv, VerdictReflectsImages, ExitStatus, CaseBad, ChecksDone,
         TypeOK, CaseIds
<1>4. QED
  BY <1>1, <1>2, <1>3, PTL DEF Spec
=============================================================================
