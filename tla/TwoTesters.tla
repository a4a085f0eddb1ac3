----------------------------- MODULE TwoTesters -----------------------------
(***************************************************************************)
(* Two runs of scripts/test_disk_images.py at once (two CI jobs on one    *)
(* host): each is a DiskImageTester with its own position and counters,   *)
(* and they share the image files and the one mount point                 *)
(* /tmp/test_mount_kernel that test_mount_and_files hard-codes.  A step   *)
(* is a step of one run; the kernel's mount stack is the only state both  *)
(* runs change.                                                           *)
(***************************************************************************)
EXTENDS Sequences

CONSTANTS Cases, Contents, Verbose

VARIABLES
  image, mounts,
  pc1, idx1, fileIdx1, passed1, failed1, umountFailed1, mounted1, umounts1, envOK1,
  pc2, idx2, fileIdx2, passed2, failed2, umountFailed2, mounted2, umounts2, envOK2

vars1 == <<pc1, idx1, fileIdx1, passed1, failed1, umountFailed1, mounted1, umounts1, envOK1>>
vars2 == <<pc2, idx2, fileIdx2, passed2, failed2, umountFailed2, mounted2, umounts2, envOK2>>
vars == <<image, mounts, vars1, vars2>>

R1 == INSTANCE DiskImageTester
        WITH pc <- pc1, idx <- idx1, fileIdx <- fileIdx1, passed <- passed1,
             failed <- failed1, umountFailed <- umountFailed1,
             mounted <- mounted1, umounts <- umounts1, envOK <- envOK1

R2 == INSTANCE DiskImageTester
        WITH pc <- pc2, idx <- idx2, fileIdx <- fileIdx2, passed <- passed2,
             failed <- failed2, umountFailed <- umountFailed2,
             mounted <- mounted2, umounts <- umounts2, envOK <- envOK2

\* Both runs start on the same image files with nothing mounted.
Init == R1!Init /\ R2!Init

\* The operating system runs one of the two processes; each mounts on,
\* and unmounts from, the same directory.
Next ==
  \/ R1!Next /\ UNCHANGED vars2
  \/ R2!Next /\ UNCHANGED vars1

Spec == Init /\ [][Next]_vars

---------------------------------------------------------------------------
\* A run looking up its expected files looks at the image it mounted: the
\* topmost mount on the mount point is its current case's image.
OwnTop(p, i) == p = "files" => mounts # << >> /\ mounts[Len(mounts)] = i

\* The specification (4.3) forbids concurrent acquisition of the shared
\* mount point: the files a run checks are those of the image it mounted.
\* With two runs, one can mount on top of the other's mount, or unmount
\* it, between the other's mount call and its file lookups.
FilesSeeOwnImage == OwnTop(pc1, idx1) /\ OwnTop(pc2, idx2)
=============================================================================
