------------------------------ MODULE GpuProofs ------------------------------
(***************************************************************************)
(* Proofs about the driver of the GPU, from init to the screen: first the  *)
(* script that stages it, for every driver, phone and ramdisk, for every   *)
(* number of tries and every set of faults; then the renderer that uses    *)
(* it, for any threads, surfaces, images and textures.  The two share no   *)
(* state, and neither proof uses the other.                                *)
(***************************************************************************)
EXTENDS Staging, GpuRenderer, FiniteSetTheorems, TLAPS

-----------------------------------------------------------------------------
(***************************************************************************)
(* The inductive invariant.                                                *)
(***************************************************************************)
Working == {"attach", "create", "mapped", "mount", "mounted", "firmware", "load", "roots",
            "copy", "copied", "wanted"}
Ending  == {"failing", "release", "over"}

\* How the script ends is known once it ends, and what it then has let go.
ResultInv ==
    /\ sh.pc \in Working => result = "none"
    /\ sh.pc = "stuck" => result # "killed"
    /\ sh.pc = "failing" => result = "failed"
    /\ sh.pc = "release" => result \in {"staged", "failed"}
    /\ sh.pc = "over" => result # "none"
    /\ sh.pc \in {"release", "over"} /\ result = "failed" => lists.staged = {}
    /\ result = "killed" => sh.pc = "over" /\ timer # "armed"

\* What is there and in no list, so that the script would not let it go.
LooseMaps   == dm \ lists.maps
LooseMounts == mnt \ lists.mounts
LooseFiles  == Left \ lists.staged

OneLoose ==
    \/ LooseFiles = {} /\ \E p \in PartSet : LooseMaps \cup LooseMounts \subseteq {p}
    \/ LooseMaps = {} /\ LooseMounts = {} /\ \E f \in Files : LooseFiles \subseteq {f}

\* Only what the last command made is in no list.
LooseInv ==
    /\ sh.pc \in Working =>
         /\ LooseMaps \subseteq IF sh.pc = "mapped" THEN {Part} ELSE {}
         /\ LooseMounts \subseteq IF sh.pc = "mounted" THEN {Part} ELSE {}
         /\ LooseFiles \subseteq IF sh.pc = "copied" THEN {sh.item} ELSE {}
    /\ sh.pc \in {"create", "mapped", "mount", "mounted"} => sh.part \in DOMAIN Partitions
    /\ sh.pc \in Ending /\ result # "killed" =>
         /\ OneLoose
         /\ timer = "armed" \/ result = "staged" => LooseMaps = {} /\ LooseMounts = {}
         /\ timer = "armed" /\ "partialCopy" \notin StagingFaults => LooseFiles = {}

\* What was wanted so far: the roots that the script has passed and not skipped, and
\* what it has seen in a NEEDED entry.
Passed == {Roots[i] : i \in 1 .. sh.root - 1} \ (Optional \ phone)
Driver == Passed \cup sh.seen

\* An item on its way into the queue.
Wanting == sh.pc = "wanted" \/ (sh.pc \in {"copy", "copied"} /\ sh.back = "wanted")

Queued(l) == \E i \in DOMAIN sh.queue : sh.queue[i] = l

\* What was wanted is there, or is being copied; nothing else is.
FilesInv ==
    /\ \A f \in Files : files[f] # "partial"
    /\ \A l \in Driver : files[l] = "whole" \/ (sh.pc = "copy" /\ sh.item = l)
    /\ Left \subseteq Driver \cup {Firmware}
    /\ Wanting => sh.item \in Driver
    /\ sh.pc \in {"copy", "copied"} /\ sh.back # "wanted" => sh.item = Firmware /\ sh.back = "load"
    /\ sh.pc = "copied" => files[sh.item] = "whole"

\* What it needs was wanted too, or will be: it is in the queue, or is being scanned.
ScanInv ==
    /\ \A l \in Driver :
         \/ Queued(l)
         \/ Wanting /\ l = sh.item
         \/ Needs[l] \subseteq sh.seen \cup Shared \cup sh.pending
    /\ sh.pc \in {"release", "over"} =>
         sh.root \notin DOMAIN Roots /\ sh.queue = <<>> /\ sh.pending = {}

\* The module is loaded, with its firmware, before the first library is wanted.
ModuleInv ==
    /\ sh.pc \in {"load", "roots", "release", "over"} \/ Wanting => files[Firmware] = "whole"
    /\ sh.pc \in {"roots", "release", "over"} \/ Wanting => module

DriverInv == result \in {"none", "staged"} /\ sh.pc # "stuck" => FilesInv /\ ScanInv /\ ModuleInv

StagingInv == StagingTypeOK /\ ResultInv /\ LooseInv /\ DriverInv

-----------------------------------------------------------------------------
(***************************************************************************)
(* Constants.                                                              *)
(***************************************************************************)
LEMMA PartitionTypes ==
    /\ DOMAIN Partitions = 1 .. 3
    /\ \A i \in DOMAIN Partitions : Partitions[i] \in PartSet
<1>1. DOMAIN Partitions = 1 .. 3
  BY DEF Partitions
<1> QED
  BY <1>1 DEF PartSet

LEMMA ConstantTypes ==
    /\ Len(Roots) \in Nat \ {0} /\ DOMAIN Roots = 1 .. Len(Roots)
    /\ \A i \in DOMAIN Roots : Roots[i] \in Libs
    /\ \A l \in Libs : Needs[l] \subseteq Libs \cup Shared
    /\ Libs \subseteq Files /\ Firmware \in Files
    /\ Tries \in Nat \ {0}
<1>1. Roots \in Seq(Libs) /\ Roots # <<>>
  BY StagingAssumption
<1>2. Len(Roots) \in Nat \ {0} /\ DOMAIN Roots = 1 .. Len(Roots)
  BY <1>1
<1> QED
  BY <1>1, <1>2, StagingAssumption DEF Files

-----------------------------------------------------------------------------
(***************************************************************************)
(* Type correctness.                                                       *)
(***************************************************************************)
LEMMA InitType == InitStaging => StagingTypeOK
<1> SUFFICES ASSUME InitStaging PROVE StagingTypeOK
  OBVIOUS
<1>1. sh \in Shells
  <2>1. <<>> \in Seq(Libs)
    OBVIOUS
  <2>2. 1 \in 1 .. Len(Roots) + 1 /\ 0 \in 0 .. Tries
    BY ConstantTypes
  <2> QED
    BY <2>1, <2>2, ConstantTypes DEF InitStaging, Shells, Points
<1>2. lists \in Lists
  BY DEF InitStaging, Lists
<1> QED
  BY <1>1, <1>2 DEF InitStaging, StagingTypeOK

LEMMA GotoType ==
    ASSUME sh \in Shells, NEW pc \in Points, sh' = [sh EXCEPT !.pc = pc]
    PROVE  /\ sh' \in Shells /\ sh'.pc = pc
           /\ sh'.back = sh.back /\ sh'.part = sh.part /\ sh'.item = sh.item /\ sh'.root = sh.root
           /\ sh'.queue = sh.queue /\ sh'.pending = sh.pending /\ sh'.seen = sh.seen
           /\ sh'.mounts = sh.mounts /\ sh'.maps = sh.maps
  BY DEF Shells

LEMMA ReleaseType ==
    ASSUME sh \in Shells, lists \in Lists, Release
    PROVE  /\ sh' \in Shells /\ sh'.pc = "release"
           /\ sh'.mounts = lists.mounts /\ sh'.maps = lists.maps
           /\ sh'.back = sh.back /\ sh'.item = sh.item /\ sh'.root = sh.root
           /\ sh'.queue = sh.queue /\ sh'.pending = sh.pending /\ sh'.seen = sh.seen
  BY DEF Release, Shells, Lists, Points

-----------------------------------------------------------------------------
(***************************************************************************)
(* What leaves the three parts of the invariant alone.                     *)
(***************************************************************************)
\* Nothing was made, and nothing was about to be recorded.
Plain == Working \ {"mapped", "mounted", "copied"}

LEMMA LooseKept ==
    ASSUME LooseInv, UNCHANGED system, UNCHANGED lists, sh.pc \in Plain, sh'.pc \in Plain,
           sh'.pc \in {"create", "mount"} => sh'.part \in DOMAIN Partitions
    PROVE  LooseInv'
<1>1. LooseMaps' = LooseMaps /\ LooseMounts' = LooseMounts /\ LooseFiles' = LooseFiles
  BY DEF LooseMaps, LooseMounts, LooseFiles, Left, system
<1>2. LooseMaps = {} /\ LooseMounts = {} /\ LooseFiles = {}
  BY DEF LooseInv, Plain, Working
<1> QED
  BY <1>1, <1>2 DEF LooseInv, Plain, Working, Ending

\* A command that made nothing fails.
LEMMA LooseFails ==
    ASSUME LooseInv, UNCHANGED system, UNCHANGED lists, sh.pc \in Plain, sh'.pc = "failing"
    PROVE  LooseInv'
<1>1. LooseMaps' = {} /\ LooseMounts' = {} /\ LooseFiles' = {}
  BY DEF LooseInv, Plain, Working, LooseMaps, LooseMounts, LooseFiles, Left, system
<1>2. "vendor" \in PartSet
  BY PartitionTypes DEF Partitions, PartSet
<1>3. OneLoose'
  BY <1>1, <1>2 DEF OneLoose
<1> QED
  BY <1>1, <1>3 DEF LooseInv, Working, Ending

\* A command hangs.
LEMMA LooseHangs == ASSUME sh'.pc = "stuck" PROVE LooseInv' /\ DriverInv'
  BY DEF LooseInv, DriverInv, Working, Ending

\* The driver's part of the invariant is about these variables only.
LEMMA DriverKept ==
    ASSUME DriverInv, UNCHANGED <<phone, files, module>>,
           result' \in {"none", "staged"} => result \in {"none", "staged"},
           sh'.root = sh.root, sh'.queue = sh.queue, sh'.pending = sh.pending, sh'.seen = sh.seen,
           sh.pc \notin {"copy", "copied", "wanted", "stuck"},
           sh'.pc \notin {"copy", "copied", "wanted"},
           sh'.pc \in {"load", "roots"} => sh.pc = sh'.pc,
           sh'.pc \in {"release", "over"} =>
             sh.pc \in {"release", "over"} \/ result' = "failed" \/ result' = "killed"
    PROVE  DriverInv'
<1> SUFFICES ASSUME result' \in {"none", "staged"}, sh'.pc # "stuck"
             PROVE  FilesInv' /\ ScanInv' /\ ModuleInv'
  BY DEF DriverInv
<1>0. FilesInv /\ ScanInv /\ ModuleInv
  BY DEF DriverInv
<1>1. Driver' = Driver /\ Left' = Left /\ ~Wanting /\ ~Wanting'
  BY DEF Driver, Passed, Left, Wanting
<1>2. FilesInv'
  BY <1>0, <1>1 DEF FilesInv
<1>3. ScanInv'
  BY <1>0, <1>1 DEF ScanInv, Queued
<1>4. ModuleInv'
  BY <1>0, <1>1 DEF ModuleInv
<1> QED
  BY <1>2, <1>3, <1>4

LEMMA DriverFails == ASSUME result' \in {"failed", "killed"} PROVE DriverInv'
  BY DEF DriverInv

LEMMA DriverEnding == sh.pc = "failing" /\ ResultInv /\ result' = result => DriverInv'
  BY DEF DriverInv, ResultInv

-----------------------------------------------------------------------------
(***************************************************************************)
(* attach.                                                                 *)
(***************************************************************************)
LEMMA FailsKeeps ==
    ASSUME StagingInv, Fails, UNCHANGED <<phone, lists>>, timer' \in {"armed", "term", "trapped"}, LooseInv',
           sh.pc \notin {"stuck", "over"},
           dm' \subseteq PartSet, mnt' \subseteq PartSet, module' \in BOOLEAN,
           files' \in [Files -> {"none", "partial", "whole"}]
    PROVE  StagingInv'
<1>1. sh' \in Shells /\ sh'.pc = "failing" /\ result' = "failed"
  BY GotoType DEF Fails, Points, StagingInv, StagingTypeOK
<1>2. StagingTypeOK'
  BY <1>1 DEF StagingInv, StagingTypeOK
<1>3. ResultInv'
  BY <1>1 DEF ResultInv, Working
<1> QED
  BY <1>1, <1>2, <1>3, DriverFails DEF StagingInv

LEMMA HangsKeeps ==
    ASSUME StagingInv, Hangs, UNCHANGED <<phone, lists, timer>>, sh.pc \in Working \cup {"release"},
           dm' \subseteq PartSet, mnt' \subseteq PartSet, module' \in BOOLEAN,
           files' \in [Files -> {"none", "partial", "whole"}]
    PROVE  StagingInv'
<1>1. sh' \in Shells /\ sh'.pc = "stuck" /\ result' = result
  BY GotoType DEF Hangs, Goto, Points, StagingInv, StagingTypeOK
<1>2. StagingTypeOK'
  BY <1>1 DEF StagingInv, StagingTypeOK
<1>3. ResultInv'
  BY <1>1 DEF StagingInv, ResultInv, Working
<1> QED
  BY <1>1, <1>2, <1>3, LooseHangs DEF StagingInv

LEMMA AttachKeeps == ASSUME StagingInv, Attach PROVE StagingInv'
<1>1. CASE sh.part \in DOMAIN Partitions
  <2>1. 0 \in 0 .. Tries
    BY ConstantTypes
  <2>2. sh' = [sh EXCEPT !.pc = "create", !.tries = 0] /\ sh \in Shells
    BY <1>1 DEF Attach, StagingInv, StagingTypeOK
  <2>3. /\ sh' \in Shells /\ sh'.pc = "create" /\ sh'.part = sh.part /\ sh'.root = sh.root
        /\ sh'.queue = sh.queue /\ sh'.pending = sh.pending /\ sh'.seen = sh.seen
    BY <2>1, <2>2 DEF Shells, Points
  <2>4. StagingTypeOK' /\ ResultInv'
    BY <2>2, <2>3 DEF Attach, StagingInv, StagingTypeOK, ResultInv, Working, system
  <2>5. LooseInv'
    BY <1>1, <2>3, LooseKept DEF Attach, StagingInv, Plain, Working
  <2>6. DriverInv'
    BY <2>3, DriverKept DEF Attach, StagingInv, system
  <2> QED
    BY <2>4, <2>5, <2>6 DEF StagingInv
<1>2. CASE sh.part \notin DOMAIN Partitions
  <2>1. sh' = [sh EXCEPT !.pc = "firmware"]
    BY <1>2 DEF Attach, Goto
  <2>2. /\ sh' \in Shells /\ sh'.pc = "firmware" /\ sh'.root = sh.root
        /\ sh'.queue = sh.queue /\ sh'.pending = sh.pending /\ sh'.seen = sh.seen
    BY <2>1, GotoType DEF Points, StagingInv, StagingTypeOK
  <2>4. StagingTypeOK' /\ ResultInv'
    BY <2>2 DEF Attach, StagingInv, StagingTypeOK, ResultInv, Working, system
  <2>5. LooseInv'
    BY <2>2, LooseKept DEF Attach, StagingInv, Plain, Working
  <2>6. DriverInv'
    BY <2>2, DriverKept DEF Attach, StagingInv, system
  <2> QED
    BY <2>4, <2>5, <2>6 DEF StagingInv
<1> QED
  BY <1>1, <1>2

LEMMA CreateKeeps == ASSUME StagingInv, Create PROVE StagingInv'
<1>0. /\ sh.pc = "create" /\ sh \in Shells /\ sh.part \in DOMAIN Partitions /\ Part \in PartSet
      /\ UNCHANGED <<phone, lists, mnt, files, module, timer>>
  BY PartitionTypes DEF Create, StagingInv, StagingTypeOK, LooseInv, Part
<1>1. CASE dm' = dm \cup {Part} /\ Goto("mapped") /\ UNCHANGED result
  <2>1. /\ sh' \in Shells /\ sh'.pc = "mapped" /\ sh'.part = sh.part /\ sh'.root = sh.root
        /\ sh'.queue = sh.queue /\ sh'.pending = sh.pending /\ sh'.seen = sh.seen
    BY <1>0, <1>1, GotoType DEF Goto, Points
  <2>2. StagingTypeOK' /\ ResultInv'
    BY <1>0, <1>1, <2>1 DEF StagingInv, StagingTypeOK, ResultInv, Working
  <2>3. LooseInv'
    <3>1. LooseMaps' \subseteq {Part} /\ LooseMounts' = {} /\ LooseFiles' = {} /\ Part' = Part
      BY <1>0, <1>1, <2>1 DEF StagingInv, LooseInv, Working, LooseMaps, LooseMounts, LooseFiles, Left, Part
    <3> QED
      BY <1>0, <2>1, <3>1 DEF LooseInv, Working, Ending
  <2>4. DriverInv'
    BY <1>0, <1>1, <2>1, DriverKept DEF StagingInv
  <2> QED
    BY <2>2, <2>3, <2>4 DEF StagingInv
<1>2. CASE Fails /\ UNCHANGED dm
  <2>1. sh'.pc = "failing"
    BY <1>0, <1>2, GotoType DEF Fails, Points
  <2>2. LooseInv'
    BY <1>0, <1>2, <2>1, LooseFails DEF StagingInv, Plain, Working, system
  <2> QED
    BY <1>0, <1>2, <2>2, FailsKeeps DEF StagingInv, StagingTypeOK
<1>3. CASE sh.tries + 1 < Tries /\ sh' = [sh EXCEPT !.tries = @ + 1] /\ UNCHANGED <<result, dm>>
  <2>1. sh.tries + 1 \in 0 .. Tries
    BY <1>0, <1>3, ConstantTypes DEF Shells
  <2>2. /\ sh' \in Shells /\ sh'.pc = "create" /\ sh'.part = sh.part /\ sh'.root = sh.root
        /\ sh'.queue = sh.queue /\ sh'.pending = sh.pending /\ sh'.seen = sh.seen
    BY <1>0, <1>3, <2>1 DEF Shells
  <2>3. StagingTypeOK' /\ ResultInv'
    BY <1>0, <1>3, <2>2 DEF StagingInv, StagingTypeOK, ResultInv, Working
  <2>4. LooseInv'
    BY <1>0, <1>3, <2>2, LooseKept DEF StagingInv, Plain, Working, system
  <2>5. DriverInv'
    BY <1>0, <1>3, <2>2, DriverKept DEF StagingInv
  <2> QED
    BY <2>3, <2>4, <2>5 DEF StagingInv
<1> QED
  BY <1>1, <1>2, <1>3 DEF Create

LEMMA MappedKeeps == ASSUME StagingInv, Mapped PROVE StagingInv'
<1>0. /\ sh.pc = "mapped" /\ sh \in Shells /\ sh.part \in DOMAIN Partitions /\ Part \in PartSet
      /\ UNCHANGED <<phone, dm, mnt, files, module, timer, result>>
  BY PartitionTypes DEF Mapped, StagingInv, StagingTypeOK, LooseInv, Part, system
<1>1. /\ lists' \in Lists /\ lists'.maps = lists.maps \cup {Part}
      /\ lists'.mounts = lists.mounts /\ lists'.staged = lists.staged
  BY <1>0 DEF Mapped, RecordMap, StagingInv, StagingTypeOK, Lists
<1>2. /\ sh' \in Shells /\ sh'.pc = "mount" /\ sh'.part = sh.part /\ sh'.root = sh.root
      /\ sh'.queue = sh.queue /\ sh'.pending = sh.pending /\ sh'.seen = sh.seen
  BY <1>0, GotoType DEF Mapped, Goto, Points
<1>3. StagingTypeOK' /\ ResultInv'
  BY <1>0, <1>1, <1>2 DEF StagingInv, StagingTypeOK, ResultInv, Working
<1>4. LooseInv'
  <2>1. LooseMaps' = {} /\ LooseMounts' = {} /\ LooseFiles' = {}
    BY <1>0, <1>1 DEF StagingInv, LooseInv, Working, LooseMaps, LooseMounts, LooseFiles, Left
  <2> QED
    BY <1>0, <1>2, <2>1 DEF LooseInv, Working, Ending
<1>5. DriverInv'
  BY <1>0, <1>2, DriverKept DEF StagingInv
<1> QED
  BY <1>3, <1>4, <1>5 DEF StagingInv

LEMMA MountKeeps == ASSUME StagingInv, Mount PROVE StagingInv'
<1>0. /\ sh.pc = "mount" /\ sh \in Shells /\ sh.part \in DOMAIN Partitions /\ Part \in PartSet
      /\ UNCHANGED <<phone, lists, dm, files, module, timer>>
  BY PartitionTypes DEF Mount, StagingInv, StagingTypeOK, LooseInv, Part
<1>1. CASE mnt' = mnt \cup {Part} /\ Goto("mounted") /\ UNCHANGED result
  <2>1. /\ sh' \in Shells /\ sh'.pc = "mounted" /\ sh'.part = sh.part /\ sh'.root = sh.root
        /\ sh'.queue = sh.queue /\ sh'.pending = sh.pending /\ sh'.seen = sh.seen
    BY <1>0, <1>1, GotoType DEF Goto, Points
  <2>2. StagingTypeOK' /\ ResultInv'
    BY <1>0, <1>1, <2>1 DEF StagingInv, StagingTypeOK, ResultInv, Working
  <2>3. LooseInv'
    <3>1. LooseMaps' = {} /\ LooseMounts' \subseteq {Part} /\ LooseFiles' = {} /\ Part' = Part
      BY <1>0, <1>1, <2>1 DEF StagingInv, LooseInv, Working, LooseMaps, LooseMounts, LooseFiles, Left, Part
    <3> QED
      BY <1>0, <2>1, <3>1 DEF LooseInv, Working, Ending
  <2>4. DriverInv'
    BY <1>0, <1>1, <2>1, DriverKept DEF StagingInv
  <2> QED
    BY <2>2, <2>3, <2>4 DEF StagingInv
<1>2. CASE Fails /\ UNCHANGED mnt
  <2>1. sh'.pc = "failing"
    BY <1>0, <1>2, GotoType DEF Fails, Points
  <2>2. LooseInv'
    BY <1>0, <1>2, <2>1, LooseFails DEF StagingInv, Plain, Working, system
  <2> QED
    BY <1>0, <1>2, <2>2, FailsKeeps DEF StagingInv, StagingTypeOK
<1>3. CASE Hangs /\ UNCHANGED mnt
  BY <1>0, <1>3, HangsKeeps DEF StagingInv, StagingTypeOK, Working
<1> QED
  BY <1>1, <1>2, <1>3 DEF Mount

LEMMA MountedKeeps == ASSUME StagingInv, Mounted PROVE StagingInv'
<1>0. /\ sh.pc = "mounted" /\ sh \in Shells /\ sh.part \in DOMAIN Partitions /\ Part \in PartSet
      /\ UNCHANGED <<phone, dm, mnt, files, module, timer, result>>
  BY PartitionTypes DEF Mounted, StagingInv, StagingTypeOK, LooseInv, Part, system
<1>1. /\ lists' \in Lists /\ lists'.mounts = lists.mounts \cup {Part}
      /\ lists'.maps = lists.maps /\ lists'.staged = lists.staged
  BY <1>0 DEF Mounted, StagingInv, StagingTypeOK, Lists
<1>2. sh.part + 1 \in 1 .. 4
  BY <1>0, PartitionTypes
<1>3. /\ sh' \in Shells /\ sh'.pc = "attach" /\ sh'.root = sh.root
      /\ sh'.queue = sh.queue /\ sh'.pending = sh.pending /\ sh'.seen = sh.seen
  BY <1>0, <1>2 DEF Mounted, Shells, Points
<1>4. StagingTypeOK' /\ ResultInv'
  BY <1>0, <1>1, <1>3 DEF StagingInv, StagingTypeOK, ResultInv, Working
<1>5. LooseInv'
  <2>1. LooseMaps' = {} /\ LooseMounts' = {} /\ LooseFiles' = {}
    BY <1>0, <1>1 DEF StagingInv, LooseInv, Working, LooseMaps, LooseMounts, LooseFiles, Left
  <2> QED
    BY <1>0, <1>3, <2>1 DEF LooseInv, Working, Ending
<1>6. DriverInv'
  BY <1>0, <1>3, DriverKept DEF StagingInv
<1> QED
  BY <1>4, <1>5, <1>6 DEF StagingInv

-----------------------------------------------------------------------------
(***************************************************************************)
(* put, load and want.                                                     *)
(***************************************************************************)
LEMMA DriverLibs == StagingTypeOK => Driver \subseteq Libs
<1> SUFFICES ASSUME StagingTypeOK PROVE Driver \subseteq Libs
  OBVIOUS
<1>1. sh.root \in 1 .. Len(Roots) + 1 /\ sh.seen \subseteq Libs
  BY DEF StagingTypeOK, Shells
<1>2. \A i \in 1 .. sh.root - 1 : Roots[i] \in Libs
  BY <1>1, ConstantTypes
<1> QED
  BY <1>1, <1>2 DEF Driver, Passed

LEMMA PutFirmwareKeeps == ASSUME StagingInv, PutFirmware PROVE StagingInv'
<1>0. /\ sh.pc = "firmware" /\ sh \in Shells /\ result = "none"
      /\ UNCHANGED <<phone, lists, dm, mnt, files, module, timer, result>>
  BY DEF PutFirmware, StagingInv, StagingTypeOK, ResultInv, Working, system
<1>p. files[Firmware] \in {"none", "partial", "whole"}
  BY ConstantTypes DEF StagingInv, StagingTypeOK
<1>1. PICK pc \in {"load", "copy"} :
         /\ sh' = [sh EXCEPT !.item = Firmware, !.back = "load", !.pc = pc]
         /\ pc = "load" => files[Firmware] # "none"
  BY DEF PutFirmware, Put
<1>2. /\ sh' \in Shells /\ sh'.pc = pc /\ sh'.root = sh.root /\ sh'.item = Firmware /\ sh'.back = "load"
      /\ sh'.queue = sh.queue /\ sh'.pending = sh.pending /\ sh'.seen = sh.seen
  BY <1>0, <1>1, ConstantTypes DEF Shells, Points
<1>3. StagingTypeOK' /\ ResultInv'
  BY <1>0, <1>2 DEF StagingInv, StagingTypeOK, ResultInv, Working
<1>4. LooseInv'
  BY <1>0, <1>2, LooseKept DEF StagingInv, Plain, Working, system
<1>5. DriverInv'
  <2>1. FilesInv /\ ScanInv /\ ~Wanting /\ ~Wanting' /\ Driver' = Driver /\ Left' = Left
    BY <1>0, <1>2 DEF StagingInv, DriverInv, Driver, Passed, Left, Wanting
  <2>2. FilesInv'
    BY <1>0, <1>2, <2>1 DEF FilesInv
  <2>3. ScanInv'
    BY <1>0, <1>2, <2>1 DEF ScanInv, Queued
  <2>4. ModuleInv'
    BY <1>0, <1>1, <1>2, <1>p, <2>1, ConstantTypes DEF FilesInv, ModuleInv
  <2> QED
    BY <2>2, <2>3, <2>4 DEF DriverInv
<1> QED
  BY <1>3, <1>4, <1>5 DEF StagingInv

LEMMA CopyKeeps == ASSUME StagingInv, Copy PROVE StagingInv'
<1>0. /\ sh.pc = "copy" /\ sh \in Shells /\ sh.item \in Files /\ result = "none"
      /\ files \in [Files -> {"none", "partial", "whole"}]
      /\ UNCHANGED <<phone, lists, dm, mnt, module, timer>>
  BY DEF Copy, StagingInv, StagingTypeOK, Shells, ResultInv, Working
<1>l. LooseMaps = {} /\ LooseMounts = {} /\ LooseFiles = {}
  BY <1>0 DEF StagingInv, LooseInv, Working
<1>f. ASSUME NEW form \in {"whole", "partial"}, files' = [files EXCEPT ![sh.item] = form]
      PROVE  /\ files' \in [Files -> {"none", "partial", "whole"}]
             /\ LooseMaps' = {} /\ LooseMounts' = {} /\ LooseFiles' \subseteq {sh.item}
  <2>1. files' \in [Files -> {"none", "partial", "whole"}]
    BY <1>0, <1>f
  <2>2. LooseMaps' = {} /\ LooseMounts' = {}
    BY <1>0, <1>l DEF LooseMaps, LooseMounts
  <2>3. LooseFiles' \subseteq {sh.item}
    BY <1>0, <1>f, <1>l DEF LooseFiles, Left
  <2> QED
    BY <2>1, <2>2, <2>3
<1>1. CASE files' = [files EXCEPT ![sh.item] = "whole"] /\ Goto("copied") /\ UNCHANGED result
  <2>1. /\ sh' \in Shells /\ sh'.pc = "copied" /\ sh'.root = sh.root /\ sh'.item = sh.item
        /\ sh'.queue = sh.queue /\ sh'.pending = sh.pending /\ sh'.seen = sh.seen /\ sh'.back = sh.back
    BY <1>0, <1>1, GotoType DEF Goto, Points
  <2>2. StagingTypeOK' /\ ResultInv'
    BY <1>0, <1>1, <1>f, <2>1 DEF StagingInv, StagingTypeOK, ResultInv, Working
  <2>3. LooseInv'
    BY <1>0, <1>1, <1>f, <2>1 DEF LooseInv, Working, Ending
  <2>4. DriverInv'
    <3>1. FilesInv /\ ScanInv /\ ModuleInv /\ Wanting' = Wanting /\ Driver' = Driver
      BY <1>0, <2>1 DEF StagingInv, DriverInv, Driver, Passed, Wanting
    <3>2. \A f \in Files : files'[f] = IF f = sh.item THEN "whole" ELSE files[f]
      BY <1>0, <1>1
    <3>3. FilesInv'
      <4>1. Driver \subseteq Files
        BY DriverLibs, ConstantTypes DEF StagingInv
      <4>2. Left' \subseteq Left \cup {sh.item}
        BY <3>2 DEF Left
      <4> QED
        BY <1>0, <2>1, <3>1, <3>2, <4>1, <4>2 DEF FilesInv, Wanting
    <3>4. ScanInv'
      BY <2>1, <3>1 DEF ScanInv, Queued
    <3>5. ModuleInv'
      BY <1>0, <2>1, <3>1, <3>2, ConstantTypes DEF ModuleInv
    <3> QED
      BY <3>3, <3>4, <3>5 DEF DriverInv
  <2> QED
    BY <2>2, <2>3, <2>4 DEF StagingInv
<1>2. CASE Fails /\ UNCHANGED files
  <2>1. sh'.pc = "failing"
    BY <1>0, <1>2, GotoType DEF Fails, Points
  <2>2. LooseInv'
    BY <1>0, <1>2, <2>1, LooseFails DEF StagingInv, Plain, Working, system
  <2> QED
    BY <1>0, <1>2, <2>2, FailsKeeps DEF StagingInv, StagingTypeOK
<1>3. CASE "partialCopy" \in StagingFaults /\ Fails /\ files' = [files EXCEPT ![sh.item] = "partial"]
  <2>1. sh'.pc = "failing" /\ result' = "failed"
    BY <1>0, <1>3, GotoType DEF Fails, Points
  <2>2. LooseInv'
    <3>1. OneLoose'
      BY <1>0, <1>3, <1>f DEF OneLoose
    <3> QED
      BY <1>3, <1>f, <2>1, <3>1 DEF LooseInv, Working, Ending
  <2> QED
    BY <1>0, <1>3, <1>f, <2>2, FailsKeeps DEF StagingInv, StagingTypeOK
<1>4. CASE Hangs /\ files' = [files EXCEPT ![sh.item] = "partial"]
  BY <1>0, <1>4, <1>f, HangsKeeps DEF StagingInv, StagingTypeOK, Working
<1> QED
  BY <1>1, <1>2, <1>3, <1>4 DEF Copy

LEMMA CopiedKeeps == ASSUME StagingInv, Copied PROVE StagingInv'
<1>0. /\ sh.pc = "copied" /\ sh \in Shells /\ sh.item \in Files /\ sh.back \in Points /\ result = "none"
      /\ UNCHANGED <<phone, dm, mnt, files, module, timer, result>>
  BY DEF Copied, StagingInv, StagingTypeOK, Shells, ResultInv, Working, system
<1>1. /\ lists' \in Lists /\ lists'.staged = lists.staged \cup {sh.item}
      /\ lists'.maps = lists.maps /\ lists'.mounts = lists.mounts
  BY <1>0 DEF Copied, RecordCopy, StagingInv, StagingTypeOK, Lists
<1>2. /\ sh' \in Shells /\ sh'.pc = sh.back /\ sh'.root = sh.root /\ sh'.item = sh.item
      /\ sh'.queue = sh.queue /\ sh'.pending = sh.pending /\ sh'.seen = sh.seen
  BY <1>0, GotoType DEF Copied, Goto
<1>3. FilesInv /\ ScanInv /\ ModuleInv
  BY <1>0 DEF StagingInv, DriverInv
<1>4. sh.back = "wanted" \/ (sh.back = "load" /\ sh.item = Firmware)
  BY <1>0, <1>3 DEF FilesInv
<1>5. StagingTypeOK' /\ ResultInv'
  BY <1>0, <1>1, <1>2, <1>4 DEF StagingInv, StagingTypeOK, ResultInv, Working
<1>6. LooseInv'
  <2>1. LooseMaps' = {} /\ LooseMounts' = {} /\ LooseFiles' = {}
    BY <1>0, <1>1 DEF StagingInv, LooseInv, Working, LooseMaps, LooseMounts, LooseFiles, Left
  <2> QED
    BY <1>0, <1>2, <1>4, <2>1 DEF LooseInv, Working, Ending
<1>7. DriverInv'
  <2>1. Driver' = Driver /\ Left' = Left /\ Wanting' = Wanting
    BY <1>0, <1>2, <1>4 DEF Driver, Passed, Left, Wanting
  <2>2. FilesInv'
    BY <1>0, <1>2, <1>3, <1>4, <2>1 DEF FilesInv
  <2>3. ScanInv'
    BY <1>0, <1>2, <1>3, <1>4, <2>1 DEF ScanInv, Queued
  <2>4. ModuleInv'
    BY <1>0, <1>2, <1>3, <1>4, <2>1 DEF ModuleInv, FilesInv
  <2> QED
    BY <2>2, <2>3, <2>4 DEF DriverInv
<1> QED
  BY <1>5, <1>6, <1>7 DEF StagingInv

LEMMA LoadKeeps == ASSUME StagingInv, Load PROVE StagingInv'
<1>0. /\ sh.pc = "load" /\ sh \in Shells /\ result = "none"
      /\ UNCHANGED <<phone, lists, dm, mnt, files, timer>>
  BY DEF Load, StagingInv, StagingTypeOK, ResultInv, Working
<1>1. CASE module' = TRUE /\ Goto("roots") /\ UNCHANGED result
  <2>1. /\ sh' \in Shells /\ sh'.pc = "roots" /\ sh'.root = sh.root
        /\ sh'.queue = sh.queue /\ sh'.pending = sh.pending /\ sh'.seen = sh.seen
    BY <1>0, <1>1, GotoType DEF Goto, Points
  <2>2. StagingTypeOK' /\ ResultInv'
    BY <1>0, <1>1, <2>1 DEF StagingInv, StagingTypeOK, ResultInv, Working
  <2>3. LooseInv'
    <3>1. LooseMaps' = {} /\ LooseMounts' = {} /\ LooseFiles' = {}
      BY <1>0 DEF StagingInv, LooseInv, Working, LooseMaps, LooseMounts, LooseFiles, Left
    <3> QED
      BY <2>1, <3>1 DEF LooseInv, Working, Ending
  <2>4. DriverInv'
    <3>1. FilesInv /\ ScanInv /\ ModuleInv /\ ~Wanting /\ ~Wanting' /\ Driver' = Driver /\ Left' = Left
      BY <1>0, <2>1 DEF StagingInv, DriverInv, Driver, Passed, Left, Wanting
    <3>2. FilesInv'
      BY <1>0, <2>1, <3>1 DEF FilesInv
    <3>3. ScanInv'
      BY <1>0, <2>1, <3>1 DEF ScanInv, Queued
    <3>4. ModuleInv'
      BY <1>0, <1>1, <2>1, <3>1 DEF ModuleInv
    <3> QED
      BY <3>2, <3>3, <3>4 DEF DriverInv
  <2> QED
    BY <2>2, <2>3, <2>4 DEF StagingInv
<1>2. CASE Fails /\ UNCHANGED module
  <2>1. sh'.pc = "failing"
    BY <1>0, <1>2, GotoType DEF Fails, Points
  <2>2. LooseInv'
    BY <1>0, <1>2, <2>1, LooseFails DEF StagingInv, Plain, Working, system
  <2> QED
    BY <1>0, <1>2, <2>2, FailsKeeps DEF StagingInv, StagingTypeOK
<1>3. CASE Hangs /\ UNCHANGED module
  BY <1>0, <1>3, HangsKeeps DEF StagingInv, StagingTypeOK, Working
<1> QED
  BY <1>1, <1>2, <1>3 DEF Load

-----------------------------------------------------------------------------
(***************************************************************************)
(* The closure over the libraries.                                         *)
(***************************************************************************)
LEMMA HeadAndTail ==
    ASSUME NEW q \in Seq(Libs), q # <<>>
    PROVE  /\ Head(q) \in Libs /\ Tail(q) \in Seq(Libs)
           /\ \A i \in DOMAIN q : q[i] = Head(q) \/ \E j \in DOMAIN Tail(q) : Tail(q)[j] = q[i]
<1>1. Len(q) \in Nat \ {0} /\ DOMAIN q = 1 .. Len(q) /\ Head(q) = q[1]
  OBVIOUS
<1>2. /\ Tail(q) \in Seq(Libs) /\ Len(Tail(q)) = Len(q) - 1
      /\ \A j \in 1 .. Len(q) - 1 : Tail(q)[j] = q[j + 1]
  BY <1>1
<1>3. DOMAIN Tail(q) = 1 .. Len(q) - 1
  BY <1>2
<1>4. ASSUME NEW i \in DOMAIN q, i # 1
      PROVE  \E j \in DOMAIN Tail(q) : Tail(q)[j] = q[i]
  <2>1. i - 1 \in 1 .. Len(q) - 1
    BY <1>1, <1>4
  <2> QED
    BY <1>2, <1>3, <2>1
<1> QED
  BY <1>1, <1>2, <1>4

LEMMA Appended ==
    ASSUME NEW q \in Seq(Libs), NEW l \in Libs
    PROVE  /\ Append(q, l) \in Seq(Libs)
           /\ \A i \in DOMAIN q : i \in DOMAIN Append(q, l) /\ Append(q, l)[i] = q[i]
           /\ \E i \in DOMAIN Append(q, l) : Append(q, l)[i] = l
<1>1. Len(q) \in Nat /\ DOMAIN q = 1 .. Len(q)
  OBVIOUS
<1>2. /\ Append(q, l) \in Seq(Libs) /\ DOMAIN Append(q, l) = 1 .. Len(q) + 1
      /\ Append(q, l)[Len(q) + 1] = l /\ \A i \in 1 .. Len(q) : Append(q, l)[i] = q[i]
  OBVIOUS
<1>3. Len(q) + 1 \in DOMAIN Append(q, l)
  BY <1>1, <1>2
<1> QED
  BY <1>1, <1>2, <1>3

\* Where the closure is made, nothing is loose and the driver's invariant holds.
LEMMA AtRoots ==
    ASSUME StagingInv, sh.pc = "roots"
    PROVE  /\ sh \in Shells /\ result = "none" /\ FilesInv /\ ScanInv /\ ModuleInv /\ ~Wanting
           /\ files[Firmware] = "whole" /\ module
  BY DEF StagingInv, StagingTypeOK, ResultInv, DriverInv, Working, ModuleInv, Wanting

LEMMA RootsFail ==
    ASSUME StagingInv, sh.pc = "roots", Fails, UNCHANGED <<phone, lists, system, timer>>
    PROVE  StagingInv'
<1>1. sh'.pc = "failing"
  BY GotoType, AtRoots DEF Fails, Points
<1>2. LooseInv'
  BY <1>1, LooseFails DEF StagingInv, Plain, Working
<1> QED
  BY <1>2, FailsKeeps DEF StagingInv, StagingTypeOK, system

LEMMA WantsKeeps ==
    ASSUME StagingInv, sh.pc = "roots", NEW l \in phone, Wants(l),
           UNCHANGED <<phone, lists, system, timer, result>>,
           \/ sh.root \in DOMAIN Roots /\ l = Roots[sh.root]
           \/ sh.root \notin DOMAIN Roots /\ l \in sh.pending
    PROVE  StagingInv'
<1>0. l \in Libs /\ l \in Files /\ sh.root \in 1 .. Len(Roots) + 1
  BY StagingAssumption, ConstantTypes, AtRoots DEF StagingInv, StagingTypeOK, Shells
<1>n. /\ NextRoot(sh.root) \in 1 .. Len(Roots) + 1
      /\ sh.root \in DOMAIN Roots => NextRoot(sh.root) = sh.root + 1
      /\ sh.root \notin DOMAIN Roots => NextRoot(sh.root) = sh.root
  BY <1>0, ConstantTypes DEF NextRoot
<1>1. PICK pc \in {"wanted", "copy"}, seen \in SUBSET Libs :
         /\ sh' = [sh EXCEPT !.item = l, !.back = "wanted", !.root = NextRoot(@),
                             !.pending = @ \ {l}, !.seen = seen, !.pc = pc]
         /\ seen = IF l \in sh.pending THEN sh.seen \cup {l} ELSE sh.seen
         /\ pc = "wanted" <=> files[l] # "none"
  <2>1. sh.seen \in SUBSET Libs
    BY AtRoots DEF Shells
  <2>2. (IF l \in sh.pending THEN sh.seen \cup {l} ELSE sh.seen) \in SUBSET Libs
    BY <1>0, <2>1
  <2> QED
    BY <2>2, AtRoots DEF Wants, Shells
<1>2. /\ sh' \in Shells /\ sh'.pc = pc /\ sh'.back = "wanted" /\ sh'.item = l
      /\ sh'.root = NextRoot(sh.root) /\ sh'.queue = sh.queue /\ sh'.pending = sh.pending \ {l}
      /\ sh'.seen = seen
  BY <1>0, <1>1, <1>n, AtRoots DEF Shells, Points
<1>3. StagingTypeOK' /\ ResultInv'
  BY <1>2, AtRoots DEF StagingInv, StagingTypeOK, ResultInv, Working, system
<1>4. LooseInv'
  BY <1>2, LooseKept DEF StagingInv, Plain, Working
<1>5. DriverInv'
  <2>1. Left' = Left /\ Wanting' /\ UNCHANGED <<files, module>>
    BY <1>2 DEF Left, system, Wanting
  <2>2. Driver' = Driver \cup {l}
    <3>1. CASE sh.root \in DOMAIN Roots /\ l = Roots[sh.root]
      <4>1. sh'.root = sh.root + 1 /\ 1 .. sh'.root - 1 = (1 .. sh.root - 1) \cup {sh.root}
        BY <1>0, <1>2, <1>n, <3>1
      <4>2. Passed' = Passed \cup {l}
        BY <3>1, <4>1 DEF Passed
      <4> QED
        BY <1>1, <1>2, <4>2 DEF Driver
    <3>2. CASE sh.root \notin DOMAIN Roots /\ l \in sh.pending
      BY <1>1, <1>2, <1>n, <3>2 DEF Driver, Passed
    <3> QED
      BY <3>1, <3>2
  <2>3. FilesInv'
    <3>1. files[l] \in {"none", "whole"}
      BY <1>0, AtRoots DEF StagingInv, StagingTypeOK, FilesInv
    <3> QED
      BY <1>1, <1>2, <2>1, <2>2, <3>1, AtRoots DEF FilesInv
  <2>4. ScanInv'
    <3>1. sh.seen \cup Shared \cup sh.pending \subseteq sh'.seen \cup Shared \cup sh'.pending
      BY <1>1, <1>2
    <3>2. sh'.pc \notin {"release", "over"}
      BY <1>2
    <3> QED
      BY <1>2, <2>1, <2>2, <3>1, <3>2, AtRoots DEF ScanInv, Queued
  <2>5. ModuleInv'
    BY <2>1, AtRoots DEF ModuleInv
  <2> QED
    BY <2>3, <2>4, <2>5 DEF DriverInv
<1> QED
  BY <1>3, <1>4, <1>5 DEF StagingInv

LEMMA WantRootKeeps == ASSUME StagingInv, WantRoot PROVE StagingInv'
<1>0. sh.pc = "roots" /\ sh.root \in DOMAIN Roots /\ UNCHANGED <<phone, lists, system, timer>>
  BY DEF WantRoot
<1>1. CASE Roots[sh.root] \in phone /\ Wants(Roots[sh.root]) /\ UNCHANGED result
  BY <1>0, <1>1, WantsKeeps
<1>2. CASE Fails
  BY <1>0, <1>2, RootsFail
<1>3. CASE Roots[sh.root] \in Optional \ phone /\ sh' = [sh EXCEPT !.root = @ + 1] /\ UNCHANGED result
  <2>1. sh.root \in 1 .. Len(Roots) + 1 /\ sh.root + 1 \in 1 .. Len(Roots) + 1
    BY <1>0, ConstantTypes
  <2>2. /\ sh' \in Shells /\ sh'.pc = "roots" /\ sh'.root = sh.root + 1
        /\ sh'.queue = sh.queue /\ sh'.pending = sh.pending /\ sh'.seen = sh.seen
    BY <1>0, <1>3, <2>1, AtRoots DEF Shells
  <2>3. StagingTypeOK' /\ ResultInv'
    BY <1>0, <1>3, <2>2, AtRoots DEF StagingInv, StagingTypeOK, ResultInv, Working, system
  <2>4. LooseInv'
    BY <1>0, <2>2, LooseKept DEF StagingInv, Plain, Working
  <2>5. DriverInv'
    <3>1. Left' = Left /\ ~Wanting' /\ UNCHANGED <<files, module>>
      BY <1>0, <2>2 DEF Left, system, Wanting
    <3>2. 1 .. sh'.root - 1 = (1 .. sh.root - 1) \cup {sh.root}
      BY <2>1, <2>2
    <3>3. Driver' = Driver
      BY <1>0, <1>3, <2>2, <3>2 DEF Driver, Passed
    <3>4. FilesInv' /\ ModuleInv'
      BY <1>0, <2>2, <3>1, <3>3, AtRoots DEF FilesInv, ModuleInv
    <3>5. ScanInv'
      BY <1>0, <2>2, <3>1, <3>3, AtRoots DEF ScanInv, Queued
    <3> QED
      BY <3>4, <3>5 DEF DriverInv
  <2> QED
    BY <2>3, <2>4, <2>5 DEF StagingInv
<1> QED
  BY <1>1, <1>2, <1>3 DEF WantRoot

LEMMA WantedKeeps == ASSUME StagingInv, Wanted PROVE StagingInv'
<1>0. /\ sh.pc = "wanted" /\ sh \in Shells /\ result = "none" /\ sh.queue \in Seq(Libs)
      /\ UNCHANGED <<phone, lists, system, timer, result>>
  BY DEF Wanted, StagingInv, StagingTypeOK, ResultInv, Working, Shells
<1>1. FilesInv /\ ScanInv /\ ModuleInv /\ Wanting /\ sh.item \in Libs
  BY <1>0, DriverLibs DEF StagingInv, DriverInv, FilesInv, Wanting
<1>2. /\ sh' \in Shells /\ sh'.pc = "roots" /\ sh'.root = sh.root
      /\ sh'.queue = Append(sh.queue, sh.item) /\ sh'.pending = sh.pending /\ sh'.seen = sh.seen
  <2>1. Append(sh.queue, sh.item) \in Seq(Libs)
    BY <1>0, <1>1, Appended
  <2> QED
    BY <1>0, <2>1 DEF Wanted, Shells, Points
<1>3. StagingTypeOK' /\ ResultInv'
  BY <1>0, <1>2 DEF StagingInv, StagingTypeOK, ResultInv, Working, system
<1>4. LooseInv'
  BY <1>0, <1>2, LooseKept DEF StagingInv, Plain, Working
<1>5. DriverInv'
  <2>1. Driver' = Driver /\ Left' = Left /\ ~Wanting' /\ UNCHANGED <<files, module>>
    BY <1>0, <1>2 DEF Driver, Passed, Left, system, Wanting
  <2>2. FilesInv' /\ ModuleInv'
    BY <1>0, <1>1, <1>2, <2>1 DEF FilesInv, ModuleInv
  <2>3. \A l : Queued(l) \/ l = sh.item => Queued(l)'
    BY <1>0, <1>1, <1>2, Appended DEF Queued
  <2>4. ScanInv'
    BY <1>0, <1>1, <1>2, <2>1, <2>3 DEF ScanInv
  <2> QED
    BY <2>2, <2>4 DEF DriverInv
<1> QED
  BY <1>3, <1>4, <1>5 DEF StagingInv

LEMMA NextLibKeeps == ASSUME StagingInv, NextLib PROVE StagingInv'
<1>0. /\ sh.pc = "roots" /\ sh.pending = {} /\ sh.queue # <<>> /\ sh.queue \in Seq(Libs)
      /\ UNCHANGED <<phone, lists, system, timer, result>>
  BY AtRoots DEF NextLib, Scanning, StagingInv, Shells
<1>1. /\ sh' \in Shells /\ sh'.pc = "roots" /\ sh'.root = sh.root
      /\ sh'.queue = Tail(sh.queue) /\ sh'.pending = Needs[Head(sh.queue)] /\ sh'.seen = sh.seen
  <2>1. Tail(sh.queue) \in Seq(Libs) /\ Needs[Head(sh.queue)] \in SUBSET (Libs \cup Shared)
    BY <1>0, HeadAndTail, ConstantTypes
  <2> QED
    BY <1>0, <2>1, AtRoots DEF NextLib, Shells
<1>2. StagingTypeOK' /\ ResultInv'
  BY <1>0, <1>1, AtRoots DEF StagingInv, StagingTypeOK, ResultInv, Working, system
<1>3. LooseInv'
  BY <1>0, <1>1, LooseKept DEF StagingInv, Plain, Working
<1>4. DriverInv'
  <2>1. Driver' = Driver /\ Left' = Left /\ ~Wanting' /\ UNCHANGED <<files, module>>
    BY <1>0, <1>1 DEF Driver, Passed, Left, system, Wanting
  <2>2. FilesInv' /\ ModuleInv'
    BY <1>0, <1>1, <2>1, AtRoots DEF FilesInv, ModuleInv
  <2>3. \A l : Queued(l) => Queued(l)' \/ l = Head(sh.queue)
    BY <1>0, <1>1, HeadAndTail DEF Queued
  <2>4. \A l \in Driver : Queued(l) \/ Needs[l] \subseteq sh.seen \cup Shared
    BY <1>0, AtRoots DEF ScanInv
  <2>5. ScanInv'
    BY <1>1, <2>1, <2>3, <2>4 DEF ScanInv
  <2> QED
    BY <2>2, <2>5 DEF DriverInv
<1> QED
  BY <1>2, <1>3, <1>4 DEF StagingInv

LEMMA SkipKeeps == ASSUME StagingInv, Skip PROVE StagingInv'
<1>0. sh.pc = "roots" /\ UNCHANGED <<phone, lists, system, timer, result>>
  BY DEF Skip, Scanning
<1>1. PICK l \in sh.pending : Known(l) /\ sh' = [sh EXCEPT !.pending = @ \ {l}]
  BY DEF Skip
<1>2. /\ sh' \in Shells /\ sh'.pc = "roots" /\ sh'.root = sh.root
      /\ sh'.queue = sh.queue /\ sh'.pending = sh.pending \ {l} /\ sh'.seen = sh.seen
  BY <1>0, <1>1, AtRoots DEF Shells
<1>3. StagingTypeOK' /\ ResultInv'
  BY <1>0, <1>2, AtRoots DEF StagingInv, StagingTypeOK, ResultInv, Working, system
<1>4. LooseInv'
  BY <1>0, <1>2, LooseKept DEF StagingInv, Plain, Working
<1>5. DriverInv'
  <2>1. Driver' = Driver /\ Left' = Left /\ ~Wanting' /\ UNCHANGED <<files, module>>
    BY <1>0, <1>2 DEF Driver, Passed, Left, system, Wanting
  <2>2. FilesInv' /\ ModuleInv'
    BY <1>0, <1>2, <2>1, AtRoots DEF FilesInv, ModuleInv
  <2>3. sh'.seen \cup Shared \cup sh'.pending = sh.seen \cup Shared \cup sh.pending
    BY <1>1, <1>2 DEF Known
  <2>4. ScanInv'
    BY <1>0, <1>2, <2>1, <2>3, AtRoots DEF ScanInv, Queued
  <2> QED
    BY <2>2, <2>4 DEF DriverInv
<1> QED
  BY <1>3, <1>4, <1>5 DEF StagingInv

LEMMA WantKeeps == ASSUME StagingInv, Want PROVE StagingInv'
<1>0. /\ sh.pc = "roots" /\ sh.root \notin DOMAIN Roots
      /\ UNCHANGED <<phone, lists, system, timer>>
  BY DEF Want, Scanning
<1>1. PICK l \in sh.pending : IF l \in phone THEN Wants(l) /\ UNCHANGED result ELSE Fails
  BY DEF Want
<1>2. CASE l \in phone
  BY <1>0, <1>1, <1>2, WantsKeeps
<1>3. CASE l \notin phone
  BY <1>0, <1>1, <1>3, RootsFail
<1> QED
  BY <1>2, <1>3

LEMMA StagedKeeps == ASSUME StagingInv, Staged PROVE StagingInv'
<1>0. /\ sh.pc = "roots" /\ sh.pending = {} /\ sh.queue = <<>> /\ sh.root \notin DOMAIN Roots
      /\ result' = "staged" /\ UNCHANGED <<phone, lists, system, timer>>
  BY DEF Staged, Scanning
<1>1. /\ sh' \in Shells /\ sh'.pc = "release" /\ sh'.root = sh.root
      /\ sh'.queue = sh.queue /\ sh'.pending = sh.pending /\ sh'.seen = sh.seen
  BY AtRoots, ReleaseType, <1>0 DEF Staged, StagingInv, StagingTypeOK
<1>2. StagingTypeOK' /\ ResultInv'
  BY <1>0, <1>1 DEF StagingInv, StagingTypeOK, ResultInv, Working, system
<1>3. LooseInv'
  <2>1. LooseMaps' = {} /\ LooseMounts' = {} /\ LooseFiles' = {}
    BY <1>0 DEF StagingInv, LooseInv, Working, LooseMaps, LooseMounts, LooseFiles, Left, system
  <2>2. OneLoose'
    BY <2>1, ConstantTypes DEF OneLoose
  <2> QED
    BY <1>1, <2>1, <2>2 DEF LooseInv, Working, Ending
<1>4. DriverInv'
  <2>1. Driver' = Driver /\ Left' = Left /\ ~Wanting' /\ UNCHANGED <<files, module>>
    BY <1>0, <1>1 DEF Driver, Passed, Left, system, Wanting
  <2>2. FilesInv' /\ ModuleInv'
    BY <1>0, <1>1, <2>1, AtRoots DEF FilesInv, ModuleInv
  <2>3. ScanInv'
    BY <1>0, <1>1, <2>1, AtRoots DEF ScanInv, Queued
  <2> QED
    BY <2>2, <2>3 DEF DriverInv
<1> QED
  BY <1>2, <1>3, <1>4 DEF StagingInv

-----------------------------------------------------------------------------
(***************************************************************************)
(* fail, release, and the signals.                                         *)
(***************************************************************************)
LEMMA RemoveStagedKeeps == ASSUME StagingInv, RemoveStaged PROVE StagingInv'
<1>0. /\ sh.pc = "failing" /\ sh \in Shells /\ result = "failed" /\ lists \in Lists
      /\ UNCHANGED <<phone, dm, mnt, module, timer, result>>
  BY DEF RemoveStaged, StagingInv, StagingTypeOK, ResultInv
<1>1. DriverInv'
  BY <1>0, DriverFails
<1>2. CASE lists.staged = {} /\ Release /\ UNCHANGED <<lists, files>>
  <2>1. sh' \in Shells /\ sh'.pc = "release"
    BY <1>0, <1>2, ReleaseType
  <2>2. StagingTypeOK' /\ ResultInv'
    BY <1>0, <1>2, <2>1 DEF StagingInv, StagingTypeOK, ResultInv, Working
  <2>3. LooseMaps' = LooseMaps /\ LooseMounts' = LooseMounts /\ LooseFiles' = LooseFiles
    BY <1>0, <1>2 DEF LooseMaps, LooseMounts, LooseFiles, Left
  <2>4. LooseInv'
    BY <1>0, <2>1, <2>3 DEF StagingInv, LooseInv, Working, Ending, OneLoose
  <2> QED
    BY <1>1, <2>2, <2>4 DEF StagingInv
<1>3. ASSUME NEW f \in lists.staged, files' = [files EXCEPT ![f] = "none"],
             lists' = [lists EXCEPT !.staged = @ \ {f}], UNCHANGED sh
      PROVE  StagingInv'
  <2>1. /\ lists' \in Lists /\ lists'.staged = lists.staged \ {f}
        /\ lists'.maps = lists.maps /\ lists'.mounts = lists.mounts
    BY <1>0, <1>3 DEF Lists
  <2>2. f \in Files /\ files' \in [Files -> {"none", "partial", "whole"}]
    BY <1>0, <1>3 DEF Lists, StagingInv, StagingTypeOK
  <2>3. StagingTypeOK' /\ ResultInv'
    BY <1>0, <1>3, <2>1, <2>2 DEF StagingInv, StagingTypeOK, ResultInv, Working
  <2>4. LooseFiles' = LooseFiles
    <3>1. \A g \in Files : files'[g] = IF g = f THEN "none" ELSE files[g]
      BY <1>3 DEF StagingInv, StagingTypeOK
    <3> QED
      BY <1>3, <2>1, <3>1 DEF LooseFiles, Left
  <2>5. LooseMaps' = LooseMaps /\ LooseMounts' = LooseMounts
    BY <1>0, <2>1 DEF LooseMaps, LooseMounts
  <2>6. LooseInv'
    BY <1>0, <1>3, <2>4, <2>5 DEF StagingInv, LooseInv, Working, Ending, OneLoose
  <2> QED
    BY <1>1, <2>3, <2>6 DEF StagingInv
<1> QED
  BY <1>2, <1>3 DEF RemoveStaged

\* A command of release makes nothing that is in no list.
LEMMA ReleaseKeeps ==
    ASSUME StagingInv, sh.pc = "release", sh'.pc = "release", UNCHANGED <<phone, files, module, timer, result>>,
           sh' \in Shells, sh'.root = sh.root, sh'.queue = sh.queue, sh'.pending = sh.pending, sh'.seen = sh.seen,
           lists' \in Lists, lists'.staged = lists.staged,
           lists'.maps = lists.maps, lists'.mounts = lists.mounts,
           dm' \subseteq dm, mnt' \subseteq mnt
    PROVE  StagingInv'
<1>1. StagingTypeOK' /\ ResultInv'
  BY DEF StagingInv, StagingTypeOK, ResultInv, Working
<1>2. LooseFiles' = LooseFiles /\ LooseMaps' \subseteq LooseMaps /\ LooseMounts' \subseteq LooseMounts
  BY DEF LooseFiles, LooseMaps, LooseMounts, Left
<1>3. LooseInv'
  BY <1>2 DEF StagingInv, LooseInv, Working, Ending, OneLoose
<1>4. DriverInv'
  BY DriverKept DEF StagingInv
<1> QED
  BY <1>1, <1>3, <1>4 DEF StagingInv

LEMMA UnmountKeeps == ASSUME StagingInv, Unmount PROVE StagingInv'
<1>0. /\ sh.pc = "release" /\ sh \in Shells /\ lists \in Lists /\ mnt \subseteq PartSet
      /\ UNCHANGED <<phone, dm, files, module, timer>>
  BY DEF Unmount, StagingInv, StagingTypeOK
<1>1. CASE Hangs /\ UNCHANGED <<lists, mnt>>
  BY <1>0, <1>1, HangsKeeps DEF StagingInv, StagingTypeOK
<1>2. ASSUME NEW p \in sh.mounts, sh' = [sh EXCEPT !.mounts = @ \ {p}], UNCHANGED result,
             \/ mnt' = mnt \ {p} /\ UNCHANGED lists
             \/ p \in mnt /\ lists' = [lists EXCEPT !.stillMounted = @ \cup {p}] /\ UNCHANGED mnt
      PROVE  StagingInv'
  <2>1. /\ sh' \in Shells /\ sh'.pc = "release" /\ sh'.root = sh.root
        /\ sh'.queue = sh.queue /\ sh'.pending = sh.pending /\ sh'.seen = sh.seen
    BY <1>0, <1>2 DEF Shells
  <2>2. /\ lists' \in Lists /\ lists'.staged = lists.staged
        /\ lists'.maps = lists.maps /\ lists'.mounts = lists.mounts
    BY <1>0, <1>2 DEF Lists
  <2> QED
    BY <1>0, <1>2, <2>1, <2>2, ReleaseKeeps
<1> QED
  BY <1>1, <1>2 DEF Unmount

LEMMA UnmapKeeps == ASSUME StagingInv, Unmap PROVE StagingInv'
<1>0. /\ sh.pc = "release" /\ sh \in Shells /\ lists \in Lists /\ dm \subseteq PartSet
      /\ UNCHANGED <<phone, mnt, files, module, timer, result>>
  BY DEF Unmap, StagingInv, StagingTypeOK
<1>1. PICK p \in sh.maps :
        /\ sh' = [sh EXCEPT !.maps = @ \ {p}]
        /\ \/ dm' = dm \ ({p} \ mnt) /\ UNCHANGED lists
           \/ p \in dm /\ lists' = [lists EXCEPT !.stillMapped = @ \cup {p}] /\ UNCHANGED dm
  BY DEF Unmap
<1>2. /\ sh' \in Shells /\ sh'.pc = "release" /\ sh'.root = sh.root
      /\ sh'.queue = sh.queue /\ sh'.pending = sh.pending /\ sh'.seen = sh.seen
  BY <1>0, <1>1 DEF Shells
<1>3. /\ lists' \in Lists /\ lists'.staged = lists.staged
      /\ lists'.maps = lists.maps /\ lists'.mounts = lists.mounts
  BY <1>0, <1>1 DEF Lists
<1> QED
  BY <1>0, <1>1, <1>2, <1>3, ReleaseKeeps

LEMMA ExitKeeps == ASSUME StagingInv, Exit PROVE StagingInv'
<1>0. /\ sh.pc = "release" /\ sh \in Shells
      /\ UNCHANGED <<phone, lists, system, timer, result>>
  BY DEF Exit, StagingInv, StagingTypeOK
<1>1. /\ sh' \in Shells /\ sh'.pc = "over" /\ sh'.root = sh.root
      /\ sh'.queue = sh.queue /\ sh'.pending = sh.pending /\ sh'.seen = sh.seen
  BY <1>0, GotoType DEF Exit, Goto, Points
<1>2. StagingTypeOK' /\ ResultInv'
  BY <1>0, <1>1 DEF StagingInv, StagingTypeOK, ResultInv, Working, system
<1>3. LooseInv'
  <2>1. LooseMaps' = LooseMaps /\ LooseMounts' = LooseMounts /\ LooseFiles' = LooseFiles
    BY <1>0 DEF LooseMaps, LooseMounts, LooseFiles, Left, system
  <2> QED
    BY <1>0, <1>1, <2>1 DEF StagingInv, LooseInv, Working, Ending, OneLoose
<1>4. DriverInv'
  BY <1>0, <1>1, DriverKept DEF StagingInv, system
<1> QED
  BY <1>2, <1>3, <1>4 DEF StagingInv

LEMMA TermKeeps == ASSUME StagingInv, Term PROVE StagingInv'
<1>0. timer' = "term" /\ timer = "armed" /\ UNCHANGED <<phone, sh, lists, system, result>>
  BY DEF Term
<1>1. StagingTypeOK' /\ ResultInv'
  BY <1>0 DEF StagingInv, StagingTypeOK, ResultInv, system
<1>2. LooseInv'
  <2>1. LooseMaps' = LooseMaps /\ LooseMounts' = LooseMounts /\ LooseFiles' = LooseFiles
    BY <1>0 DEF LooseMaps, LooseMounts, LooseFiles, Left, system
  <2> QED
    BY <1>0, <2>1 DEF StagingInv, LooseInv, OneLoose, Part
<1>3. DriverInv'
  BY <1>0 DEF StagingInv, DriverInv, FilesInv, ScanInv, ModuleInv, Driver, Passed, Left, Wanting, Queued, system
<1> QED
  BY <1>1, <1>2, <1>3 DEF StagingInv

LEMMA TrapKeeps == ASSUME StagingInv, Trap PROVE StagingInv'
<1>0. /\ sh.pc \notin {"stuck", "over"} /\ timer' = "trapped" /\ Fails /\ sh \in Shells
      /\ UNCHANGED <<phone, lists, system>>
  BY DEF Trap, StagingInv, StagingTypeOK
<1>1. sh'.pc = "failing" /\ result' = "failed"
  BY <1>0, GotoType DEF Fails, Points
<1>2. LooseMaps' = LooseMaps /\ LooseMounts' = LooseMounts /\ LooseFiles' = LooseFiles
  BY <1>0 DEF LooseMaps, LooseMounts, LooseFiles, Left, system
<1>3. OneLoose
  <2>1. CASE sh.pc \in Working
    <3>1. sh.item \in Files /\ "vendor" \in PartSet
      BY <1>0, PartitionTypes DEF Shells, Partitions, PartSet
    <3>2. sh.pc \in {"mapped", "mounted"} => Part \in PartSet
      BY PartitionTypes DEF StagingInv, LooseInv, Part
    <3> QED
      BY <2>1, <3>1, <3>2 DEF StagingInv, LooseInv, OneLoose
  <2>2. CASE sh.pc \in Ending
    BY <1>0, <2>2 DEF StagingInv, LooseInv, ResultInv, Ending
  <2>3. sh.pc \in Working \cup Ending
    BY <1>0 DEF Shells, Points, Working, Ending
  <2> QED
    BY <2>1, <2>2, <2>3
<1>4. LooseInv'
  BY <1>0, <1>1, <1>2, <1>3 DEF LooseInv, OneLoose, Working, Ending
<1> QED
  BY <1>0, <1>4, FailsKeeps DEF StagingInv, StagingTypeOK, system

LEMMA KillKeeps == ASSUME StagingInv, Kill PROVE StagingInv'
<1>0. /\ timer # "armed" /\ result' = "killed" /\ UNCHANGED <<phone, lists, system, timer>>
      /\ sh \in Shells
  BY DEF Kill, Killable, StagingInv, StagingTypeOK
<1>1. sh' \in Shells /\ sh'.pc = "over"
  BY <1>0, GotoType DEF Kill, Goto, Points
<1>2. StagingTypeOK' /\ ResultInv'
  BY <1>0, <1>1 DEF StagingInv, StagingTypeOK, ResultInv, Working, system
<1>3. LooseInv'
  BY <1>0, <1>1 DEF LooseInv, Working
<1> QED
  BY <1>0, <1>2, <1>3, DriverFails DEF StagingInv

-----------------------------------------------------------------------------
(***************************************************************************)
(* All of it together.                                                     *)
(***************************************************************************)
LEMMA InitStagingInv == InitStaging => StagingInv
<1> SUFFICES ASSUME InitStaging PROVE StagingInv
  OBVIOUS
<1>1. StagingTypeOK
  BY InitType
<1>2. ResultInv
  BY DEF InitStaging, ResultInv, Working
<1>3. Left = {}
  BY DEF InitStaging, Left
<1>4. LooseInv
  BY <1>3 DEF InitStaging, LooseInv, LooseMaps, LooseMounts, LooseFiles, Working, Ending
<1>5. Driver = {} /\ ~Wanting
  <2>1. 1 .. 1 - 1 = {}
    OBVIOUS
  <2> QED
    BY <2>1 DEF InitStaging, Driver, Passed, Wanting
<1>6. FilesInv /\ ScanInv /\ ModuleInv
  BY <1>3, <1>5 DEF InitStaging, FilesInv, ScanInv, ModuleInv
<1> QED
  BY <1>1, <1>2, <1>4, <1>6 DEF StagingInv, DriverInv

LEMMA NextStagingInv == StagingInv /\ [NextStaging]_stagingvars => StagingInv'
<1> SUFFICES ASSUME StagingInv, [NextStaging]_stagingvars PROVE StagingInv'
  OBVIOUS
<1>1. CASE UNCHANGED stagingvars
  BY <1>1 DEF stagingvars, StagingInv, StagingTypeOK, ResultInv, LooseInv, DriverInv, OneLoose, LooseMaps, LooseMounts,
              LooseFiles, FilesInv, ScanInv, ModuleInv, Driver, Passed, Left, Wanting, Queued, Part
<1> QED
  BY <1>1, AttachKeeps, CreateKeeps, MappedKeeps, MountKeeps, MountedKeeps, PutFirmwareKeeps,
     CopyKeeps, CopiedKeeps, LoadKeeps, WantRootKeeps, WantedKeeps, NextLibKeeps, SkipKeeps,
     WantKeeps, StagedKeeps, RemoveStagedKeeps, UnmountKeeps, UnmapKeeps, ExitKeeps, TermKeeps,
     TrapKeeps, KillKeeps DEF NextStaging, Shell

\* The strengthened invariant holds in every reachable state, whatever the timer does.
THEOREM StagingInvariance == SpecStaging => []StagingInv
  BY InitStagingInv, NextStagingInv, PTL DEF SpecStaging

-----------------------------------------------------------------------------
(***************************************************************************)
(* What the script promises.                                               *)
(***************************************************************************)
\* Every variable keeps its type, whatever fails and whenever a signal comes.
THEOREM StagingTypeCorrect == SpecStaging => []StagingTypeOK
<1>1. StagingInv => StagingTypeOK
  BY DEF StagingInv
<1> QED
  BY <1>1, StagingInvariance, PTL

\* A script that staged the libraries has passed every root and emptied its queue:
\* what it has wanted is whole and closed under the NEEDED entries.
LEMMA DriverWhole ==
    ASSUME StagingInv, sh.pc = "over", result = "staged"
    PROVE  /\ module /\ files[Firmware] = "whole"
           /\ Driver \in SUBSET {l \in Libs : files[l] = "whole"}
           /\ RootSet \cup (Left \ {Firmware}) \subseteq Driver
           /\ \A l \in Driver : Needs[l] \subseteq Driver \cup Shared
<1>1. /\ FilesInv /\ ScanInv /\ ModuleInv /\ ~Wanting
      /\ sh.root \notin DOMAIN Roots /\ sh.queue = <<>> /\ sh.pending = {} /\ sh \in Shells
  BY DEF StagingInv, StagingTypeOK, DriverInv, Wanting, ScanInv
<1>2. Driver \in SUBSET {l \in Libs : files[l] = "whole"}
  BY <1>1, DriverLibs DEF StagingInv, FilesInv
<1>3. RootSet \subseteq Driver
  <2>1. DOMAIN Roots = 1 .. sh.root - 1
    BY <1>1, ConstantTypes DEF Shells
  <2> QED
    BY <2>1 DEF RootSet, Driver, Passed
<1>4. \A l \in Driver : Needs[l] \subseteq Driver \cup Shared
  <2>1. \A l : ~Queued(l)
    BY <1>1 DEF Queued
  <2> QED
    BY <1>1, <2>1 DEF ScanInv, Driver
<1> QED
  BY <1>1, <1>2, <1>3, <1>4 DEF FilesInv, ModuleInv

\* On every phone, for every graph of libraries, with cycles too: if no copy is cut off
\* half way by an error, what the renderer looks for is there with its whole driver, or
\* not at all.
THEOREM DriverIsWhole ==
    ASSUME "partialCopy" \notin StagingFaults
    PROVE  SpecStaging => []WholeOrAbsent
<1>1. StagingInv => WholeOrAbsent
  <2> SUFFICES ASSUME StagingInv, InTime, Roots[1] \in Left PROVE WholeOrAbsent
    BY DEF WholeOrAbsent
  <2>1. sh.pc = "over" /\ timer = "armed"
    BY DEF InTime, Over
  <2>2. result \in {"staged", "failed"}
    BY <2>1 DEF StagingInv, StagingTypeOK, ResultInv
  <2>3. CASE result = "failed"
    <3>1. Left = {}
      BY <2>1, <2>3 DEF StagingInv, ResultInv, LooseInv, LooseFiles, Ending
    <3> QED
      BY <3>1
  <2>4. CASE result = "staged"
    BY <2>1, <2>4, DriverWhole DEF WholeOrAbsent
  <2> QED
    BY <2>2, <2>3, <2>4
<1> QED
  BY <1>1, StagingInvariance, PTL

\* How far the loops of release have come: what they have behind them is gone, or was
\* failed on; a mapping may also be under a mount.
ReleasedInv ==
    /\ sh.pc = "release" =>
         /\ mnt \cap lists.mounts \subseteq sh.mounts \cup lists.stillMounted
         /\ dm \cap lists.maps \subseteq sh.maps \cup mnt \cup lists.stillMapped
         /\ sh.mounts # {} => sh.maps = lists.maps
    /\ sh.pc = "over" /\ result # "killed" =>
         /\ mnt \cap lists.mounts \subseteq lists.stillMounted
         /\ dm \cap lists.maps \subseteq mnt \cup lists.stillMapped
    /\ sh.back \in {"attach", "load", "wanted"}

LEMMA NextReleased ==
    ASSUME StagingTypeOK, ReleasedInv, [NextStaging]_stagingvars
    PROVE  ReleasedInv'
<1>0. sh \in Shells /\ lists \in Lists
  BY DEF StagingTypeOK
<1>1. ASSUME sh'.pc \notin {"release", "over"}, sh'.back \in {sh.back, "load", "wanted"} PROVE ReleasedInv'
  BY <1>1 DEF ReleasedInv
<1>g. ASSUME NEW pc \in Points, Goto(pc) PROVE sh'.pc = pc /\ sh'.back = sh.back
  BY <1>0, <1>g DEF Goto, Shells
<1>f. ASSUME Fails \/ Hangs PROVE sh'.pc \in {"failing", "stuck"} /\ sh'.back = sh.back
  BY <1>0, <1>f DEF Fails, Hangs, Goto, Shells
<1>r. ASSUME Release, UNCHANGED <<dm, mnt, lists>> PROVE ReleasedInv'
  BY <1>0, <1>r, ReleaseType DEF ReleasedInv
<1>2. CASE Attach
  BY <1>0, <1>1, <1>2 DEF Attach, Goto, Shells
<1>3. CASE Create
  BY <1>0, <1>1, <1>3 DEF Create, Goto, Fails, Shells
<1>4. CASE Mapped \/ Mounted
  BY <1>0, <1>1, <1>4 DEF Mapped, Mounted, Goto, Shells
<1>5. CASE Mount \/ Load \/ Copy
  BY <1>0, <1>1, <1>5 DEF Mount, Load, Copy, Goto, Fails, Hangs, Shells
<1>6. CASE PutFirmware
  BY <1>0, <1>1, <1>6 DEF PutFirmware, Put, Shells
<1>8. CASE Copied
  BY <1>0, <1>1, <1>8 DEF Copied, Goto, Shells, ReleasedInv
<1>9. ASSUME NEW l, Wants(l) PROVE ReleasedInv'
  BY <1>0, <1>1, <1>9 DEF Wants, Shells
<1>10. CASE WantRoot
  <2>1. ASSUME sh.pc = "roots", sh' = [sh EXCEPT !.root = @ + 1] PROVE ReleasedInv'
    BY <1>0, <1>1, <2>1 DEF Shells
  <2> QED
    BY <1>1, <1>9, <1>10, <1>f, <2>1 DEF WantRoot
<1>11. CASE Wanted \/ NextLib \/ Skip
  BY <1>0, <1>1, <1>11 DEF Wanted, NextLib, Skip, Scanning, Shells
<1>12. CASE Want
  BY <1>1, <1>9, <1>12, <1>f DEF Want
<1>13. CASE Staged
  BY <1>13, <1>r DEF Staged, system
<1>14. CASE RemoveStaged
  BY <1>1, <1>14, <1>r DEF RemoveStaged
<1>15. CASE Unmount
  <2>1. ASSUME NEW p \in sh.mounts, sh' = [sh EXCEPT !.mounts = @ \ {p}],
               \/ mnt' = mnt \ {p} /\ UNCHANGED lists
               \/ lists' = [lists EXCEPT !.stillMounted = @ \cup {p}] /\ UNCHANGED mnt
        PROVE  ReleasedInv'
    <3>1. /\ sh'.pc = "release" /\ sh'.mounts = sh.mounts \ {p} /\ sh'.maps = sh.maps /\ sh'.back = sh.back
          /\ dm' = dm /\ sh.pc = "release"
      BY <1>0, <1>15, <2>1 DEF Unmount, Shells
    <3>2. /\ lists'.maps = lists.maps /\ lists'.mounts = lists.mounts
          /\ lists'.stillMapped = lists.stillMapped
          /\ mnt' \cap lists.mounts \subseteq (sh.mounts \ {p}) \cup lists'.stillMounted
      BY <1>0, <2>1, <3>1 DEF Lists, ReleasedInv
    <3>3. dm \cap lists.maps \subseteq sh.maps
      BY <2>1, <3>1 DEF ReleasedInv
    <3> QED
      BY <3>1, <3>2, <3>3 DEF ReleasedInv
  <2> QED
    BY <1>1, <1>15, <1>f, <2>1 DEF Unmount
<1>16. CASE Unmap
  <2>1. PICK p \in sh.maps :
          /\ sh' = [sh EXCEPT !.maps = @ \ {p}]
          /\ \/ dm' = dm \ ({p} \ mnt) /\ UNCHANGED lists
             \/ lists' = [lists EXCEPT !.stillMapped = @ \cup {p}] /\ UNCHANGED dm
    BY <1>16 DEF Unmap
  <2>2. /\ sh'.pc = "release" /\ sh'.mounts = {} /\ sh'.maps = sh.maps \ {p} /\ sh'.back = sh.back
        /\ sh.pc = "release" /\ sh.mounts = {} /\ mnt' = mnt
    BY <1>0, <1>16, <2>1 DEF Unmap, Shells
  <2>3. /\ lists'.maps = lists.maps /\ lists'.mounts = lists.mounts
        /\ lists'.stillMounted = lists.stillMounted
        /\ dm' \cap lists.maps \subseteq (sh.maps \ {p}) \cup mnt \cup lists'.stillMapped
    BY <1>0, <2>1, <2>2 DEF Lists, ReleasedInv
  <2> QED
    BY <2>2, <2>3 DEF ReleasedInv
<1>17. CASE Exit
  BY <1>0, <1>17, <1>g DEF Exit, Points, ReleasedInv, system
<1>18. CASE Kill
  BY <1>0, <1>18, <1>g DEF Kill, Points, ReleasedInv
<1>19. CASE Term \/ UNCHANGED stagingvars
  BY <1>19 DEF Term, stagingvars, system, ReleasedInv
<1>20. CASE Trap
  BY <1>1, <1>20, <1>f DEF Trap
<1> QED
  BY <1>2, <1>3, <1>4, <1>5, <1>6, <1>8, <1>10, <1>11, <1>12, <1>13, <1>14, <1>15, <1>16,
     <1>17, <1>18, <1>19, <1>20 DEF NextStaging, Shell

LEMMA AtMostOne ==
    ASSUME NEW x, NEW S, S \subseteq {x}
    PROVE  Cardinality(S) \in {0, 1}
<1>1. S = {} \/ S = {x}
  OBVIOUS
<1> QED
  BY <1>1, FS_EmptySet, FS_Singleton

\* A script that is not killed leaves no partition in use but what umount or dmctl
\* failed on, if it ended in time, and at most one mount, mapping or file besides, if it
\* was told to end; a copy that was cut off counts.
THEOREM LittleIsLeft == SpecStaging => []OneThingLeft
<1>1. StagingInv /\ ReleasedInv => OneThingLeft
  <2> SUFFICES ASSUME StagingInv, ReleasedInv, Over, result # "killed" PROVE OneThingLeft
    BY DEF OneThingLeft
  <2>1. /\ sh.pc = "over" /\ result \in {"staged", "failed"}
        /\ (result = "failed" => lists.staged = {})
    BY DEF Over, StagingInv, StagingTypeOK, ResultInv
  <2>2. Lost \subseteq LooseMaps \cup LooseMounts /\ (result = "failed" => LooseFiles = Left)
    BY <2>1 DEF Lost, LostMaps, LostMounts, LooseMaps, LooseMounts, LooseFiles, ReleasedInv
  <2>3. /\ OneLoose
        /\ timer = "armed" => Lost = {}
    BY <2>1, <2>2 DEF StagingInv, LooseInv, Ending
  <2>4. Cardinality(Lost) \in {0, 1}
    BY <2>2, <2>3, AtMostOne, FS_EmptySet DEF OneLoose
  <2>5. ASSUME result = "failed" PROVE Cardinality(Left) + Cardinality(Lost) <= 1
    <3>1. CASE Left = {}
      BY <2>4, <3>1, FS_EmptySet
    <3>2. CASE Lost = {} /\ \E f \in Files : Left \subseteq {f}
      <4>1. Cardinality(Lost) = 0
        BY <3>2, FS_EmptySet
      <4>2. Cardinality(Left) \in {0, 1}
        BY <3>2, AtMostOne
      <4> QED
        BY <4>1, <4>2
    <3> QED
      BY <2>2, <2>3, <2>5, <3>1, <3>2 DEF OneLoose
  <2>6. Cardinality(Lost) <= 1
    BY <2>4
  <2> QED
    BY <2>3, <2>5, <2>6 DEF OneThingLeft
<1>2. InitStaging => ReleasedInv
  BY DEF InitStaging, ReleasedInv
<1>3. StagingTypeOK /\ ReleasedInv /\ [NextStaging]_stagingvars => ReleasedInv'
  BY NextReleased
<1> QED
  BY <1>1, <1>2, <1>3, StagingInvariance, StagingTypeCorrect, PTL DEF SpecStaging

-----------------------------------------------------------------------------
(***************************************************************************)
(* The ramdisk's own libraries.                                            *)
(***************************************************************************)
RamdiskKept == \A f \in Ramdisk : files[f] = "whole"

\* Nothing of the ramdisk is copied over, so nothing of it is on the list to remove.
RamdiskInv ==
    /\ RamdiskKept
    /\ \A f \in Ramdisk : f \notin lists.staged /\ (sh.pc = "copied" => sh.item # f)
    /\ sh.pc = "copy" => files[sh.item] = "none"
    /\ sh.back \notin {"copy", "copied"}

LEMMA NextRamdisk ==
    ASSUME StagingTypeOK, RamdiskInv, [NextStaging]_stagingvars
    PROVE  RamdiskInv'
<1>0. Ramdisk \subseteq Files /\ sh \in Shells /\ lists \in Lists
  BY StagingAssumption, ConstantTypes DEF StagingTypeOK
<1>1. ASSUME sh'.pc \notin {"copy", "copied"}, sh'.back \in {sh.back, "load", "wanted"},
             UNCHANGED files, lists'.staged = lists.staged
      PROVE  RamdiskInv'
  BY <1>1 DEF RamdiskInv, RamdiskKept
<1>g. ASSUME NEW pc \in Points, Goto(pc) PROVE sh'.pc = pc /\ sh'.back = sh.back /\ sh'.item = sh.item
  BY <1>0, <1>g DEF Goto, Shells
<1>f. ASSUME Fails \/ Hangs PROVE sh'.pc \in {"failing", "stuck"} /\ sh'.back = sh.back /\ sh'.item = sh.item
  BY <1>0, <1>f DEF Fails, Hangs, Goto, Shells
<1>2. CASE Attach
  BY <1>0, <1>1, <1>2 DEF Attach, Goto, Shells, system
<1>3. CASE Create
  BY <1>0, <1>1, <1>3 DEF Create, Goto, Fails, Shells
<1>4. CASE Mapped \/ Mounted
  BY <1>0, <1>1, <1>4 DEF Mapped, RecordMap, Mounted, Goto, Shells, Lists, system
<1>5. CASE Mount \/ Load
  BY <1>0, <1>1, <1>5 DEF Mount, Load, Goto, Fails, Hangs, Shells
<1>6. CASE PutFirmware
  BY <1>0, <1>6 DEF PutFirmware, Put, RamdiskInv, RamdiskKept, Shells, system
<1>7. CASE Copy
  <2>1. files[sh.item] = "none" /\ lists' = lists /\ sh.item \in Files /\ sh.pc = "copy"
    BY <1>0, <1>7 DEF Copy, RamdiskInv, Shells
  <2>2. sh'.item = sh.item /\ sh'.back = sh.back /\ sh'.pc # "copy"
    BY <1>0, <1>7, <1>f, <1>g DEF Copy, Points
  <2>3. \A f \in Files : f # sh.item => files'[f] = files[f]
    BY <1>7 DEF Copy, StagingTypeOK
  <2> QED
    BY <1>0, <2>1, <2>2, <2>3 DEF RamdiskInv, RamdiskKept
<1>8. CASE Copied
  <2>1. /\ lists'.staged = lists.staged \cup {sh.item} /\ files' = files
        /\ sh'.item = sh.item /\ sh'.pc = sh.back /\ sh'.back = sh.back /\ sh.pc = "copied"
    BY <1>0, <1>8 DEF Copied, RecordCopy, Goto, Shells, Lists, system
  <2> QED
    BY <2>1 DEF RamdiskInv, RamdiskKept
<1>9. ASSUME NEW l, Wants(l), l \in Files, UNCHANGED <<lists, files>> PROVE RamdiskInv'
  <2>1. /\ sh'.item = l /\ sh'.back = "wanted"
        /\ \/ sh'.pc = "wanted"
           \/ sh'.pc = "copy" /\ files[l] = "none"
    BY <1>0, <1>9 DEF Wants, Shells
  <2> QED
    BY <1>9, <2>1 DEF RamdiskInv, RamdiskKept
<1>10. CASE WantRoot
  <2>1. Roots[sh.root] \in Files /\ UNCHANGED <<lists, files>> /\ sh.pc = "roots"
    BY <1>10, ConstantTypes DEF WantRoot, system
  <2>2. CASE Wants(Roots[sh.root])
    BY <1>9, <2>1, <2>2
  <2>3. CASE Fails
    BY <1>1, <1>f, <2>1, <2>3
  <2>4. CASE sh' = [sh EXCEPT !.root = @ + 1]
    BY <1>0, <1>1, <2>1, <2>4 DEF Shells
  <2> QED
    BY <1>10, <2>2, <2>3, <2>4 DEF WantRoot
<1>11. CASE Wanted \/ NextLib \/ Skip
  BY <1>0, <1>1, <1>11 DEF Wanted, NextLib, Skip, Scanning, Shells, system
<1>12. CASE Want
  <2>1. UNCHANGED <<lists, files>> /\ phone \subseteq Files
    BY <1>12, StagingAssumption, ConstantTypes DEF Want, system, StagingTypeOK
  <2>2. \/ \E l \in phone : Wants(l)
        \/ Fails
    BY <1>12 DEF Want
  <2> QED
    BY <1>1, <1>9, <1>f, <2>1, <2>2
<1>13. CASE Staged \/ Exit \/ Kill
  BY <1>0, <1>1, <1>13, <1>g, ReleaseType DEF Staged, Exit, Kill, system, Points
<1>14. CASE RemoveStaged
  <2>1. CASE Release /\ UNCHANGED <<lists, files>>
    BY <1>0, <1>1, <2>1, ReleaseType
  <2>2. ASSUME NEW f \in lists.staged, files' = [files EXCEPT ![f] = "none"],
               lists' = [lists EXCEPT !.staged = @ \ {f}], UNCHANGED sh
        PROVE  RamdiskInv'
    <3>1. \A g \in Files : g # f => files'[g] = files[g]
      BY <2>2 DEF StagingTypeOK
    <3>2. lists'.staged \subseteq lists.staged
      BY <1>0, <2>2 DEF Lists
    <3> QED
      BY <1>0, <1>14, <2>2, <3>1, <3>2 DEF RemoveStaged, RamdiskInv, RamdiskKept
  <2> QED
    BY <1>14, <2>1, <2>2 DEF RemoveStaged
<1>15. CASE Unmount \/ Unmap
  BY <1>0, <1>1, <1>15 DEF Unmount, Unmap, Hangs, Goto, Lists, Shells
<1>16. CASE Term \/ UNCHANGED stagingvars
  BY <1>16 DEF Term, stagingvars, system, RamdiskInv, RamdiskKept
<1>17. CASE Trap
  BY <1>1, <1>17, <1>f DEF Trap, system
<1> QED
  BY <1>2, <1>3, <1>4, <1>5, <1>6, <1>7, <1>8, <1>10, <1>11, <1>12, <1>13, <1>14, <1>15, <1>16,
     <1>17 DEF NextStaging, Shell

\* What the ramdisk came with is never copied over and never removed, by a script that
\* fails or is told to end either.
THEOREM RamdiskStays == SpecStaging => []RamdiskKept
<1>1. InitStaging => RamdiskInv
  <2> SUFFICES ASSUME InitStaging PROVE RamdiskInv
    OBVIOUS
  <2>1. \A f \in Ramdisk : files[f] = "whole"
    BY StagingAssumption, ConstantTypes DEF InitStaging
  <2> QED
    BY <2>1 DEF InitStaging, RamdiskInv, RamdiskKept
<1>2. StagingTypeOK /\ RamdiskInv /\ [NextStaging]_stagingvars => RamdiskInv'
  BY NextRamdisk
<1>3. RamdiskInv => RamdiskKept
  BY DEF RamdiskInv
<1> QED
  BY <1>1, <1>2, <1>3, StagingTypeCorrect, PTL DEF SpecStaging

-----------------------------------------------------------------------------
(***************************************************************************)
(* The renderer: first what each part of IInv needs to be kept, then the   *)
(* properties.                                                             *)
(***************************************************************************)
\* A context is current on the thread that draws the frame, or on none.
LEMMA HolderStep == IInv /\ [Next]_vars => HolderInv'
<1> SUFFICES ASSUME IInv, [Next]_vars PROVE HolderInv'
  OBVIOUS
<1> USE DEF HolderInv, IInv
<1>1. ASSUME NEW t \in Threads, StartFrame(t) PROVE HolderInv'
  BY <1>1 DEF StartFrame, Rest
<1>2. ASSUME NEW t \in Threads, Read(t) PROVE HolderInv'
  BY <1>2 DEF Read, Begin, BeginFails, End
<1>3. CASE Clear
  BY <1>3 DEF Clear, Begin, BeginFails, OnCpu
<1>4. ASSUME NEW w \in Widgets, NEW a \in Addrs, Blit(w, a) PROVE HolderInv'
  <2>1. frame.pc = "draw" /\ frame \in [pc : {"none", "draw", "upload", "texture"},
            thread : Threads \cup {"nobody"}, widget : Widgets \cup {"none"},
            addr : Addrs \cup {"none"}, tex : Texs \cup {"none"}]
    BY <1>4 DEF Blit, TypeOK
  <2>2. CASE Begin(frame.thread, frame.thread)
             /\ frame' = [frame EXCEPT !.pc = "upload", !.widget = w, !.addr = a]
    BY <2>1, <2>2 DEF Begin
  <2>3. CASE BeginFails(frame.thread) /\ UNCHANGED frame
    BY <2>1, <2>3 DEF BeginFails
  <2>4. CASE OnCpu /\ UNCHANGED frame
    BY <2>1, <2>4 DEF OnCpu
  <2> QED
    BY <1>4, <2>2, <2>3, <2>4 DEF Blit
<1>5. CASE UploadHit \/ UploadMiss
  BY <1>5 DEF UploadHit, UploadMiss, TypeOK
<1>6. CASE DrawTexture
  BY <1>6 DEF DrawTexture, Rest
<1>7. CASE Flip
  BY <1>7, GpuRendererAssumption DEF Flip, Begin, BeginFails, OnCpu, End, FrameInv
<1>8. ASSUME NEW a \in Addrs,
             (\E d \in Data, i \in Images : Alloc(a, d, i) \/ Redescribe(a, d, i)) \/ Forget(a) \/ Free(a)
      PROVE  HolderInv'
  BY <1>8 DEF Alloc, Redescribe, Forget, Free
<1>9. CASE UNCHANGED vars
  BY <1>9 DEF vars
<1> QED
  BY <1>1, <1>2, <1>3, <1>4, <1>5, <1>6, <1>7, <1>8, <1>9 DEF Next

\* Nothing is cached of a surface that is gone or leaving.
LEMMA LivingStep == IInv /\ [Next]_vars => CacheOfTheLiving'
<1> SUFFICES ASSUME IInv, [Next]_vars PROVE CacheOfTheLiving'
  OBVIOUS
<1> USE DEF CacheOfTheLiving, IInv, TypeOK, surfaces
<1>1. ASSUME NEW t \in Threads, StartFrame(t) PROVE CacheOfTheLiving'
  BY <1>1 DEF StartFrame
<1>2. ASSUME NEW t \in Threads, Read(t) PROVE CacheOfTheLiving'
  BY <1>2 DEF Read
<1>3. CASE Clear
  BY <1>3 DEF Clear
<1>4. ASSUME NEW w \in Widgets, NEW a \in Addrs, Blit(w, a) PROVE CacheOfTheLiving'
  BY <1>4 DEF Blit
<1>5. CASE UploadHit
  BY <1>5 DEF UploadHit
<1>6. CASE UploadMiss
  BY <1>6 DEF UploadMiss, FrameInv, NoEntry
<1>7. CASE DrawTexture
  BY <1>7 DEF DrawTexture
<1>8. CASE Flip
  BY <1>8 DEF Flip
<1>9. ASSUME NEW a \in Addrs, NEW d \in Data, NEW i \in Images, Alloc(a, d, i) PROVE CacheOfTheLiving'
  BY <1>9, GpuRendererAssumption DEF Alloc, Nothing
<1>10. ASSUME NEW a \in Addrs, NEW d \in Data, NEW i \in Images, Redescribe(a, d, i) PROVE CacheOfTheLiving'
  BY <1>10, GpuRendererAssumption DEF Redescribe, Nothing
<1>11. ASSUME NEW a \in Addrs, Forget(a) PROVE CacheOfTheLiving'
  BY <1>11 DEF Forget, Forgotten
<1>12. ASSUME NEW a \in Addrs, Free(a) PROVE CacheOfTheLiving'
  BY <1>12 DEF Free
<1>13. CASE UNCHANGED vars
  BY <1>13 DEF vars
<1> QED
  BY <1>1, <1>2, <1>3, <1>4, <1>5, <1>6, <1>7, <1>8, <1>9, <1>10, <1>11, <1>12, <1>13 DEF Next

\* The frame has a thread, and in its hand a surface that lives or a texture that shows.
LEMMA FrameStep == IInv /\ [Next]_vars => FrameInv'
<1> SUFFICES ASSUME IInv, [Next]_vars PROVE FrameInv'
  OBVIOUS
<1> USE DEF FrameInv, IInv, surfaces
<1>1. ASSUME NEW t \in Threads, StartFrame(t) PROVE FrameInv'
  BY <1>1 DEF StartFrame, Rest
<1>2. ASSUME NEW t \in Threads, Read(t) PROVE FrameInv'
  BY <1>2 DEF Read, Begin, BeginFails, OnCpu, TypeOK
<1>3. CASE Clear
  BY <1>3 DEF Clear, Begin, BeginFails, OnCpu, TypeOK
<1>4. ASSUME NEW w \in Widgets, NEW a \in Addrs, Blit(w, a) PROVE FrameInv'
  BY <1>4 DEF Blit, Begin, BeginFails, OnCpu, TypeOK
<1>5. CASE UploadHit
  BY <1>5, GpuRendererAssumption DEF UploadHit, TypeOK, Current, EachTextureOwned, Cached, NoEntry
<1>6. CASE UploadMiss
  BY <1>6, GpuRendererAssumption DEF UploadMiss, TypeOK
<1>7. CASE DrawTexture
  BY <1>7 DEF DrawTexture, Rest
<1>8. CASE Flip
  BY <1>8 DEF Flip, Rest
<1>9. ASSUME NEW a \in Addrs, NEW d \in Data, NEW i \in Images, Alloc(a, d, i) PROVE FrameInv'
  BY <1>9, GpuRendererAssumption DEF Alloc, Nothing, TypeOK
<1>10. ASSUME NEW a \in Addrs, NEW d \in Data, NEW i \in Images, Redescribe(a, d, i) PROVE FrameInv'
  BY <1>10, GpuRendererAssumption DEF Redescribe, InHand, Nothing, TypeOK
<1>11. ASSUME NEW a \in Addrs, Forget(a) PROVE FrameInv'
  BY <1>11 DEF Forget, InHand, TypeOK
<1>12. ASSUME NEW a \in Addrs, Free(a) PROVE FrameInv'
  BY <1>12 DEF Free, InHand, TypeOK
<1>13. CASE UNCHANGED vars
  BY <1>13 DEF vars
<1> QED
  BY <1>1, <1>2, <1>3, <1>4, <1>5, <1>6, <1>7, <1>8, <1>9, <1>10, <1>11, <1>12, <1>13 DEF Next

\* EachTextureOwned, said of one texture at a time.
OwnedEach ==
    /\ \A x \in Texs : texs[x] # "none" <=> (x \in doomed \/ \E a \in Addrs : cache[a].tex = x)
    /\ \A a \in Addrs : cache[a].tex \notin doomed
    /\ \A a, b \in Addrs : cache[a].tex # "none" /\ cache[a].tex = cache[b].tex => a = b

\* The entry of an address has a texture unless there is none.
LEMMA Entries ==
    ASSUME TypeOK, NEW a \in Addrs
    PROVE  /\ cache[a].tex \in Texs \cup {"none"}
           /\ cache[a] # NoEntry <=> cache[a].tex # "none"
           /\ cache[a] # NoEntry => cache[a] = [data |-> cache[a].data, tex |-> cache[a].tex]
                                    /\ cache[a].data \in Data /\ cache[a].tex \in Texs
  BY GpuRendererAssumption DEF TypeOK, NoEntry

LEMMA OwnedIsEach == TypeOK => (EachTextureOwned <=> OwnedEach)
<1> SUFFICES ASSUME TypeOK PROVE EachTextureOwned <=> OwnedEach
  OBVIOUS
<1>1. \A x : x \in Cached <=> x # "none" /\ \E a \in Addrs : cache[a].tex = x
  BY DEF Cached
<1>2. Cached \subseteq Texs /\ doomed \subseteq Texs /\ "none" \notin Texs
  BY <1>1, Entries, GpuRendererAssumption DEF TypeOK
<1>3. {x \in Texs : texs[x] # "none"} = Cached \cup doomed
        <=> \A x \in Texs : texs[x] # "none" <=> x \in Cached \cup doomed
  BY <1>2
<1>4. Cached \cap doomed = {} <=> \A a \in Addrs : cache[a].tex \notin doomed
  BY <1>1, <1>2
<1>5. (\A a, b \in Addrs : cache[a] # NoEntry /\ cache[a].tex = cache[b].tex => a = b)
        <=> \A a, b \in Addrs : cache[a].tex # "none" /\ cache[a].tex = cache[b].tex => a = b
  BY Entries
<1> QED
  BY <1>1, <1>2, <1>3, <1>4, <1>5 DEF EachTextureOwned, OwnedEach

DriverType == active \in BOOLEAN /\ holder \in Threads \cup {"nobody"} /\ doomed \subseteq Texs
                /\ texs \in [Texs -> Images \cup {"none"}]

LEMMA DriverStep ==
    ASSUME TypeOK, NEW t \in Threads, NEW next \in Threads \cup {"nobody"},
           Begin(t, next) \/ BeginFails(t) \/ OnCpu
    PROVE  DriverType'
<1>1. CASE Begin(t, next)
  BY <1>1 DEF Begin, TypeOK, DriverType
<1>2. CASE BeginFails(t)
  BY <1>2 DEF BeginFails, TypeOK, DriverType
<1>3. CASE OnCpu
  BY <1>3 DEF OnCpu, TypeOK, DriverType
<1> QED
  BY <1>1, <1>2, <1>3

FrameType == frame \in [pc : {"none", "draw", "upload", "texture"}, thread : Threads \cup {"nobody"},
                         widget : Widgets \cup {"none"}, addr : Addrs \cup {"none"},
                         tex : Texs \cup {"none"}]

\* Types are kept; the canvas needs a texture that shows.
LEMMA TypeStep == IInv /\ [Next]_vars => TypeOK'
<1> SUFFICES ASSUME IInv, [Next]_vars PROVE TypeOK'
  OBVIOUS
<1> USE DEF TypeOK, IInv, surfaces, screen
<1>1. ASSUME NEW t \in Threads, StartFrame(t) PROVE TypeOK'
  BY <1>1 DEF StartFrame, Rest
<1>2. ASSUME NEW t \in Threads, Read(t) PROVE TypeOK'
  BY <1>2 DEF Read, Begin, BeginFails, OnCpu, End
<1>3. CASE Clear
  <2>1. DriverType'
    BY <1>3, DriverStep DEF Clear, FrameInv
  <2>2. Blank \in Frames
    BY DEF Blank, Frames
  <2> QED
    BY <1>3, <2>1, <2>2 DEF Clear, DriverType
<1>4. ASSUME NEW w \in Widgets, NEW a \in Addrs, Blit(w, a) PROVE TypeOK'
  <2>1. DriverType'
    BY <1>4, DriverStep DEF Blit, FrameInv
  <2>2. gui' \in Frames /\ cpu' \in Frames
    BY <1>4 DEF Blit, Frames, Nothing
  <2>3. FrameType'
    BY <1>4 DEF Blit, FrameType
  <2> QED
    BY <1>4, <2>1, <2>2, <2>3 DEF Blit, DriverType, FrameType
<1>5. CASE UploadHit
  <2>1. cache[frame.addr].tex \in Texs
    BY <1>5, Entries DEF UploadHit, Current, FrameInv
  <2>2. FrameType'
    BY <1>5, <2>1 DEF UploadHit, FrameType
  <2> QED
    BY <1>5, <2>2 DEF UploadHit, FrameType
<1>6. CASE UploadMiss
  <2> DEFINE a == frame.addr
             left == [x \in Texs |-> IF x \in Outdated(a) THEN "none" ELSE texs[x]]
  <2>1. a \in Addrs /\ heap[a] \in [data : Data, image : Images]
    BY <1>6 DEF UploadMiss, FrameInv
  <2>2. left \in [Texs -> Images \cup {"none"}]
    OBVIOUS
  <2>3. PICK x \in Texs : /\ texs' = [left EXCEPT ![x] = heap[a].image]
                         /\ cache' = [cache EXCEPT ![a] = [data |-> heap[a].data, tex |-> x]]
                         /\ frame' = [frame EXCEPT !.pc = "texture", !.tex = x]
    BY <1>6 DEF UploadMiss
  <2>4. texs' \in [Texs -> Images \cup {"none"}]
    BY <2>1, <2>2, <2>3
  <2>5. cache' \in [Addrs -> [data : Data, tex : Texs] \cup {NoEntry}]
    BY <2>1, <2>3
  <2>6. FrameType'
    BY <2>3 DEF FrameType
  <2> QED
    BY <1>6, <2>4, <2>5, <2>6 DEF UploadMiss, FrameType
<1>7. CASE DrawTexture
  BY <1>7 DEF DrawTexture, Rest, FrameInv, Frames
<1>8. CASE Flip
  <2>1. DriverType'
    BY <1>8, DriverStep DEF Flip, FrameInv, End
  <2>2. FrameType'
    BY <1>8 DEF Flip, Rest, FrameType
  <2>3. disp' \in [planes : {"heap", "dumb"}, shown : {0, 1}, back : {0, 1}]
    <3>1. Show
      BY <1>8 DEF Flip, CpuFlip
    <3> QED
      <4>1. 1 - disp.back \in {0, 1} /\ disp.back \in {0, 1}
        OBVIOUS
      <4> QED
        BY <3>1, <4>1 DEF Show, NextBack
  <2>4. bufs' = [bufs EXCEPT !["heap"][disp.back] = canvas] \/ bufs' = [bufs EXCEPT !["dumb"][disp.back] = cpu]
    BY <1>8 DEF Flip, CpuFlip
  <2>5. bufs' \in [{"heap", "dumb"} -> [{0, 1} -> Frames]]
    BY <2>4
  <2> QED
    BY <1>8, <2>1, <2>2, <2>3, <2>5 DEF Flip, DriverType, FrameType
<1>9. ASSUME NEW a \in Addrs, NEW d \in Data, NEW i \in Images, Alloc(a, d, i) PROVE TypeOK'
  BY <1>9 DEF Alloc
<1>10. ASSUME NEW a \in Addrs, NEW d \in Data, NEW i \in Images, Redescribe(a, d, i) PROVE TypeOK'
  BY <1>10 DEF Redescribe
<1>11. ASSUME NEW a \in Addrs, Forget(a) PROVE TypeOK'
  BY <1>11 DEF Forget, Forgotten
<1>12. ASSUME NEW a \in Addrs, Free(a) PROVE TypeOK'
  BY <1>12 DEF Free
<1>13. CASE UNCHANGED vars
  BY <1>13 DEF vars
<1> QED
  BY <1>1, <1>2, <1>3, <1>4, <1>5, <1>6, <1>7, <1>8, <1>9, <1>10, <1>11, <1>12, <1>13 DEF Next

\* What a missed upload changes: the texture x is that of the surface in hand, and
\* the one the surface had before is gone or is x again.
Uploaded(x) ==
    /\ frame.addr \in Addrs /\ heap[frame.addr].image \in Images
    /\ cache' = [cache EXCEPT ![frame.addr] = [data |-> heap[frame.addr].data, tex |-> x]]
    /\ frame' = [frame EXCEPT !.pc = "texture", !.tex = x]
    /\ texs'[x] = heap[frame.addr].image
    /\ \A y \in Texs \ {x} : texs'[y] = IF y = cache[frame.addr].tex THEN "none" ELSE texs[y]
    /\ x = cache[frame.addr].tex \/ texs[x] = "none"
    /\ \A b \in Addrs \ {frame.addr} :
         cache[b].tex # x /\ (cache[b].tex # "none" => cache[b].tex # cache[frame.addr].tex)

LEMMA Miss ==
    ASSUME IInv, UploadMiss
    PROVE  \E x \in Texs : Uploaded(x)
<1> DEFINE a == frame.addr
           left == [x \in Texs |-> IF x \in Outdated(a) THEN "none" ELSE texs[x]]
<1>1. a \in Addrs /\ heap[a].image \in Images
  BY DEF UploadMiss, IInv, FrameInv, TypeOK
<1>2. PICK x \in Texs : /\ left[x] = "none" /\ texs' = [left EXCEPT ![x] = heap[a].image]
                       /\ cache' = [cache EXCEPT ![a] = [data |-> heap[a].data, tex |-> x]]
                       /\ frame' = [frame EXCEPT !.pc = "texture", !.tex = x]
  BY DEF UploadMiss
<1>3. \A y \in Texs : left[y] = IF y = cache[a].tex THEN "none" ELSE texs[y]
  BY DEF Outdated
<1>4. texs'[x] = heap[a].image /\ \A y \in Texs \ {x} : texs'[y] = left[y]
  BY <1>2
<1>5. x = cache[a].tex \/ texs[x] = "none"
  BY <1>2, <1>3
<1>6. OwnedEach
  BY OwnedIsEach DEF IInv
<1>7. ASSUME NEW b \in Addrs \ {a} PROVE cache[b].tex # x
  <2>1. x # "none"
    BY GpuRendererAssumption
  <2>2. CASE x = cache[a].tex
    BY <2>1, <2>2, <1>1, <1>6 DEF OwnedEach
  <2>3. CASE texs[x] = "none"
    BY <2>3, <1>6 DEF OwnedEach
  <2> QED
    BY <2>2, <2>3, <1>5
<1>8. \A b \in Addrs \ {a} : cache[b].tex # "none" => cache[b].tex # cache[a].tex
  BY <1>1, <1>6 DEF OwnedEach
<1> QED
  BY <1>1, <1>2, <1>3, <1>4, <1>5, <1>7, <1>8 DEF Uploaded

\* A texture changes its owner, or is deleted, only where nobody has it any more.
LEMMA OwnedStep == IInv /\ [Next]_vars => OwnedEach'
<1> SUFFICES ASSUME IInv, [Next]_vars PROVE OwnedEach'
  OBVIOUS
<1> USE DEF OwnedEach, surfaces
<1>0. OwnedEach /\ TypeOK
  BY OwnedIsEach DEF IInv
<1>1. ASSUME NEW t \in Threads, StartFrame(t) PROVE OwnedEach'
  BY <1>1, <1>0 DEF StartFrame
<1>2. ASSUME NEW t \in Threads, Read(t) PROVE OwnedEach'
  BY <1>2, <1>0 DEF Read, Begin, BeginFails
<1>3. CASE Clear
  BY <1>3, <1>0 DEF Clear, Begin, BeginFails, OnCpu
<1>4. ASSUME NEW w \in Widgets, NEW a \in Addrs, Blit(w, a) PROVE OwnedEach'
  BY <1>4, <1>0 DEF Blit, Begin, BeginFails, OnCpu
<1>5. CASE UploadHit
  BY <1>5, <1>0 DEF UploadHit
<1>6. CASE UploadMiss
  <2> USE DEF Uploaded
  <2>1. PICK x \in Texs : Uploaded(x)
    BY <1>6, Miss
  <2>2. cache'[frame.addr].tex = x /\ \A b \in Addrs \ {frame.addr} : cache'[b] = cache[b]
    BY <2>1, <1>0 DEF TypeOK
  <2>4. doomed' = doomed /\ x \notin doomed
    BY <1>6, <2>1, <1>0 DEF UploadMiss
  <2>5. \A y \in Texs : texs'[y] # "none" <=> (y \in doomed \/ \E b \in Addrs : cache'[b].tex = y)
    <3> SUFFICES ASSUME NEW y \in Texs
                 PROVE  texs'[y] # "none" <=> (y \in doomed \/ \E b \in Addrs : cache'[b].tex = y)
      OBVIOUS
    <3>1. CASE y = x
      BY <3>1, <2>1, <2>2, GpuRendererAssumption
    <3>2. CASE y # x /\ y = cache[frame.addr].tex
      BY <3>2, <2>1, <2>2, <1>0, GpuRendererAssumption
    <3>3. CASE y # x /\ y # cache[frame.addr].tex
      BY <3>3, <2>1, <2>2, <1>0
    <3> QED
      BY <3>1, <3>2, <3>3
  <2> QED
    BY <2>1, <2>2, <2>4, <2>5, <1>0
<1>7. CASE DrawTexture
  BY <1>7, <1>0 DEF DrawTexture
<1>8. CASE Flip
  BY <1>8, <1>0 DEF Flip, Begin, BeginFails, OnCpu
<1>9. ASSUME NEW a \in Addrs, NEW d \in Data, NEW i \in Images, Alloc(a, d, i) PROVE OwnedEach'
  BY <1>9, <1>0 DEF Alloc
<1>10. ASSUME NEW a \in Addrs, NEW d \in Data, NEW i \in Images, Redescribe(a, d, i) PROVE OwnedEach'
  BY <1>10, <1>0 DEF Redescribe
<1>11. ASSUME NEW a \in Addrs, Forget(a) PROVE OwnedEach'
  <2>1. cache[a].tex \in Texs \cup {"none"}
    BY <1>0, Entries
  <2>2. cache'[a].tex = "none" /\ \A b \in Addrs \ {a} : cache'[b] = cache[b]
    BY <1>11, <1>0 DEF Forget, Forgotten, NoEntry, TypeOK
  <2>3. texs' = texs /\ \A y \in Texs : y \in doomed' <=> y \in doomed \/ y = cache[a].tex
    BY <1>11 DEF Forget
  <2>4. \A b \in Addrs : cache'[b].tex # "none" => b # a /\ cache'[b].tex = cache[b].tex
    BY <2>2
  <2>5. \A b \in Addrs : cache'[b].tex \notin doomed'
    BY <2>1, <2>2, <2>4, <1>0, <1>11, GpuRendererAssumption DEF Forget, TypeOK
  <2>6. \A y \in Texs : texs'[y] # "none" <=> (y \in doomed' \/ \E b \in Addrs : cache'[b].tex = y)
    BY <2>1, <2>2, <2>3, <1>0, GpuRendererAssumption
  <2>7. \A b, c \in Addrs : cache'[b].tex # "none" /\ cache'[b].tex = cache'[c].tex => b = c
    BY <2>4, <1>0
  <2> QED
    BY <2>5, <2>6, <2>7
<1>12. ASSUME NEW a \in Addrs, Free(a) PROVE OwnedEach'
  BY <1>12, <1>0 DEF Free
<1>13. CASE UNCHANGED vars
  BY <1>13, <1>0 DEF vars
<1> QED
  BY <1>1, <1>2, <1>3, <1>4, <1>5, <1>6, <1>7, <1>8, <1>9, <1>10, <1>11, <1>12, <1>13 DEF Next

\* A deleted texture is not that of a surface.
LEMMA DriverKeepsImage ==
    ASSUME TypeOK, OwnedEach, ImageInv, UNCHANGED <<cache, heap>>, NEW t, NEW next,
           Begin(t, next) \/ BeginFails(t) \/ OnCpu
    PROVE  ImageInv'
<1> SUFFICES ASSUME NEW a \in Addrs, Current(a)' PROVE texs'[cache[a].tex] = heap[a].image
  BY DEF ImageInv
<1>1. Current(a) /\ cache[a].tex \in Texs /\ cache[a].tex \notin doomed
  BY Entries DEF Current, OwnedEach
<1>2. texs'[cache[a].tex] = texs[cache[a].tex]
  BY <1>1 DEF Begin, BeginFails, OnCpu
<1> QED
  BY <1>1, <1>2 DEF ImageInv

\* What is cached of a surface shows it.
LEMMA ImageStep == IInv /\ [Next]_vars => ImageInv'
<1> SUFFICES ASSUME IInv, [Next]_vars PROVE ImageInv'
  OBVIOUS
<1> USE DEF ImageInv, Current, surfaces
<1>0. ImageInv /\ OwnedEach /\ TypeOK /\ FrameInv /\ CacheOfTheLiving
  BY OwnedIsEach DEF IInv
<1>1. ASSUME NEW t \in Threads, StartFrame(t) PROVE ImageInv'
  BY <1>1, <1>0 DEF StartFrame
<1>2. ASSUME NEW t \in Threads, Read(t) PROVE ImageInv'
  BY <1>2, <1>0, DriverKeepsImage DEF Read
<1>3. CASE Clear
  BY <1>3, <1>0, DriverKeepsImage DEF Clear
<1>4. ASSUME NEW w \in Widgets, NEW a \in Addrs, Blit(w, a) PROVE ImageInv'
  BY <1>4, <1>0, DriverKeepsImage DEF Blit
<1>5. CASE UploadHit
  BY <1>5, <1>0 DEF UploadHit
<1>6. CASE UploadMiss
  <2> USE DEF Uploaded
  <2>1. PICK x \in Texs : Uploaded(x)
    BY <1>6, Miss
  <2>2. cache'[frame.addr].tex = x /\ \A b \in Addrs \ {frame.addr} : cache'[b] = cache[b]
    BY <2>1, <1>0 DEF TypeOK
  <2>3. heap' = heap
    BY <1>6 DEF UploadMiss
  <2>4. ASSUME NEW b \in Addrs, Current(b)' PROVE texs'[cache'[b].tex] = heap[b].image
    <3>1. CASE b = frame.addr
      BY <3>1, <2>1, <2>2
    <3>2. CASE b # frame.addr
      <4>1. Current(b) /\ cache[b].tex \in Texs /\ cache[b].tex # "none"
        BY <2>4, <3>2, <2>2, <2>3, <1>0, Entries, GpuRendererAssumption
      <4>2. texs'[cache[b].tex] = texs[cache[b].tex]
        BY <4>1, <3>2, <2>1
      <4> QED
        BY <3>2, <4>1, <4>2, <2>2, <1>0
    <3> QED
      BY <3>1, <3>2
  <2> QED
    BY <2>3, <2>4
<1>7. CASE DrawTexture
  BY <1>7, <1>0 DEF DrawTexture
<1>8. CASE Flip
  BY <1>8, <1>0, DriverKeepsImage DEF Flip
<1>9. ASSUME NEW a \in Addrs, NEW d \in Data, NEW i \in Images, Alloc(a, d, i) PROVE ImageInv'
  BY <1>9, <1>0 DEF Alloc, CacheOfTheLiving
<1>10. ASSUME NEW a \in Addrs, NEW d \in Data, NEW i \in Images, Redescribe(a, d, i) PROVE ImageInv'
  BY <1>10, <1>0 DEF Redescribe
<1>11. ASSUME NEW a \in Addrs, Forget(a) PROVE ImageInv'
  BY <1>11, <1>0 DEF Forget, Forgotten
<1>12. ASSUME NEW a \in Addrs, Free(a) PROVE ImageInv'
  BY <1>12, <1>0 DEF Free, CacheOfTheLiving
<1>13. CASE UNCHANGED vars
  BY <1>13, <1>0 DEF vars
<1> QED
  BY <1>1, <1>2, <1>3, <1>4, <1>5, <1>6, <1>7, <1>8, <1>9, <1>10, <1>11, <1>12, <1>13 DEF Next

\* A frame keeps the fields that are not set.
LEMMA FrameFields ==
    ASSUME TypeOK
    PROVE  /\ \A w, a : LET f == [frame EXCEPT !.pc = "upload", !.widget = w, !.addr = a]
                        IN f.pc = "upload" /\ f.widget = w /\ f.addr = a
           /\ \A x : LET f == [frame EXCEPT !.pc = "texture", !.tex = x]
                     IN f.pc = "texture" /\ f.tex = x /\ f.widget = frame.widget
BY DEF TypeOK

\* The back buffer is shown, and the other one is the next back buffer.
LEMMA Shown ==
    ASSUME TypeOK, Show
    PROVE  disp'.planes = disp.planes /\ disp'.shown = disp.back /\ disp'.shown # disp'.back
<1>1. disp.back \in {0, 1} /\ 1 - disp.back # disp.back
  BY DEF TypeOK
<1>2. /\ disp'.planes = disp.planes /\ disp'.shown = disp.back
      /\ disp'.back = 1 - disp.back
  BY DEF TypeOK, Show, NextBack
<1> QED
  BY <1>1, <1>2

\* Each step of a blit brings the canvas nearer to what the GUI has drawn.
LEMMA PictureStep == IInv /\ [Next]_vars => PictureInv'
<1> SUFFICES ASSUME IInv, [Next]_vars PROVE PictureInv'
  OBVIOUS
<1> USE DEF PictureInv, IInv, surfaces, screen
<1>1. ASSUME NEW t \in Threads, StartFrame(t) PROVE PictureInv'
  BY <1>1 DEF StartFrame, Rest
<1>2. ASSUME NEW t \in Threads, Read(t) PROVE PictureInv'
  BY <1>2 DEF Read, Begin, BeginFails
<1>3. CASE Clear
  BY <1>3 DEF Clear, Begin, BeginFails, OnCpu
<1>4. ASSUME NEW w \in Widgets, NEW a \in Addrs, Blit(w, a) PROVE PictureInv'
  <2>1. gui' = [gui EXCEPT ![w] = heap[a].image] /\ frame.pc = "draw"
        /\ UNCHANGED <<heap, canvas, disp>>
    BY <1>4 DEF Blit
  <2>2. CASE Begin(frame.thread, frame.thread)
    <3>1. active /\ active'
      BY <2>2 DEF Begin
    <3>2. disp.planes = "heap"
      BY <3>1 DEF TypeOK
    <3>3. canvas = gui
      BY <2>1, <3>1, <3>2
    <3>4. frame' = [frame EXCEPT !.pc = "upload", !.widget = w, !.addr = a]
      BY <1>4, <3>1 DEF Blit, BeginFails, OnCpu, Begin
    <3>5. frame'.pc = "upload" /\ frame'.widget = w /\ frame'.addr = a
      BY <3>4, FrameFields
    <3> QED
      BY <2>1, <3>2, <3>3, <3>5
  <2>3. CASE BeginFails(frame.thread)
    <3>1. active /\ ~active'
      BY <2>3 DEF BeginFails
    <3> QED
      BY <2>1, <3>1 DEF TypeOK
  <2>4. CASE ~active
    <3>1. ~active' /\ cpu' = [cpu EXCEPT ![w] = heap[a].image] /\ frame' = frame
      BY <1>4, <2>4 DEF Blit, Begin, BeginFails, OnCpu
    <3> QED
      BY <2>1, <2>4, <3>1
  <2> QED
    BY <1>4, <2>2, <2>3, <2>4 DEF Blit, OnCpu
<1>5. CASE UploadHit
  BY <1>5 DEF UploadHit, TypeOK, ImageInv, FrameInv
<1>6. CASE UploadMiss
  <2>1. PICK x \in Texs : Uploaded(x)
    BY <1>6, Miss
  <2>2. frame.pc = "upload" /\ UNCHANGED <<active, heap, gui, canvas, cpu, disp>>
    BY <1>6 DEF UploadMiss
  <2>3. frame'.pc = "texture" /\ frame'.tex = x /\ frame'.widget = frame.widget
    BY <2>1, FrameFields DEF Uploaded
  <2>4. texs'[x] = heap[frame.addr].image
    BY <2>1 DEF Uploaded
  <2> QED
    BY <2>2, <2>3, <2>4
<1>7. CASE DrawTexture
  BY <1>7 DEF DrawTexture, Rest, FrameInv, TypeOK
<1>8. CASE Flip
  <2>1. disp'.planes = disp.planes /\ disp'.shown # disp'.back
    BY <1>8, Shown DEF Flip, CpuFlip
  <2>2. frame.pc = "draw" /\ frame'.pc = "none" /\ UNCHANGED <<gui, canvas, cpu>>
    BY <1>8 DEF Flip, Rest
  <2>3. active' => active
    BY <1>8 DEF Flip, Begin, BeginFails, OnCpu
  <2> QED
    BY <2>1, <2>2, <2>3 DEF TypeOK
<1>9. ASSUME NEW a \in Addrs, NEW d \in Data, NEW i \in Images, Alloc(a, d, i) PROVE PictureInv'
  BY <1>9 DEF Alloc, FrameInv, TypeOK
<1>10. ASSUME NEW a \in Addrs, NEW d \in Data, NEW i \in Images, Redescribe(a, d, i) PROVE PictureInv'
  BY <1>10 DEF Redescribe, FrameInv, InHand, TypeOK
<1>11. ASSUME NEW a \in Addrs, Forget(a) PROVE PictureInv'
  BY <1>11 DEF Forget
<1>12. ASSUME NEW a \in Addrs, Free(a) PROVE PictureInv'
  BY <1>12 DEF Free, FrameInv, TypeOK
<1>13. CASE UNCHANGED vars
  BY <1>13 DEF vars
<1> QED
  BY <1>1, <1>2, <1>3, <1>4, <1>5, <1>6, <1>7, <1>8, <1>9, <1>10, <1>11, <1>12, <1>13 DEF Next

\* A flip shows the canvas on which the GUI has drawn.
LEMMA ShownStep == IInv /\ [Next]_vars => ShownIsDrawn'
<1> SUFFICES ASSUME IInv, [Next]_vars PROVE ShownIsDrawn'
  OBVIOUS
<1> USE DEF ShownIsDrawn, Intact, IInv, surfaces, screen
<1>1. ASSUME NEW t \in Threads, StartFrame(t) PROVE ShownIsDrawn'
  BY <1>1 DEF StartFrame, Rest
<1>2. ASSUME NEW t \in Threads, Read(t) PROVE ShownIsDrawn'
  BY <1>2 DEF Read, Begin, BeginFails
<1>3. CASE Clear
  BY <1>3 DEF Clear, Begin, BeginFails, OnCpu
<1>4. ASSUME NEW w \in Widgets, NEW a \in Addrs, Blit(w, a) PROVE ShownIsDrawn'
  BY <1>4 DEF Blit, Begin, BeginFails, OnCpu, TypeOK
<1>5. CASE UploadHit
  BY <1>5 DEF UploadHit, TypeOK
<1>6. CASE UploadMiss
  BY <1>6 DEF UploadMiss, TypeOK
<1>7. CASE DrawTexture
  BY <1>7 DEF DrawTexture, Rest, TypeOK
<1>8. CASE Flip
  <2>1. disp'.planes = disp.planes /\ disp'.shown = disp.back /\ disp.back \in {0, 1}
    BY <1>8, Shown DEF Flip, CpuFlip, TypeOK
  <2>2. frame.pc = "draw" /\ UNCHANGED <<gui, canvas, cpu>>
    BY <1>8 DEF Flip
  <2>3. CASE disp.planes = "heap" /\ active'
    <3>1. active /\ canvas = gui
      BY <1>8, <2>2, <2>3 DEF Flip, Begin, BeginFails, OnCpu, PictureInv
    <3>2. bufs' = [bufs EXCEPT !["heap"][disp.back] = canvas]
      BY <1>8, <2>3, <3>1 DEF Flip, BeginFails, OnCpu
    <3> QED
      BY <2>1, <2>2, <2>3, <3>1, <3>2 DEF TypeOK
  <2>4. CASE disp.planes = "dumb"
    <3>1. ~active /\ cpu = gui
      BY <2>4 DEF PictureInv
    <3>2. bufs' = [bufs EXCEPT !["dumb"][disp.back] = cpu]
      BY <1>8, <3>1 DEF Flip, Begin, BeginFails, CpuFlip
    <3> QED
      BY <2>1, <2>2, <2>4, <3>1, <3>2 DEF TypeOK
  <2> QED
    BY <2>1, <2>3, <2>4 DEF TypeOK
<1>9. ASSUME NEW a \in Addrs, NEW d \in Data, NEW i \in Images, Alloc(a, d, i) PROVE ShownIsDrawn'
  BY <1>9 DEF Alloc
<1>10. ASSUME NEW a \in Addrs, NEW d \in Data, NEW i \in Images, Redescribe(a, d, i) PROVE ShownIsDrawn'
  BY <1>10 DEF Redescribe
<1>11. ASSUME NEW a \in Addrs, Forget(a) PROVE ShownIsDrawn'
  BY <1>11 DEF Forget
<1>12. ASSUME NEW a \in Addrs, Free(a) PROVE ShownIsDrawn'
  BY <1>12 DEF Free
<1>13. CASE UNCHANGED vars
  BY <1>13 DEF vars
<1> QED
  BY <1>1, <1>2, <1>3, <1>4, <1>5, <1>6, <1>7, <1>8, <1>9, <1>10, <1>11, <1>12, <1>13 DEF Next

-----------------------------------------------------------------------------
LEMMA Initially == Init => IInv
<1> SUFFICES ASSUME Init PROVE IInv
  OBVIOUS
<1>1. TypeOK
  BY DEF Init, Planes, TypeOK, Blank, Frames, Rest
<1>2. HolderInv /\ FrameInv /\ CacheOfTheLiving /\ ImageInv
  BY DEF Init, HolderInv, FrameInv, CacheOfTheLiving, ImageInv, Current, Rest
<1>3. OwnedEach
  BY GpuRendererAssumption DEF Init, OwnedEach, NoEntry
<1>4. PictureInv /\ ShownIsDrawn
  BY DEF Init, Planes, PictureInv, ShownIsDrawn, Rest
<1> QED
  BY <1>1, <1>2, <1>3, <1>4, OwnedIsEach DEF IInv

LEMMA Kept == IInv /\ [Next]_vars => IInv'
<1> SUFFICES ASSUME IInv, [Next]_vars PROVE IInv'
  OBVIOUS
<1>1. TypeOK' /\ OwnedEach'
  BY TypeStep, OwnedStep
<1>2. EachTextureOwned'
  BY <1>1, OwnedIsEach, PTL
<1> QED
  BY <1>1, <1>2, HolderStep, FrameStep, LivingStep, ImageStep, PictureStep, ShownStep DEF IInv

\* The inductive invariant, and with it the type of the state, holds throughout.
THEOREM Invariance == Spec => []IInv
<1>1. IInv /\ [Next]_vars => IInv'
  BY Kept
<1> QED
  BY Initially, <1>1, PTL DEF Spec

\* Between two frames the screen shows what the GUI has drawn, as long as the driver
\* works: from gr_gl_blit, Upload and drm_gl_flip, for any number of surfaces.
THEOREM TheScreenIsRight == Spec => []ShownIsDrawn
<1>1. IInv => ShownIsDrawn
  BY DEF IInv
<1> QED
  BY Invariance, <1>1, PTL

\* No texture is lost, or deleted while a surface has it: g.cache and g.doomed.
THEOREM TexturesAreOwned == Spec => []EachTextureOwned
<1>1. IInv => EachTextureOwned
  BY DEF IInv
<1> QED
  BY Invariance, <1>1, PTL

\* gr_gl_forget leaves no entry of a surface that is freed.
THEOREM OnlyTheLivingAreCached == Spec => []CacheOfTheLiving
<1>1. IInv => CacheOfTheLiving
  BY DEF IInv
<1> QED
  BY Invariance, <1>1, PTL

\* Begin fails only when the driver does, never because another thread has the context.
THEOREM TheGpuIsKept == Spec => StaysOnGpu
<1>1. ASSUME IInv, [Next]_vars PROVE active' # active => holder = "nobody"
  <2>1. ASSUME NEW t, BeginFails(t), holder \in {"nobody", t} PROVE holder = "nobody"
    BY <2>1 DEF BeginFails
  <2>2. \/ active' = active
        \/ \E t \in Threads : Read(t) /\ BeginFails(t)
        \/ (Clear \/ Flip \/ \E w \in Widgets, a \in Addrs : Blit(w, a)) /\ BeginFails(frame.thread)
    BY <1>1 DEF Next, vars, StartFrame, Read, Clear, Blit, UploadHit, UploadMiss, DrawTexture, Flip,
                Alloc, Redescribe, Forget, Free, Begin, OnCpu
  <2>3. holder = "nobody" \/ (frame.pc # "none" /\ holder = frame.thread)
    BY <1>1 DEF IInv, HolderInv
  <2> QED
    BY <2>1, <2>2, <2>3 DEF Read
<1>2. IInv /\ [Next]_vars => [active' # active => holder = "nobody"]_vars
  BY <1>1
<1> QED
  BY Invariance, <1>2, PTL DEF Spec, StaysOnGpu

\* drm_gl_flip and drm_flip write to the back buffer only.
THEOREM ShownIsLeftAlone == Spec => ShownNotWritten
<1>1. ASSUME IInv, [Next]_vars
      PROVE  bufs'[disp.planes][disp.shown] = bufs[disp.planes][disp.shown]
  <2>1. CASE Flip
    BY <1>1, <2>1 DEF Flip, CpuFlip, IInv, TypeOK, PictureInv
  <2>2. CASE ~Flip
    BY <1>1, <2>2 DEF Next, vars, screen, StartFrame, Read, Clear, Blit, UploadHit, UploadMiss, DrawTexture,
                      Alloc, Redescribe, Forget, Free
  <2> QED
    BY <2>1, <2>2
<1>2. IInv /\ [Next]_vars => [bufs'[disp.planes][disp.shown] = bufs[disp.planes][disp.shown]]_vars
  BY <1>1
<1> QED
  BY Invariance, <1>2, PTL DEF Spec, ShownNotWritten

=============================================================================
