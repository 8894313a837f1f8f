------------------------------- MODULE Staging -------------------------------
(***************************************************************************)
(* gpu_stage.sh over stage_lib.sh, as init runs it at early-boot:          *)
(* timeout -k 5 30.  It maps and mounts three partitions of the booted     *)
(* slot, copies the firmware and the GPU driver with every library that    *)
(* needs into the ramdisk, loads the kernel module and lets everything go. *)
(* After thirty seconds the shell gets a TERM, whose trap runs as soon as  *)
(* no command is at work, and five seconds later a KILL.                   *)
(***************************************************************************)
EXTENDS Naturals, Sequences, FiniteSets

CONSTANTS
    Libs,      \* the libraries, among them Roots
    Roots,     \* those the renderer loads by name, the first one is what it looks for
    Optional,  \* the roots that a phone may do without
    Needs,     \* the NEEDED entries of each library
    Shared,    \* the libraries the recovery shares with the driver
    Phones,    \* the sets of libraries a phone may have on vendor and system
    Ramdisk,   \* the libraries the ramdisk comes with
    Tries,     \* how often attach tries to map a partition
    StagingFaults \* what may fail, and "term" and "kill"

ASSUME StagingAssumption ==
    /\ Roots \in Seq(Libs) /\ Roots # <<>> /\ Optional \subseteq Libs
    /\ Needs \in [Libs -> SUBSET (Libs \cup Shared)]
    /\ Libs \cap Shared = {}
    /\ Phones \subseteq SUBSET Libs
    /\ Ramdisk \subseteq Libs
    /\ Tries \in Nat \ {0}
    /\ StagingFaults \subseteq {"map", "mount", "copy", "partialCopy", "load", "umount", "unmap",
                          "stuck", "term", "kill"}

Firmware   == "firmware"
Files      == Libs \cup {Firmware}
Partitions == <<"vendor", "vendor_dlkm", "system">>
PartSet    == {Partitions[i] : i \in DOMAIN Partitions}
RootSet    == {Roots[i] : i \in DOMAIN Roots} \ Optional

VARIABLES
    phone,    \* the libraries on the partitions of this phone
    sh,       \* the shell: what it does next and its loop variables
    lists,    \* $maps, $mounts and $staged, and what umount and dmctl delete failed on
    dm, mnt,  \* the mappings and mounts there are
    files,    \* what the ramdisk has of each file
    module,   \* whether pvrsrvkm is loaded
    timer,    \* what timeout has sent, and whether the trap has run
    result    \* how the script ended

stagingvars == <<phone, sh, lists, dm, mnt, files, module, timer, result>>
system == <<dm, mnt, files, module>>

Points == {"attach", "create", "mapped", "mount", "mounted", "firmware", "load", "roots",
           "copy", "copied", "wanted", "failing", "release", "stuck", "over"}

Shells == [pc : Points, back : Points, part : 1 .. 4, tries : 0 .. Tries, item : Files,
           root : 1 .. Len(Roots) + 1, queue : Seq(Libs),
           pending : SUBSET (Libs \cup Shared), seen : SUBSET Libs,
           mounts : SUBSET PartSet, maps : SUBSET PartSet]
Lists  == [maps : SUBSET PartSet, mounts : SUBSET PartSet, staged : SUBSET Files,
           stillMounted : SUBSET PartSet, stillMapped : SUBSET PartSet]

StagingTypeOK ==
    /\ phone \in Phones
    /\ sh \in Shells /\ lists \in Lists
    /\ dm \subseteq PartSet /\ mnt \subseteq PartSet
    /\ files \in [Files -> {"none", "partial", "whole"}]
    /\ module \in BOOLEAN
    /\ timer \in {"armed", "term", "trapped"}
    /\ result \in {"none", "staged", "failed", "killed"}

InitStaging ==
    /\ phone \in Phones
    /\ sh = [pc |-> "attach", back |-> "attach", part |-> 1, tries |-> 0, item |-> Firmware,
             root |-> 1, queue |-> <<>>, pending |-> {}, seen |-> {}, mounts |-> {}, maps |-> {}]
    /\ lists = [maps |-> {}, mounts |-> {}, staged |-> {}, stillMounted |-> {}, stillMapped |-> {}]
    /\ dm = {} /\ mnt = {}
    /\ files = [f \in Files |-> IF f \in Ramdisk THEN "whole" ELSE "none"]
    /\ module = FALSE
    /\ timer = "armed"
    /\ result = "none"

-----------------------------------------------------------------------------
Goto(pc) == sh' = [sh EXCEPT !.pc = pc]

\* A command that fails: the script removes what it staged and lets go.
Fails == sh' = [sh EXCEPT !.pc = "failing"] /\ result' = "failed"

\* The loops of release go through the lists as they stand.
Release == sh' = [sh EXCEPT !.pc = "release", !.mounts = lists.mounts, !.maps = lists.maps]

\* A command that does not return.
Hangs == "stuck" \in StagingFaults /\ Goto("stuck") /\ UNCHANGED result

-----------------------------------------------------------------------------
(***************************************************************************)
(* attach: a command and the assignment that records it are two steps, and *)
(* the trap may run between them.                                          *)
(***************************************************************************)
Part == Partitions[sh.part]

Attach ==
    /\ sh.pc = "attach"
    /\ IF sh.part \in DOMAIN Partitions THEN sh' = [sh EXCEPT !.pc = "create", !.tries = 0]
       ELSE Goto("firmware")
    /\ UNCHANGED <<phone, lists, system, timer, result>>

Create ==
    /\ sh.pc = "create"
    /\ \/ dm' = dm \cup {Part} /\ Goto("mapped") /\ UNCHANGED result
       \/ /\ "map" \in StagingFaults
          /\ IF sh.tries + 1 < Tries THEN sh' = [sh EXCEPT !.tries = @ + 1] /\ UNCHANGED result
             ELSE Fails
          /\ UNCHANGED dm
    /\ UNCHANGED <<phone, lists, mnt, files, module, timer>>

RecordMap == lists' = [lists EXCEPT !.maps = @ \cup {Part}]

Mapped ==
    /\ sh.pc = "mapped"
    /\ RecordMap
    /\ Goto("mount")
    /\ UNCHANGED <<phone, system, timer, result>>

Mount ==
    /\ sh.pc = "mount"
    /\ \/ mnt' = mnt \cup {Part} /\ Goto("mounted") /\ UNCHANGED result
       \/ "mount" \in StagingFaults /\ Fails /\ UNCHANGED mnt
       \/ Hangs /\ UNCHANGED mnt
    /\ UNCHANGED <<phone, lists, dm, files, module, timer>>

Mounted ==
    /\ sh.pc = "mounted"
    /\ lists' = [lists EXCEPT !.mounts = @ \cup {Part}]
    /\ sh' = [sh EXCEPT !.pc = "attach", !.part = @ + 1]
    /\ UNCHANGED <<phone, system, timer, result>>

-----------------------------------------------------------------------------
(***************************************************************************)
(* put, load and want.                                                     *)
(***************************************************************************)
\* put f, and go on at pc: what the ramdisk has is left alone.
Put(f, pc) ==
    sh' = [sh EXCEPT !.item = f, !.back = pc, !.pc = IF files[f] # "none" THEN pc ELSE "copy"]

Copy ==
    /\ sh.pc = "copy"
    /\ \/ files' = [files EXCEPT ![sh.item] = "whole"] /\ Goto("copied") /\ UNCHANGED result
       \/ "copy" \in StagingFaults /\ Fails /\ UNCHANGED files
       \/ "partialCopy" \in StagingFaults /\ Fails /\ files' = [files EXCEPT ![sh.item] = "partial"]
       \/ Hangs /\ files' = [files EXCEPT ![sh.item] = "partial"]
    /\ UNCHANGED <<phone, lists, dm, mnt, module, timer>>

RecordCopyNot == lists' = lists  \* mutant: $staged is not appended to
RecordCopy == lists' = [lists EXCEPT !.staged = @ \cup {sh.item}]

Copied ==
    /\ sh.pc = "copied"
    /\ RecordCopy
    /\ Goto(sh.back)
    /\ UNCHANGED <<phone, system, timer, result>>

PutFirmware ==
    /\ sh.pc = "firmware"
    /\ Put(Firmware, "load")
    /\ UNCHANGED <<phone, lists, system, timer, result>>

Load ==
    /\ sh.pc = "load"
    /\ \/ module' = TRUE /\ Goto("roots") /\ UNCHANGED result
       \/ "load" \in StagingFaults /\ Fails /\ UNCHANGED module
       \/ Hangs /\ UNCHANGED module
    /\ UNCHANGED <<phone, lists, dm, mnt, files, timer>>

Wanted ==
    /\ sh.pc = "wanted"
    /\ sh' = [sh EXCEPT !.queue = Append(@, sh.item), !.pc = "roots"]
    /\ UNCHANGED <<phone, lists, system, timer, result>>

-----------------------------------------------------------------------------
(***************************************************************************)
(* The closure over the libraries.                                         *)
(***************************************************************************)
NextRoot(r) == IF r \in DOMAIN Roots THEN r + 1 ELSE r

\* want l: put it and scan it later.
Wants(l) ==
    sh' = [sh EXCEPT !.item = l, !.back = "wanted",
                     !.root = NextRoot(@),
                     !.pending = @ \ {l}, !.seen = IF l \in sh.pending THEN @ \cup {l} ELSE @,
                     !.pc = IF files[l] # "none" THEN "wanted" ELSE "copy"]

WantRoot ==
    /\ sh.pc = "roots" /\ sh.root \in DOMAIN Roots
    /\ LET l == Roots[sh.root]
       IN  \/ l \in phone /\ Wants(l) /\ UNCHANGED result
           \/ l \in Optional \ phone /\ sh' = [sh EXCEPT !.root = @ + 1] /\ UNCHANGED result
           \/ l \notin phone \cup Optional /\ Fails
    /\ UNCHANGED <<phone, lists, system, timer>>

Scanning == sh.pc = "roots" /\ sh.root \notin DOMAIN Roots

\* The next library of the queue, whose NEEDED entries are scanned.
NextLib ==
    /\ Scanning /\ sh.pending = {} /\ sh.queue # <<>>
    /\ sh' = [sh EXCEPT !.queue = Tail(@), !.pending = Needs[Head(sh.queue)]]
    /\ UNCHANGED <<phone, lists, system, timer, result>>

KnownIfThere(l) == l \in sh.seen \cup Shared \/ (l \in Files /\ files[l] # "none")  \* mutant
Known(l) == l \in sh.seen \cup Shared

Skip ==
    /\ Scanning
    /\ \E l \in sh.pending : Known(l) /\ sh' = [sh EXCEPT !.pending = @ \ {l}]
    /\ UNCHANGED <<phone, lists, system, timer, result>>

Want ==
    /\ Scanning
    /\ \E l \in sh.pending :
         /\ ~Known(l)
         /\ IF l \in phone THEN Wants(l) /\ UNCHANGED result ELSE Fails
    /\ UNCHANGED <<phone, lists, system, timer>>

Staged ==
    /\ Scanning /\ sh.pending = {} /\ sh.queue = <<>>
    /\ Release
    /\ result' = "staged"
    /\ UNCHANGED <<phone, lists, system, timer>>

-----------------------------------------------------------------------------
(***************************************************************************)
(* fail and release.                                                       *)
(***************************************************************************)
RemoveStaged ==
    /\ sh.pc = "failing"
    /\ IF lists.staged = {} THEN Release /\ UNCHANGED <<lists, files>>
       ELSE \E f \in lists.staged :
              /\ files' = [files EXCEPT ![f] = "none"]
              /\ lists' = [lists EXCEPT !.staged = @ \ {f}]
              /\ UNCHANGED sh
    /\ UNCHANGED <<phone, dm, mnt, module, timer, result>>

\* A umount or a delete that fails is echoed and passed over.
Unmount ==
    /\ sh.pc = "release"
    /\ \/ \E p \in sh.mounts :
            /\ sh' = [sh EXCEPT !.mounts = @ \ {p}]
            /\ \/ mnt' = mnt \ {p} /\ UNCHANGED lists
               \/ /\ "umount" \in StagingFaults /\ p \in mnt
                  /\ lists' = [lists EXCEPT !.stillMounted = @ \cup {p}]
                  /\ UNCHANGED mnt
            /\ UNCHANGED result
       \/ sh.mounts # {} /\ Hangs /\ UNCHANGED <<lists, mnt>>
    /\ UNCHANGED <<phone, dm, files, module, timer>>

\* A mapping that is mounted stays.
Unmap ==
    /\ sh.pc = "release" /\ sh.mounts = {}
    /\ \E p \in sh.maps :
         /\ sh' = [sh EXCEPT !.maps = @ \ {p}]
         /\ \/ dm' = dm \ ({p} \ mnt) /\ UNCHANGED lists
            \/ /\ "unmap" \in StagingFaults /\ p \in dm
               /\ lists' = [lists EXCEPT !.stillMapped = @ \cup {p}]
               /\ UNCHANGED dm
    /\ UNCHANGED <<phone, mnt, files, module, timer, result>>

Exit ==
    /\ sh.pc = "release" /\ sh.mounts = {} /\ sh.maps = {}
    /\ Goto("over")
    /\ UNCHANGED <<phone, lists, system, timer, result>>

-----------------------------------------------------------------------------
(***************************************************************************)
(* timeout -k 5 30                                                         *)
(***************************************************************************)
Term ==
    /\ "term" \in StagingFaults
    /\ timer = "armed" /\ sh.pc # "over"
    /\ timer' = "term"
    /\ UNCHANGED <<phone, sh, lists, system, result>>

\* The trap of TERM: not while a command is at work.
Trap ==
    /\ timer = "term" /\ sh.pc \notin {"stuck", "over"}
    /\ timer' = "trapped"
    /\ Fails
    /\ UNCHANGED <<phone, lists, system>>

KillTrapped == timer = "trapped"  \* mutant: only a shell that got the TERM is killed
Killable == timer \in {"term", "trapped"}

Kill ==
    /\ "kill" \in StagingFaults
    /\ Killable /\ sh.pc # "over"
    /\ Goto("over")
    /\ result' = "killed"
    /\ UNCHANGED <<phone, lists, system, timer>>

Shell ==
    \/ Attach \/ Create \/ Mapped \/ Mount \/ Mounted
    \/ PutFirmware \/ Copy \/ Copied \/ Load
    \/ WantRoot \/ Wanted \/ NextLib \/ Skip \/ Want \/ Staged
    \/ RemoveStaged \/ Unmount \/ Unmap \/ Exit

NextStaging == Shell \/ Term \/ Trap \/ Kill

SpecStaging == InitStaging /\ [][NextStaging]_stagingvars

\* The shell runs, the trap with it, and the timer goes off.
FairSpec == SpecStaging /\ WF_stagingvars(Shell \/ Trap) /\ WF_stagingvars(Term) /\ WF_stagingvars(Kill)

-----------------------------------------------------------------------------
(***************************************************************************)
(* Properties.                                                             *)
(***************************************************************************)
Over == sh.pc = "over"
InTime == Over /\ timer = "armed"
Left == {f \in Files \ Ramdisk : files[f] # "none"}

\* What the renderer looks for is there only with its kernel module and firmware and with a
\* whole driver: files that are all there, the roots and whatever else was staged among them,
\* with all that each of them needs; unless the script was told to end.
WholeOrAbsent ==
    InTime /\ Roots[1] \in Left =>
        /\ module /\ files[Firmware] = "whole"
        /\ \E Whole \in SUBSET {l \in Libs : files[l] = "whole"} :
             /\ RootSet \cup (Left \ {Firmware}) \subseteq Whole
             /\ \A l \in Whole : Needs[l] \subseteq Whole \cup Shared

\* What is mounted or mapped although no umount failed on it, and no delete while it
\* was not mounted.
LostMounts == mnt \ lists.stillMounted
LostMaps   == dm \ (mnt \cup lists.stillMapped)
Lost       == LostMounts \cup LostMaps

\* A script that ended in time, whatever else failed, has left only the mounts that
\* umount failed on and the mappings that are under such a mount or that dmctl failed to
\* delete: it gives each of them its turn, the mounts first.  One that was told to end
\* leaves besides what one command had just made, no more.  Of one that was killed
\* nothing is said.
OneThingLeft ==
    Over /\ result # "killed" =>
        /\ timer = "armed" => Lost = {}
        /\ Cardinality(Lost) <= 1
        /\ result = "failed" => Cardinality(Left) + Cardinality(Lost) <= 1

\* A command that hangs does not hold up the boot.
BootGoesOn == <>Over

=============================================================================
