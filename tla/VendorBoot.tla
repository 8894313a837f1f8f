----------------------------- MODULE VendorBoot -----------------------------
(***************************************************************************)
(* The two scripts that write vendor_boot.  reflash_twrp.sh puts the       *)
(* recovery fragment of the running slot beside the first-stage of the     *)
(* other slot; anykernel.sh puts the one of a zip beside the first-stage   *)
(* of the running slot.  Both graft in a directory of their own and then   *)
(* write the partition in place.  Around them Android updates the other    *)
(* slot, the scripts are killed and the power goes.                        *)
(***************************************************************************)
CONSTANTS
    Requests,  \* what happens to the device
    Faults     \* the commands that may fail, "kill" and "power"

ASSUME VendorBootAssumption ==
    /\ Requests \subseteq {"reflash", "install", "update"}
    /\ Faults \subseteq {"read", "unpack", "copy", "strip", "repack", "partialRepack", "write",
                         "writeback", "lostWriteback", "readback", "backup", "kill", "power"}

Slots  == {"a", "b"}
Builds == {"old", "new"}
Ours   == {"fox", "zip"}

\* A vendor_boot: whose platform fragment it has, whether that is reduced to
\* its first-stage, its recovery fragment, and whether all of it is there.
Images == [build : Builds \cup {"generic", "none"}, reduced : BOOLEAN,
           recovery : Ours \cup {"none"}, whole : BOOLEAN]

NoImage == [build |-> "none", reduced |-> FALSE, recovery |-> "none", whole |-> FALSE]

VARIABLES
    slots,    \* the vendor_boot of each slot
    builds,   \* the Android build each slot holds
    current,  \* the running slot
    booted,   \* the image this session booted from
    work,     \* a script's directory: the source, the slot's image as read and
              \* as unpacked, the new image
    backup,   \* vendor_boot-before.img under /data/local/tmp
    call,     \* the script that runs
    reply     \* what the user is told

vars == <<slots, builds, current, booted, work, backup, call, reply>>
device == <<slots, builds, current, booted>>

Idle == [op |-> "none", pc |-> "idle", slot |-> "a", failed |-> FALSE]

NoWork == [source |-> NoImage, dump |-> NoImage, target |-> NoImage, image |-> NoImage]

TypeOK ==
    /\ slots \in [Slots -> Images]
    /\ builds \in [Slots -> Builds]
    /\ current \in Slots
    /\ booted \in Images
    /\ work \in [source : Images, dump : Images, target : Images, image : Images]
    /\ backup \in Images
    /\ call \in [op : {"none", "reflash", "install"}, slot : Slots, failed : BOOLEAN,
                 pc : {"idle", "source", "read", "backup", "copying", "unpack", "graft", "compare",
                       "flashing", "verify", "end"}]
    /\ reply \in {"none", "both", "installed", "failed"}

Stock(b)  == [build |-> b, reduced |-> FALSE, recovery |-> "none", whole |-> TRUE]
Torn(i)   == [i EXCEPT !.whole = FALSE]

\* The platform fragment magiskboot unpacks; nothing comes out of a torn image.
Unpackable(i) == i.whole /\ i.build # "none"

\* The recovery was installed on slot a, by the zip or by fastboot.
Init ==
    /\ \E r \in BOOLEAN, other \in {Stock("old"), NoImage} :
          slots = [s \in Slots |->
                     IF s = "a" THEN [build |-> "old", reduced |-> r, recovery |-> "fox", whole |-> TRUE]
                     ELSE other]
    /\ builds = [s \in Slots |-> "old"]
    /\ current = "a"
    /\ booted = slots["a"]
    /\ work = NoWork
    /\ backup = NoImage
    /\ call = Idle
    /\ reply = "none"

-----------------------------------------------------------------------------
(***************************************************************************)
(* What the two scripts share.                                             *)
(***************************************************************************)
Goto(pc) == call' = [call EXCEPT !.pc = pc]

\* reflash_twrp.sh goes on with the other slot, anykernel.sh aborts.
SlotFails ==
    IF call.op = "reflash"
    THEN call' = [call EXCEPT !.pc = "end", !.failed = TRUE] /\ UNCHANGED reply
    ELSE call' = Idle /\ reply' = "failed"

\* _die and abort
Dies == call' = Idle /\ reply' = "failed"

\* rm -rf of the directory comes first, so that a file there is of this run.
KeepWork == work  \* mutant: the directory of the last run is used as it is
FreshWork == NoWork

Start(op) ==
    /\ call.pc = "idle"
    /\ op \in Requests
    /\ op = "reflash" => booted.recovery \in Ours
    /\ call' = [Idle EXCEPT !.op = op, !.slot = IF op = "install" THEN current ELSE "a",
                            !.pc = IF op = "install" THEN "read" ELSE "source"]
    /\ work' = FreshWork
    /\ reply' = "none"
    /\ UNCHANGED <<device, backup>>

\* The source of the reflash: the partition of the running slot, as it is now.
ReadSource ==
    /\ call.pc = "source"
    /\ \/ /\ Unpackable(slots[current]) /\ slots[current].recovery \in Ours
          /\ work' = [work EXCEPT !.source = slots[current]]
          /\ Goto("read") /\ UNCHANGED reply
       \/ /\ \/ Faults \cap {"read", "unpack"} # {}
             \/ ~Unpackable(slots[current]) \/ slots[current].recovery \notin Ours
          /\ Dies /\ UNCHANGED work
    /\ UNCHANGED <<device, backup>>

SkipsNone(s) == FALSE  \* mutant: the running slot is rebuilt like the other
Skips(s) == s = current

\* The running slot is the source of the reflash and left alone.
SkipRunning ==
    /\ call.pc = "read" /\ call.op = "reflash"
    /\ Skips(call.slot)
    /\ Goto("end")
    /\ UNCHANGED <<device, work, backup, reply>>

ReadTarget ==
    /\ call.pc = "read"
    /\ call.op = "reflash" => ~Skips(call.slot)
    /\ \/ /\ work' = [work EXCEPT !.dump = slots[call.slot]]
          /\ Goto(IF call.op = "install" THEN "backup" ELSE "unpack") /\ UNCHANGED reply
       \/ "read" \in Faults /\ SlotFails /\ UNCHANGED work
    /\ UNCHANGED <<device, backup>>

\* Whatever magiskboot says, the platform fragment has to be there after it.
UnpackTarget ==
    /\ call.pc = "unpack"
    /\ \/ Unpackable(work.dump) /\ work' = [work EXCEPT !.target = work.dump]
       \/ ("unpack" \in Faults \/ ~Unpackable(work.dump)) /\ UNCHANGED work
    /\ IF work'.target # NoImage THEN Goto("graft") /\ UNCHANGED reply ELSE SlotFails
    /\ UNCHANGED <<device, backup>>

-----------------------------------------------------------------------------
(***************************************************************************)
(* The backup of anykernel.sh: an existing file is kept.                   *)
(***************************************************************************)
KeepBackup ==
    /\ call.pc = "backup"
    /\ backup # NoImage
    /\ Goto("unpack")
    /\ UNCHANGED <<device, work, backup, reply>>

BackupStarts ==
    /\ call.pc = "backup"
    /\ backup = NoImage
    /\ backup' = Torn(work.dump)
    /\ Goto("copying")
    /\ UNCHANGED <<device, work, reply>>

BackupEnds ==
    /\ call.pc = "copying"
    /\ \/ backup' = work.dump /\ Goto("unpack") /\ UNCHANGED reply
       \/ "backup" \in Faults /\ Dies /\ UNCHANGED backup
    /\ UNCHANGED <<device, work>>

-----------------------------------------------------------------------------
(***************************************************************************)
(* Graft, size check and repack.                                           *)
(***************************************************************************)
\* The image that brings the recovery fragment, and its own platform.
Container ==
    IF call.op = "reflash" THEN work.source
    ELSE [Stock("generic") EXCEPT !.recovery = "zip"]

\* The platform fragment of the target replaces the one of the container,
\* unless the copy fails, which neither script asks.
Copied == {work.target} \cup IF "copy" \in Faults THEN {Container, Torn(work.target)} ELSE {}

\* Nor whether strip_platform worked.
Stripped(p) == {TRUE} \cup IF "strip" \in Faults THEN {p.reduced} ELSE {}

\* A platform that is not reduced takes the ramdisk over what the bootloader loads.
Fits(i) == i.reduced

\* What a repack leaves that could not write all of the image: anykernel.sh asks
\* for its status, reflash_twrp.sh for a file of more than a MiB.
Repacked(i) ==
    {i} \cup (IF "repack" \in Faults THEN {NoImage} ELSE {})
        \cup IF "partialRepack" \in Faults /\ call.op = "reflash" THEN {Torn(i)} ELSE {}

Graft ==
    /\ call.pc = "graft"
    /\ \E p \in Copied : \E r \in Stripped(p) :
         LET i == [build |-> p.build, reduced |-> r,
                   recovery |-> Container.recovery, whole |-> p.whole]
         IN \E o \in IF Fits(i) THEN Repacked(i) ELSE {NoImage} :
              /\ work' = [work EXCEPT !.image = o]
              /\ IF o # NoImage THEN Goto("compare") /\ UNCHANGED reply ELSE SlotFails
    /\ UNCHANGED <<device, backup>>

-----------------------------------------------------------------------------
(***************************************************************************)
(* Writing the partition.                                                  *)
(***************************************************************************)
IdenticalNever == FALSE  \* mutant: the slot is written whatever it holds
Identical == call.op = "reflash" /\ slots[call.slot] = work.image

SkipIdentical ==
    /\ call.pc = "compare"
    /\ Identical
    /\ Goto("end")
    /\ UNCHANGED <<device, work, backup, reply>>

WriteStarts ==
    /\ call.pc = "compare"
    /\ ~Identical
    /\ slots' = [slots EXCEPT ![call.slot] = Torn(work.image)]
    /\ Goto("flashing")
    /\ UNCHANGED <<builds, current, booted, work, backup, reply>>

\* dd reports what write returns, and with conv=fsync what the disk returns.
ReportedNone == {}  \* mutant: the errors of the write are not asked
Reported == {"write", "writeback"}

WriteFaults ==
    Faults \cap IF call.op = "reflash" THEN {"write", "writeback"} ELSE {"write", "lostWriteback"}

WriteEnds ==
    /\ call.pc = "flashing"
    /\ \/ /\ slots' = [slots EXCEPT ![call.slot] = work.image]
          /\ Goto("verify") /\ UNCHANGED reply
       \/ WriteFaults \cap Reported # {} /\ SlotFails /\ UNCHANGED slots
       \/ WriteFaults \ Reported # {}
          /\ Goto("verify") /\ UNCHANGED <<slots, reply>>
    /\ UNCHANGED <<builds, current, booted, work, backup>>

\* The read back comes out of the page cache, that is, it is the new image.
Verify ==
    /\ call.pc = "verify"
    /\ \/ /\ call.op = "reflash" /\ Goto("end") /\ UNCHANGED reply
       \/ /\ call.op = "install" /\ call' = Idle /\ reply' = "installed"
       \/ "readback" \in Faults /\ SlotFails
    /\ UNCHANGED <<device, work, backup>>

NextSlot ==
    /\ call.pc = "end" /\ call.slot = "a"
    /\ call' = [call EXCEPT !.slot = "b", !.pc = "read"]
    /\ work' = [NoWork EXCEPT !.source = work.source]
    /\ UNCHANGED <<device, backup, reply>>

FailedForgotten == FALSE  \* mutant: RC_OVERALL is that of the last slot
AnyFailed == call.failed

BothDone ==
    /\ call.pc = "end" /\ call.slot = "b"
    /\ call' = Idle
    /\ reply' = IF AnyFailed THEN "failed" ELSE "both"
    /\ UNCHANGED <<device, work, backup>>

-----------------------------------------------------------------------------
(***************************************************************************)
(* Around them.                                                            *)
(***************************************************************************)
\* init kills the recovery's process group with it; tmpfs stays.
Kill ==
    /\ "kill" \in Faults
    /\ call.pc # "idle"
    /\ call' = Idle /\ reply' = "none"
    /\ UNCHANGED <<device, work, backup>>

\* The bootloader takes a slot whose vendor_boot is whole.
Reboot ==
    /\ call.pc = "idle" \/ "power" \in Faults
    /\ \E s \in Slots : slots[s].whole /\ current' = s /\ booted' = slots[s]
    /\ work' = NoWork /\ call' = Idle /\ reply' = "none"
    /\ UNCHANGED <<slots, builds, backup>>

\* Android updates the other slot, vendor_boot and all.
Update ==
    /\ "update" \in Requests
    /\ call.pc = "idle"
    /\ \E s \in Slots \ {current} :
         /\ builds[s] = "old"
         /\ builds' = [builds EXCEPT ![s] = "new"]
         /\ slots' = [slots EXCEPT ![s] = Stock("new")]
    /\ reply' = "none"
    /\ UNCHANGED <<current, booted, work, backup, call>>

Next ==
    \/ (\E op \in {"reflash", "install"} : Start(op))
    \/ ReadSource \/ SkipRunning \/ ReadTarget \/ UnpackTarget
    \/ KeepBackup \/ BackupStarts \/ BackupEnds
    \/ Graft \/ SkipIdentical \/ WriteStarts \/ WriteEnds \/ Verify \/ NextSlot \/ BothDone
    \/ Kill \/ Reboot \/ Update

Spec == Init /\ [][Next]_vars

-----------------------------------------------------------------------------
(***************************************************************************)
(* Properties.                                                             *)
(***************************************************************************)
EndState(s, recovery) ==
    slots[s] = [build |-> builds[s], reduced |-> TRUE, recovery |-> recovery, whole |-> TRUE]

\* Each slot keeps the first-stage of its own build: no vendor_boot that would
\* boot ever has the platform of another build.
FirstStageKept == \A s \in Slots : slots[s].whole => slots[s].build = builds[s]

\* "Recovery reflashed to both slots" is told only when the other slot holds its
\* own first-stage beside the recovery of the running one.
BothMeansBoth ==
    reply = "both" => \A s \in Slots \ {current} : EndState(s, slots[current].recovery)

\* anykernel.sh is done only when the running slot holds its own first-stage
\* beside the recovery of the zip.
InstalledMeansDone == reply = "installed" => EndState(current, "zip")

\* A reflash leaves the running slot alone, also one that a power cut or an
\* update made the other slot since the last: what booted is there to boot again.
RunningSlotUntouched == [][call.op = "reflash" => slots'[current] = slots[current]]_vars

\* No script writes an image that the bootloader cannot load.
OversizeNeverWritten ==
    [][\A s \in Slots : slots'[s] # slots[s] =>
         slots'[s].recovery = "none" \/ slots'[s].reduced]_vars

\* Once a slot holds what a reflash would write, no reflash writes it again, so
\* that one cut short cannot tear it.
StaysReflashed ==
    [][\A s \in Slots :
         /\ call.op = "reflash" /\ work.source.whole
         /\ EndState(s, work.source.recovery)
         => slots'[s] = slots[s]]_vars

\* While anykernel.sh writes a partition, the backup is there to go back to.
BackupBeforeWrite == call.op = "install" /\ call.pc = "flashing" => backup.whole

=============================================================================
