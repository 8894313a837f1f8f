----------------------------- MODULE FormatData -----------------------------
(***************************************************************************)
(* Format Data (subpatch/0044): unmount everything of /data, remove its    *)
(* crypto mappings, settle a pending update, erase userdata, then every    *)
(* secret that could open it.  Beside the action thread of the recovery    *)
(* run processes that use /data (MTP, an adb shell), the f2fs of a mounted *)
(* or lazily detached /data, recovery_weaver and init.                     *)
(***************************************************************************)
EXTENDS Naturals

CONSTANTS
    Encrypted,   \* whether /data is on a crypto mapping, as it ships
    VirtualAB,   \* ro.virtual_ab.enabled
    Faults       \* the calls that may fail, and "power"

Failures == {"mounts", "mapping", "merge", "metadataBusy", "open", "secDiscard",
             "discard", "zero", "readback", "metadata", "memtag", "weaver",
             "titan", "trusty", "misc", "power"}

ASSUME FormatDataAssumption ==
    /\ Encrypted \in BOOLEAN
    /\ VirtualAB \in BOOLEAN
    /\ Faults \subseteq Failures

Points == {"/data", "/sdcard", "/data/user/0"}
Users  == {"mtp", "shell"}
Names  == {"userdata", "zoned_device"}

kEraseAttempts == 5

VARIABLES
    mounts,     \* the mount points of /data's file system
    held,       \* where each user has a file open: "detached" after umount -l
    mappings,   \* the crypto mappings under /dev/block/mapper
    userdata,   \* the first 4 KiB of the partition, and the rest of it
    secrets,    \* what is still there of the keys to the data
    flags,      \* the misc messages the wipe resets that still stand
    merge,      \* the state of a Virtual A/B update
    weaver,     \* init.svc.recovery_weaver; a running weaver has gsc0 open
    format,     \* the Format_Data call
    reply       \* what it returned

vars == <<mounts, held, mappings, userdata, secrets, flags, merge, weaver, format, reply>>
dataVars == <<mounts, held, mappings>>
keyVars  == <<secrets, flags, merge>>

Before == {"list", "umount", "mappings", "merge", "metadataBusy", "erase", "discard"}
After  == {"zero", "readback", "metadata", "memtag", "weaver", "wait", "titan", "trusty", "misc"}

Secrets == {"metadata", "titan", "trusty"}
Flags   == {"memtag", "theme", "display"}

Calls == [pc : Before \cup After \cup {"idle"}, targets : SUBSET Points, success : BOOLEAN,
          attempt : 0 .. kEraseAttempts - 1, before : {"kept", "gone"}]

NoFormat == [pc |-> "idle", targets |-> {}, success |-> FALSE, attempt |-> 0, before |-> "kept"]

TypeOK ==
    /\ mounts \subseteq Points
    /\ held \in [Users -> Points \cup {"none", "detached"}]
    /\ mappings \subseteq Names
    /\ userdata \in [start : {"superblock", "zeros", "junk"}, rest : {"kept", "gone"}]
    /\ secrets \subseteq Secrets
    /\ flags \subseteq Flags
    /\ merge \in {"none", "pending"}
    /\ weaver \in {"running", "stopping", "stopped"}
    /\ format \in Calls
    /\ reply \in {"none", "failed", "partly", "erased"}

Init ==
    /\ mounts = {}
    /\ held = [u \in Users |-> "none"]
    /\ mappings = {}
    /\ userdata = [start |-> "superblock", rest |-> "kept"]
    /\ secrets = Secrets
    /\ flags = Flags
    /\ merge \in IF VirtualAB THEN {"none", "pending"} ELSE {"none"}
    /\ weaver \in {"running", "stopped"}
    /\ format = NoFormat
    /\ reply = "none"

-----------------------------------------------------------------------------
(***************************************************************************)
(* The users of /data, and its file system.                                *)
(***************************************************************************)
\* A file system lives as long as it is mounted or one of its files is open.
Alive == mounts # {} \/ \E u \in Users : held[u] # "none"

\* Decrypt and Mount, on the action thread: the crypto mappings, /data, and the
\* bind mounts over it.
MountData ==
    /\ format.pc = "idle"
    /\ mounts = {}
    /\ userdata.start = "superblock"
    /\ mounts' = Points
    /\ mappings' = IF Encrypted THEN Names ELSE {}
    /\ UNCHANGED <<held, userdata, keyVars, weaver, format, reply>>

\* TWPartition::UnMount (subpatch/0009): a busy /data is detached with all that
\* is mounted below it; a busy /sdcard stays.  The mappings stay too.
UnmountData ==
    /\ format.pc = "idle"
    /\ "/data" \in mounts
    /\ LET busy == \E u \in Users : held[u] = "/sdcard"
       IN mounts' = IF busy THEN mounts \cap {"/sdcard"} ELSE {}
    /\ held' = [u \in Users |-> IF held[u] \in {"none", "/sdcard"} THEN held[u] ELSE "detached"]
    /\ UNCHANGED <<mappings, userdata, keyVars, weaver, format, reply>>

\* MTP is off during a Format Data; a shell is not.
OpenFile(u) ==
    /\ held[u] = "none"
    /\ u = "mtp" => format.pc = "idle"
    /\ \E p \in mounts : held' = [held EXCEPT ![u] = p]
    /\ UNCHANGED <<mounts, mappings, userdata, keyVars, weaver, format, reply>>

CloseFile(u) ==
    /\ held[u] # "none"
    /\ held' = [held EXCEPT ![u] = "none"]
    /\ UNCHANGED <<mounts, mappings, userdata, keyVars, weaver, format, reply>>

ShellBinds ==
    /\ "/data" \in mounts
    /\ mounts' = mounts \cup {"/sdcard"}
    /\ UNCHANGED <<held, mappings, userdata, keyVars, weaver, format, reply>>

\* f2fs writes its superblock and checkpoint when it likes.
FsWrites ==
    /\ Alive
    /\ userdata' = [userdata EXCEPT !.start = "superblock"]
    /\ UNCHANGED <<dataVars, keyVars, weaver, format, reply>>

-----------------------------------------------------------------------------
(***************************************************************************)
(* Up to the point of no return.                                           *)
(***************************************************************************)
Goto(pc) == format' = [format EXCEPT !.pc = pc]

GiveUp == format' = [NoFormat EXCEPT !.before = format.before] /\ reply' = "failed"

Begin ==
    /\ format.pc = "idle"
    /\ format' = [NoFormat EXCEPT !.pc = "list", !.before = userdata.rest]
    /\ held' = [held EXCEPT !["mtp"] = "none"]
    /\ reply' = "none"
    /\ UNCHANGED <<mounts, mappings, userdata, keyVars, weaver>>

ListMounts ==
    /\ format.pc = "list"
    /\ \/ format' = [format EXCEPT !.pc = "umount", !.targets = mounts] /\ UNCHANGED reply
       \/ "mounts" \in Faults /\ GiveUp
    /\ UNCHANGED <<dataVars, userdata, keyVars, weaver>>

PathSize(p) == IF p = "/data" THEN 5 ELSE IF p = "/sdcard" THEN 7 ELSE 12

Longest(p)  == \A q \in format.targets : PathSize(q) <= PathSize(p)

Busy(p) ==
    \/ \E u \in Users : held[u] = p
    \/ p = "/data" /\ "/data/user/0" \in mounts

StillInUseRetried(p) == FALSE  \* mutant: a busy mount is tried until it is idle
StillInUse(p) == p \in mounts /\ Busy(p) /\ GiveUp /\ UNCHANGED mounts

\* The longest path first, so that children go before parents; a mount that
\* went away meanwhile counts as unmounted.
Umount(p) ==
    /\ format.pc = "umount"
    /\ p \in format.targets /\ Longest(p)
    /\ \/ /\ p \notin mounts \/ ~Busy(p)
          /\ mounts' = mounts \ {p}
          /\ format' = [format EXCEPT !.targets = @ \ {p}]
          /\ UNCHANGED reply
       \/ StillInUse(p)
    /\ UNCHANGED <<held, mappings, userdata, keyVars, weaver>>

Unmounted ==
    /\ format.pc = "umount"
    /\ format.targets = {}
    /\ Goto("mappings")
    /\ UNCHANGED <<dataVars, userdata, keyVars, weaver, reply>>

MappingInUseLeft == Alive /\ Goto("metadataBusy") /\ UNCHANGED <<mappings, reply>>  \* mutant: not checked
MappingInUse == (Alive \/ "mapping" \in Faults) /\ GiveUp /\ UNCHANGED mappings

\* userdata is the first of the names; a mapping that is in use is not removed.
RemoveMapping(n) ==
    /\ format.pc = "mappings"
    /\ n \in mappings
    /\ n # "userdata" => "userdata" \notin mappings
    /\ \/ ~Alive /\ mappings' = mappings \ {n} /\ UNCHANGED <<format, reply>>
       \/ MappingInUse
    /\ UNCHANGED <<mounts, held, userdata, keyVars, weaver>>

MappingsRemoved ==
    /\ format.pc = "mappings"
    /\ mappings = {}
    /\ Goto(IF VirtualAB THEN "merge" ELSE "metadataBusy")
    /\ UNCHANGED <<dataVars, userdata, keyVars, weaver, reply>>
MergeFails == "merge" \in Faults /\ GiveUp /\ UNCHANGED merge

\* Check_Pending_Merges finishes or cancels the merge.
SettleMerge ==
    /\ format.pc = "merge"
    /\ \/ merge' = "none" /\ Goto("metadataBusy") /\ UNCHANGED reply
       \/ MergeFails
    /\ UNCHANGED <<dataVars, userdata, secrets, flags, weaver>>

UnmountMetadataWiping ==  \* mutant: /metadata is formatted before the erase
    /\ format.pc = "metadataBusy"
    /\ Goto("erase")
    /\ secrets' = secrets \ {"metadata"}
    /\ UNCHANGED <<dataVars, userdata, flags, merge, weaver, reply>>

UnmountMetadata ==
    /\ format.pc = "metadataBusy"
    /\ \/ Goto("erase") /\ UNCHANGED reply
       \/ "metadataBusy" \in Faults /\ GiveUp
    /\ UNCHANGED <<dataVars, userdata, keyVars, weaver>>

-----------------------------------------------------------------------------
(***************************************************************************)
(* EraseUserdata and DiscardBlockDevice.                                   *)
(***************************************************************************)
Erased(start) == userdata' = [start |-> start, rest |-> "gone"]

\* A secure discard does not promise zeros.
SecureDiscard ==
    /\ format.pc = "erase"
    /\ \/ (\E start \in {"zeros", "junk"} : Erased(start)) /\ Goto("zero") /\ UNCHANGED reply
       \/ "open" \in Faults /\ GiveUp /\ UNCHANGED userdata
       \/ "secDiscard" \in Faults /\ Goto("discard") /\ UNCHANGED <<userdata, reply>>
    /\ UNCHANGED <<dataVars, keyVars, weaver>>

\* The plain discard counts only with the zeros written after it.
Discard ==
    /\ format.pc = "discard"
    /\ \/ Erased("zeros") /\ Goto("zero") /\ UNCHANGED reply
       \/ "zero" \in Faults /\ (\E start \in {"zeros", "junk"} : Erased(start)) /\ GiveUp
       \/ "discard" \in Faults /\ GiveUp /\ UNCHANGED userdata
    /\ UNCHANGED <<dataVars, keyVars, weaver>>

\* From here on each step runs; success says whether all of them succeeded.
Step(pc, ok) == format' = [format EXCEPT !.pc = pc, !.success = IF ok THEN @ ELSE FALSE]

ZeroStart ==
    /\ format.pc = "zero"
    /\ \/ /\ userdata' = [userdata EXCEPT !.start = "zeros"]
          /\ Goto("readback")
       \/ "zero" \in Faults /\ Goto("metadata") /\ UNCHANGED userdata
    /\ UNCHANGED <<dataVars, keyVars, weaver, reply>>

NotBlank == (userdata.start # "zeros" \/ "readback" \in Faults) /\ Goto("metadata") /\ UNCHANGED reply

ReadBack ==
    /\ format.pc = "readback"
    /\ \/ /\ userdata.start = "zeros"
          /\ format' = [format EXCEPT !.pc = "metadata", !.success = TRUE]
          /\ UNCHANGED reply
       \/ NotBlank
    /\ UNCHANGED <<dataVars, userdata, keyVars, weaver>>

-----------------------------------------------------------------------------
(***************************************************************************)
(* After it: /metadata, memtag, Titan M, Trusty, misc.                     *)
(***************************************************************************)
\* Step pc removes what from the set, or fails at it.
Removes(pc, set, what, next) ==
    /\ format.pc = pc
    /\ \/ set' = set \ what /\ Step(next, TRUE)
       \/ pc \in Faults /\ (\E done \in SUBSET what : set' = set \ done) /\ Step(next, FALSE)

WipeMetadata ==
    /\ Removes("metadata", secrets, {"metadata"}, "memtag")
    /\ UNCHANGED <<dataVars, userdata, flags, merge, weaver, reply>>

ResetMemtag ==
    /\ Removes("memtag", flags, {"memtag"}, "weaver")
    /\ UNCHANGED <<dataVars, userdata, secrets, merge, weaver, reply>>

StopWeaver ==
    /\ format.pc = "weaver"
    /\ weaver' = IF weaver = "running" THEN "stopping" ELSE weaver
    /\ Goto(IF weaver = "running" THEN "wait" ELSE "titan")
    /\ UNCHANGED <<dataVars, userdata, keyVars, reply>>

\* WaitForProperty returns when the service has stopped, or after five seconds.
WaitForWeaver ==
    /\ format.pc = "wait"
    /\ weaver = "stopped" \/ "weaver" \in Faults
    /\ Goto("titan")
    /\ UNCHANGED <<dataVars, userdata, keyVars, weaver, reply>>

AgainToo(n) == n <= kEraseAttempts  \* mutant: one attempt too many
Again(n)    == n < kEraseAttempts

OutOfAttemptsForgiven == [format EXCEPT !.pc = "trusty"]  \* mutant: it counts as success
OutOfAttempts == [format EXCEPT !.pc = "trusty", !.success = FALSE]

AttemptFails ==
    format' = IF Again(format.attempt + 1) THEN [format EXCEPT !.attempt = @ + 1]
              ELSE OutOfAttempts

\* titan_wipe: gsc0 opens once at a time; a lost answer may be that of a wipe.
EraseTitan ==
    /\ format.pc = "titan"
    /\ \/ /\ weaver = "stopped"
          /\ secrets' = secrets \ {"titan"}
          /\ \/ Goto("trusty")
             \/ "titan" \in Faults /\ AttemptFails
       \/ /\ weaver # "stopped" \/ "titan" \in Faults
          /\ AttemptFails /\ UNCHANGED secrets
    /\ UNCHANGED <<dataVars, userdata, flags, merge, weaver, reply>>

WipeTrustyUserdata ==
    /\ Removes("trusty", secrets, {"trusty"}, "misc")
    /\ UNCHANGED <<dataVars, userdata, flags, merge, weaver, reply>>

\* The last step, and what Format_Data returns.
ClearMiscFlags ==
    /\ format.pc = "misc"
    /\ \/ /\ flags' = flags \ {"theme", "display"}
          /\ reply' = IF format.success THEN "erased" ELSE "partly"
       \/ /\ "misc" \in Faults
          /\ \E done \in SUBSET {"theme", "display"} : flags' = flags \ done
          /\ reply' = "partly"
    /\ format' = NoFormat
    /\ UNCHANGED <<dataVars, userdata, secrets, merge, weaver>>

-----------------------------------------------------------------------------
\* init kills the service and reaps it, in its own time.
InitReapsWeaver ==
    /\ weaver = "stopping"
    /\ weaver' = "stopped"
    /\ UNCHANGED <<dataVars, userdata, keyVars, format, reply>>

Reboot ==
    /\ "power" \in Faults
    /\ mounts' = {} /\ held' = [u \in Users |-> "none"] /\ mappings' = {}
    /\ weaver' \in {"running", "stopped"}
    /\ format' = NoFormat /\ reply' = "none"
    /\ UNCHANGED <<userdata, keyVars>>

FormatStep ==
    \/ ListMounts \/ (\E p \in Points : Umount(p)) \/ Unmounted
    \/ (\E n \in Names : RemoveMapping(n)) \/ MappingsRemoved
    \/ SettleMerge \/ UnmountMetadata
    \/ SecureDiscard \/ Discard \/ ZeroStart \/ ReadBack
    \/ WipeMetadata \/ ResetMemtag \/ StopWeaver \/ WaitForWeaver
    \/ EraseTitan \/ WipeTrustyUserdata \/ ClearMiscFlags

Next ==
    \/ MountData \/ UnmountData \/ Begin
    \/ FormatStep
    \/ (\E u \in Users : OpenFile(u) \/ CloseFile(u)) \/ ShellBinds \/ FsWrites
    \/ InitReapsWeaver \/ Reboot

Spec == Init /\ [][Next]_vars

\* The action thread runs; nothing is assumed of the users of /data or of init.
FairSpec == Spec /\ WF_vars(FormatStep)

-----------------------------------------------------------------------------
(***************************************************************************)
(* Properties.                                                             *)
(***************************************************************************)
\* "Data erased. Android sets up /data on its next boot." is told only when the
\* start of userdata is blank and every secret and message of the old system is
\* gone, and it stays so: nothing that still runs brings any of it back.
SuccessMeansWiped ==
    reply = "erased" =>
        /\ userdata = [start |-> "zeros", rest |-> "gone"]
        /\ secrets = {} /\ flags = {}

\* A Format Data that returns early, before its point of no return, has left the
\* data as it was.
FailedMeansIntact == reply = "failed" => userdata.rest = format.before

\* The keys in /metadata, Titan M and Trusty go after the data they open: at no
\* instant, also for a power cut, is data left that can never be decrypted.
SecretsOutliveData == secrets # Secrets => userdata.rest = "gone"

\* The snapshots of an update that is being merged live in userdata: it is
\* erased only once no merge is pending.
MergeSettledFirst == userdata.rest = "gone" => merge = "none"

\* userdata is erased only while no file system is alive on it: a detached f2fs
\* would write its superblock back.
ErasedOnlyIdle == [][userdata'.rest # userdata.rest => ~Alive]_vars

\* A mount that cannot be unmounted is the work of somebody who uses /data or
\* just mounted it again, whatever the order of the mount table.
NoFalseRefusal ==
    [][format.pc = "umount" /\ reply' = "failed" =>
         (\E u \in Users : held[u] # "none") \/ mounts = {"/sdcard"}]_vars

\* Each Format Data returns, whoever holds /data, gsc0 or a mapping.
FormatEnds == format.pc # "idle" ~> format.pc = "idle"

=============================================================================
