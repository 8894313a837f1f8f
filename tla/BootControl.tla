----------------------------- MODULE BootControl -----------------------------
(***************************************************************************)
(* The IBootControl@1.2 HAL (pixel-source/bootctrl/1.2/BootControl.cpp).   *)
(*                                                                         *)
(* Slot data lives in the devinfo partition, or, when devinfo cannot be    *)
(* used, in the attribute words of the boot_a and boot_b partition         *)
(* entries.  The HAL serves one call at a time (service.cpp asks for one   *)
(* RPC thread); its process may die and the power may fail between any two *)
(* of its steps.                                                           *)
(***************************************************************************)
EXTENDS Naturals

CONSTANTS
    InitTables,     \* slot data the device may start with
    DevInfoUsable,  \* whether devinfo has the magic and version >= 3.3
    Platform,       \* ro.boot.hardware.platform
    Requests,       \* the calls clients make, as <<operation, slot>>
    Faults,         \* the system calls that may fail, "kill" and "power"
    Blank, Empty, Junk, Invalid, Reach  \* see GptUtils

Slots == {0, 1}
Other(s) == 1 - s

AB_ATTR_MAX_RETRY_COUNT == 3

\* devinfo_ab_slot_data_t, and the attribute word of a partition entry; the
\* priority and fastboot_ok fields are constant wherever the HAL writes them.
SlotData == [retry : 0 .. AB_ATTR_MAX_RETRY_COUNT, unbootable : BOOLEAN,
             successful : BOOLEAN, active : BOOLEAN]
Tables == [Slots -> SlotData]

OneActive(t) == \E s \in Slots : t[s].active /\ ~t[Other(s)].active

Flags == {"active", "successful", "unbootable"}
Ops   == {"setActiveBootSlot", "markBootSuccessful", "setSlotAsUnbootable"}

Failures == {"devinfoRead", "devinfoWrite", "devPath", "gptLoad", "gptEntries",
             "gptBackup", "gptWrite", "lunOpen", "lunWrite", "otp", "kill", "power"}

ASSUME BootControlAssumption ==
    /\ InitTables \subseteq Tables
    /\ \A t \in InitTables : OneActive(t)
    /\ DevInfoUsable \in BOOLEAN
    /\ Platform \in {"gs101", "zuma", "malibu"}
    /\ Requests \subseteq Ops \X Slots
    /\ Faults \subseteq Failures
    /\ Invalid \notin Tables \cup {Blank, Empty} \cup Junk
    /\ Reach \subseteq {"header", "entries", "backupEntries", "backupHeader"}
    /\ {Blank, Empty} \cap Tables = {} /\ Junk \cap Tables = {}

VARIABLES
    devinfo,   \* the slot data of the devinfo partition
    lun,       \* the boot LU bBootLunEn enables
    otp,       \* the anti-rollback fuses blown so far
    current,   \* ro.boot.slot_suffix
    hal,       \* the HAL process: its devinfo cache and how it was filled
    call,      \* the call being served
    reply,     \* the last answer, until the next call
    promised,  \* <<flag, slot>> pairs the callers were told are set in devinfo
    cached, media, gpt  \* the partition table, see GptUtils

GPT == INSTANCE GptUtils WITH Attrs <- SlotData

vars == <<devinfo, lun, otp, current, hal, call, reply, promised, cached, media, gpt>>
gptVars == <<cached, media, gpt>>

NoCall  == [op |-> "none", slot |-> 0, pc |-> "idle", ok |-> TRUE]
NoReply == [op |-> "none", slot |-> 0, ok |-> FALSE]

\* is_devinfo_initialized, is_devinfo_valid and devinfo are static: a new
\* process starts with no cache.
FreshHal(c) == [mode |-> "unknown", cache |-> c]

TypeOK ==
    /\ devinfo \in Tables
    /\ lun \in Slots
    /\ otp \in SUBSET {"single", "secure", "nonSecure"}
    /\ current \in Slots
    /\ hal \in [mode : {"unknown", "devinfo", "gpt"}, cache : Tables]
    /\ call \in [op : Ops \cup {"none"}, slot : Slots, ok : BOOLEAN,
                 pc : {"idle", "dispatch", "sync", "lun", "otp"}]
    /\ reply \in [op : Ops \cup {"none"}, slot : Slots, ok : BOOLEAN]
    /\ promised \in SUBSET (Flags \X Slots)
    /\ GPT!GptTypeOK

Init ==
    /\ devinfo \in InitTables
    /\ \E s \in Slots : devinfo[s].active /\ lun = s
    /\ otp = {}
    /\ current \in Slots
    /\ hal = FreshHal(devinfo)
    /\ call = NoCall
    /\ reply = NoReply
    /\ promised = {}
    /\ \E t \in InitTables : cached = GPT!Formatted(t)
    /\ media = cached
    /\ gpt = GPT!Closed

-----------------------------------------------------------------------------
(***************************************************************************)
(* What the three operations do to a table of slot data.                   *)
(***************************************************************************)

DevInfoInitSlot == [retry |-> AB_ATTR_MAX_RETRY_COUNT, unbootable |-> FALSE,
             successful |-> FALSE, active |-> TRUE]

Activated(t, s)  == [t EXCEPT ![Other(s)].active = FALSE, ![s] = DevInfoInitSlot]
Succeeded(t, s)  == [t EXCEPT ![s].successful = TRUE]
Unbootable(t, s) == [t EXCEPT ![s].unbootable = TRUE]

Apply(op, s, t) ==
    IF op = "setActiveBootSlot" THEN Activated(t, s)
    ELSE IF op = "markBootSuccessful" THEN Succeeded(t, s) ELSE Unbootable(t, s)

\* The flag a successful answer to op says is set, and the ones that the start
\* of op takes back.
Flag(op) ==
    IF op = "setActiveBootSlot" THEN "active"
    ELSE IF op = "markBootSuccessful" THEN "successful" ELSE "unbootable"

Recalled(op, s) ==
    IF op = "setActiveBootSlot" THEN (Flags \X {s}) \cup {<<"active", Other(s)>>} ELSE {}

-----------------------------------------------------------------------------
(***************************************************************************)
(* Calls and answers.                                                      *)
(***************************************************************************)
Begin(op, s) ==
    /\ call.pc = "idle"
    /\ op = "markBootSuccessful" => s = current
    /\ call' = [op |-> op, slot |-> s, pc |-> "dispatch", ok |-> TRUE]
    /\ reply' = NoReply
    /\ promised' = promised \ Recalled(op, s)
    /\ UNCHANGED <<devinfo, lun, otp, current, hal, gptVars>>

Answer(ok) ==
    /\ reply' = [op |-> call.op, slot |-> call.slot, ok |-> ok]
    /\ call' = NoCall

Fail == Answer(FALSE) /\ UNCHANGED promised

\* Only a HAL that works on devinfo promises something about devinfo.
Succeed ==
    /\ Answer(TRUE)
    /\ promised' = promised \cup
         IF hal.mode = "devinfo" THEN {<<Flag(call.op), call.slot>>} ELSE {}

Proceed(pc) == call' = [call EXCEPT !.pc = pc] /\ UNCHANGED <<reply, promised>>

Sync(ok) == call' = [call EXCEPT !.pc = "sync", !.ok = ok] /\ UNCHANGED <<reply, promised>>

\* isDevInfoValid: the first use decides for the life of the process, also
\* when the partition could not be opened or read.
LoadDevInfo ==
    /\ hal.mode = "unknown"
    /\ call.pc \in {"idle", "dispatch"}
    /\ \/ /\ DevInfoUsable
          /\ hal' = [hal EXCEPT !.mode = "devinfo", !.cache = devinfo]
       \/ /\ ~DevInfoUsable \/ "devinfoRead" \in Faults
          /\ hal' = [hal EXCEPT !.mode = "gpt"]
    /\ UNCHANGED <<devinfo, lun, otp, current, call, reply, promised, gptVars>>

-----------------------------------------------------------------------------
(***************************************************************************)
(* The devinfo branch: the cache is changed, then written out as a whole.  *)
(***************************************************************************)
Changed == Apply(call.op, call.slot, hal.cache)

AfterUpdateUnanswered ==  \* mutant: setSlotAsUnbootable is not answered
    \/ call.op = "setActiveBootSlot" /\ Proceed("lun")
    \/ call.op = "markBootSuccessful" /\ Proceed("otp")

\* What follows once the slot data is written.
AfterUpdate ==
    \/ /\ call.op = "setActiveBootSlot"
       /\ Proceed("lun")
    \/ /\ call.op = "markBootSuccessful"
       /\ Proceed("otp")
    \/ /\ call.op = "setSlotAsUnbootable"
       /\ Succeed

UpdateDevInfoCached ==  \* mutant: DevInfoSync is forgotten
    /\ call.pc = "dispatch"
    /\ hal.mode = "devinfo"
    /\ hal' = [hal EXCEPT !.cache = Changed]
    /\ AfterUpdate
    /\ UNCHANGED <<devinfo, lun, otp, current, gptVars>>

UpdateDevInfo ==
    /\ call.pc = "dispatch"
    /\ hal.mode = "devinfo"
    /\ hal' = [hal EXCEPT !.cache = Changed]
    /\ devinfo' = Changed
    /\ AfterUpdate
    /\ UNCHANGED <<lun, otp, current, gptVars>>

UpdateDevInfoUnchecked ==  \* mutant: the result of DevInfoSync is not looked at
    /\ call.pc = "dispatch"
    /\ hal.mode = "devinfo"
    /\ "devinfoWrite" \in Faults
    /\ hal' = [hal EXCEPT !.cache = Changed]
    /\ AfterUpdate
    /\ UNCHANGED <<devinfo, lun, otp, current, gptVars>>

\* DevInfoSync fails: the cache keeps the change; a synchronous write that
\* fails may have reached the media or not.
UpdateDevInfoFails ==
    /\ call.pc = "dispatch"
    /\ hal.mode = "devinfo"
    /\ "devinfoWrite" \in Faults
    /\ hal' = [hal EXCEPT !.cache = Changed]
    /\ devinfo' \in {devinfo, Changed}
    /\ Fail
    /\ UNCHANGED <<lun, otp, current, gptVars>>

-----------------------------------------------------------------------------
(***************************************************************************)
(* The partition table branch.                                             *)
(***************************************************************************)
NoDevPath ==
    /\ call.pc = "dispatch"
    /\ hal.mode = "gpt"
    /\ "devPath" \in Faults
    /\ Fail
    /\ UNCHANGED <<devinfo, lun, otp, current, hal, gptVars>>

HeaderUnusable == "gptLoad" \in Faults \/ cached["header"] = Invalid

\* Load and the change of the boot entries; the object is destroyed, and with
\* that synced, whether they were found or not.
UpdateTable ==
    /\ call.pc = "dispatch"
    /\ hal.mode = "gpt"
    /\ \/ /\ cached["entries"] \in Tables
          /\ GPT!LoadAs(Apply(call.op, call.slot, cached["entries"]))
          /\ Sync(TRUE)
       \/ /\ call.op # "setSlotAsUnbootable"
          /\ cached["entries"] \notin Tables
          /\ GPT!LoadAs(cached["entries"])
          /\ Sync(FALSE)
       \/ /\ call.op # "setSlotAsUnbootable"
          /\ "gptEntries" \in Faults
          /\ GPT!LoadCannotReadEntries
          /\ Sync(FALSE)
       \/ /\ call.op # "setSlotAsUnbootable"
          /\ "gptBackup" \in Faults
          /\ GPT!LoadCannotReadBackup
          /\ Sync(FALSE)
       \/ /\ call.op # "setSlotAsUnbootable"
          /\ HeaderUnusable
          /\ GPT!LoadCannotOpen \/ GPT!LoadCannotReadHeader
          /\ Fail
    /\ UNCHANGED <<devinfo, lun, otp, current, hal>>

\* setSlotAsUnbootable ignores the result of Load and dereferences the entry it
\* did not find: the process dies before the object is destroyed.
UnbootableWithoutEntry ==
    /\ call.pc = "dispatch"
    /\ hal.mode = "gpt"
    /\ call.op = "setSlotAsUnbootable"
    /\ \/ cached["entries"] \notin Tables
       \/ {"gptEntries", "gptBackup"} \cap Faults # {}
       \/ HeaderUnusable
    /\ call' = NoCall
    /\ hal' = FreshHal(devinfo)
    /\ UNCHANGED <<devinfo, lun, otp, current, reply, promised, gptVars>>

SyncTable ==
    /\ call.pc = "sync"
    /\ \/ /\ GPT!SyncWrites
          /\ UNCHANGED <<call, reply, promised>>
       \/ /\ \/ GPT!SyncSkips
             \/ GPT!SyncFlushes
             \/ GPT!SyncStraysOff
             \/ "gptWrite" \in Faults /\ GPT!SyncFails
          /\ IF call.ok THEN AfterUpdate ELSE Fail
    /\ UNCHANGED <<devinfo, lun, otp, current, hal>>

-----------------------------------------------------------------------------
(***************************************************************************)
(* The boot LU, and the anti-rollback fuses.                               *)
(***************************************************************************)
NoLunUnchecked ==  \* mutant: an attribute that does not open is passed over
    /\ call.pc = "lun"
    /\ "lunOpen" \in Faults
    /\ Succeed
    /\ UNCHANGED <<devinfo, lun, otp, current, hal, gptVars>>

NoLun ==
    /\ call.pc = "lun"
    /\ "lunOpen" \in Faults
    /\ Fail
    /\ UNCHANGED <<devinfo, lun, otp, current, hal, gptVars>>

\* WriteStringToFd returns a bool: "ret < 0" is never true of it.
WriteLun ==
    /\ call.pc = "lun"
    /\ \/ lun' = call.slot
       \/ "lunWrite" \in Faults /\ UNCHANGED lun
    /\ Succeed
    /\ UNCHANGED <<devinfo, otp, current, hal, gptVars>>

\* The fuses a platform blows, in order.
Fuses ==
    IF Platform = "gs101" THEN {"single"}
    ELSE IF Platform = "zuma" THEN {"secure", "nonSecure"} ELSE {}

BlowFuse(f) ==
    /\ call.pc = "otp"
    /\ f \in Fuses \ otp
    /\ f = "nonSecure" => "secure" \in otp
    /\ otp' = otp \cup {f}
    /\ UNCHANGED <<devinfo, lun, current, hal, call, reply, promised, gptVars>>

\* The answer does not depend on whether all of them were blown.
AnswerMarked ==
    /\ call.pc = "otp"
    /\ Fuses \subseteq otp \/ "otp" \in Faults
    /\ Succeed
    /\ UNCHANGED <<devinfo, lun, otp, current, hal, gptVars>>

-----------------------------------------------------------------------------
(***************************************************************************)
(* The environment.                                                        *)
(***************************************************************************)
\* The HAL's process ends, in the middle of a devinfo write too.
Interrupted ==
    /\ \/ UNCHANGED devinfo
       \/ call.pc = "dispatch" /\ hal.mode = "devinfo" /\ devinfo' = Changed
    /\ call' = NoCall
    /\ hal' = FreshHal(devinfo')
    /\ UNCHANGED <<lun, otp, reply, promised>>

HalDies == "kill" \in Faults /\ Interrupted /\ GPT!LoseProcess /\ UNCHANGED current

Reboot == "power" \in Faults /\ Interrupted /\ GPT!LosePower /\ current' \in Slots

\* What is flushed when matters only to a power cut.
Flush ==
    /\ "power" \in Faults
    /\ GPT!Writeback
    /\ UNCHANGED <<devinfo, lun, otp, current, hal, call, reply, promised>>

HalStep ==
    \/ LoadDevInfo
    \/ UpdateDevInfo \/ UpdateDevInfoFails
    \/ NoDevPath \/ UpdateTable \/ UnbootableWithoutEntry \/ SyncTable
    \/ NoLun \/ WriteLun
    \/ (\E f \in Fuses : BlowFuse(f)) \/ AnswerMarked

Next ==
    \/ \E r \in Requests : Begin(r[1], r[2])
    \/ HalStep
    \/ HalDies \/ Reboot \/ Flush

Spec == Init /\ [][Next]_vars

\* The HAL's thread runs; nothing is assumed of clients, kernel or power.
FairSpec == Spec /\ WF_vars(HalStep)

-----------------------------------------------------------------------------
(***************************************************************************)
(* Properties.                                                             *)
(***************************************************************************)
KeptIn(t) ==
    \A s \in Slots :
      /\ <<"active", s>> \in promised => t[s].active
      /\ <<"successful", s>> \in promised => t[s].successful
      /\ <<"unbootable", s>> \in promised => t[s].unbootable

\* What a successful setActiveBootSlot, markBootSuccessful or
\* setSlotAsUnbootable said of devinfo stays true of it until a call that takes
\* it back is started: over failed writes of other calls, over the whole-struct
\* writes of a cache, over deaths of the HAL and power cuts.
PromisesKept == KeptIn(devinfo)

\* devinfo always names one active slot: setActiveBootSlot clears one flag and
\* sets the other in one write.
OneActiveSlot == OneActive(devinfo)

\* After a successful answer the getters, which read the cache, see what the
\* bootloader will see; a failed DevInfoSync makes them differ and is told.
SuccessMeansInSync == hal.mode = "devinfo" /\ reply.ok => hal.cache = devinfo

\* setActiveBootSlot answers success only when the boot LU of the slot is
\* enabled and devinfo, if it is used, names the slot: the two that the next
\* boot combines agree, also after a crash.
SwitchCompletes ==
    reply.op = "setActiveBootSlot" /\ reply.ok =>
        /\ lun = reply.slot
        /\ <<"active", reply.slot>> \in promised => devinfo[reply.slot].active

\* An anti-rollback fuse is blown only for a slot that devinfo already records
\* as successful: the old version is given up after the new one is accepted.
BlownAfterMarked ==
    [][otp' # otp /\ hal.mode = "devinfo" => devinfo[current].successful]_vars

\* The strengthening that makes the properties above inductive: what they say of
\* devinfo holds of the cache too, nothing is promised that the call being
\* served is about to undo, and once past the update the cache is written out.
CacheInv == hal.mode = "devinfo" => KeptIn(hal.cache) /\ OneActive(hal.cache)

DispatchInv == call.pc = "dispatch" => promised \cap Recalled(call.op, call.slot) = {}

Updated(t) ==
    /\ call.op = "setActiveBootSlot" => t[call.slot].active
    /\ call.op = "markBootSuccessful" => t[call.slot].successful

UpdatedInv ==
    /\ call.pc = "sync" => hal.mode = "gpt"
    /\ call.pc \in {"lun", "otp"} /\ hal.mode = "devinfo" =>
         hal.cache = devinfo /\ Updated(devinfo)
    /\ call.pc = "idle" <=> call.op = "none"
    /\ call.pc = "lun" => call.op = "setActiveBootSlot"
    /\ call.pc = "otp" => call.op = "markBootSuccessful"
    /\ call.op = "markBootSuccessful" => call.slot = current

IInv ==
    /\ TypeOK
    /\ PromisesKept /\ OneActiveSlot /\ SuccessMeansInSync
    /\ CacheInv /\ DispatchInv /\ UpdatedInv

PrimaryValid == cached["header"] = cached["entries"]
BackupValid  == cached["backupHeader"] = cached["backupEntries"]

\* A Sync that knows where the backup copy is goes on to it only when the primary
\* one is complete, with a header whose crc is that of its entries, whatever earlier
\* calls, failed reads and writes, stray writes, deaths of the HAL and power cuts have
\* left of the two.  An object that never read the backup header (gpt.backup is
\* false) keeps no such order: its write may destroy either copy.
BackupTouchedLast ==
    [][call.pc = "sync" /\ call' = call /\ gpt.backup /\ BackupValid /\ ~BackupValid'
         => PrimaryValid']_vars

\* Each call is answered, or its process dies.
CallsEnd == call.pc # "idle" ~> call.pc = "idle"

=============================================================================
