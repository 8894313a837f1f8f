-------------------------- MODULE BootControlProofs --------------------------
(***************************************************************************)
(* Proofs about the boot control HAL, for every device, platform and set   *)
(* of faults.                                                              *)
(***************************************************************************)
EXTENDS BootControl, TLAPS

-----------------------------------------------------------------------------
(***************************************************************************)
(* What the three operations do to a table.                                *)
(***************************************************************************)
LEMMA ApplyTable ==
    ASSUME NEW op, NEW s \in Slots, NEW t \in Tables
    PROVE  Apply(op, s, t) \in Tables
<1>0. Other(s) \in Slots
  BY DEF Slots, Other
<1>1. DevInfoInitSlot \in SlotData
  BY DEF DevInfoInitSlot, SlotData, AB_ATTR_MAX_RETRY_COUNT
<1>2. CASE op = "setActiveBootSlot"
  BY <1>0, <1>1, <1>2 DEF Apply, Activated, Succeeded, Unbootable, Tables, SlotData
<1>3. CASE op = "markBootSuccessful"
  BY <1>3 DEF Apply, Activated, Succeeded, Unbootable, Tables, SlotData
<1>4. CASE op \notin {"setActiveBootSlot", "markBootSuccessful"}
  BY <1>4 DEF Apply, Activated, Succeeded, Unbootable, Tables, SlotData
<1> QED
  BY <1>2, <1>3, <1>4

LEMMA ApplyOneActive ==
    ASSUME NEW op, NEW s \in Slots, NEW t \in Tables, OneActive(t)
    PROVE  OneActive(Apply(op, s, t))
<1>1. CASE op = "setActiveBootSlot"
  BY <1>1 DEF Apply, Activated, Succeeded, Unbootable, Tables, SlotData, OneActive, Slots, Other, DevInfoInitSlot
<1>2. CASE op = "markBootSuccessful"
  BY <1>2 DEF Apply, Activated, Succeeded, Unbootable, Tables, SlotData, OneActive, Slots, Other
<1>3. CASE op \notin {"setActiveBootSlot", "markBootSuccessful"}
  BY <1>3 DEF Apply, Activated, Succeeded, Unbootable, Tables, SlotData, OneActive, Slots, Other
<1> QED
  BY <1>1, <1>2, <1>3

LEMMA ApplyKept ==
    ASSUME NEW op, NEW s \in Slots, NEW t \in Tables, KeptIn(t),
           promised \cap Recalled(op, s) = {}
    PROVE  KeptIn(Apply(op, s, t))
<1>1. CASE op = "setActiveBootSlot"
  BY <1>1 DEF Apply, Activated, Tables, SlotData, Slots, Other, DevInfoInitSlot,
              KeptIn, Recalled, Flags
<1>2. CASE op = "markBootSuccessful"
  BY <1>2 DEF Apply, Succeeded, Tables, SlotData, KeptIn
<1>3. CASE op \notin {"setActiveBootSlot", "markBootSuccessful"}
  BY <1>3 DEF Apply, Unbootable, Tables, SlotData, KeptIn
<1> QED
  BY <1>1, <1>2, <1>3

LEMMA ApplyFlag ==
    ASSUME NEW op, NEW s \in Slots, NEW t \in Tables
    PROVE  /\ op = "setActiveBootSlot" => Apply(op, s, t)[s].active
           /\ op = "markBootSuccessful" => Apply(op, s, t)[s].successful
           /\ op = "setSlotAsUnbootable" => Apply(op, s, t)[s].unbootable
<1>1. CASE op = "setActiveBootSlot"
  BY <1>1 DEF Apply, Activated, Tables, SlotData, Slots, Other, DevInfoInitSlot
<1>2. CASE op = "markBootSuccessful"
  BY <1>2 DEF Apply, Succeeded, Tables, SlotData
<1>3. CASE op \notin {"setActiveBootSlot", "markBootSuccessful"}
  BY <1>3 DEF Apply, Unbootable, Tables, SlotData
<1> QED
  BY <1>1, <1>2, <1>3

-----------------------------------------------------------------------------
(***************************************************************************)
(* Type correctness.                                                       *)
(***************************************************************************)
LEMMA AnswerType ==
    ASSUME TypeOK, NEW ok \in BOOLEAN, Answer(ok)
    PROVE  /\ reply' \in [op : Ops \cup {"none"}, slot : Slots, ok : BOOLEAN]
           /\ call' \in [op : Ops \cup {"none"}, slot : Slots, ok : BOOLEAN,
                         pc : {"idle", "dispatch", "sync", "lun", "otp"}]
  BY DEF TypeOK, Answer, NoCall, Slots

LEMMA SucceedType ==
    ASSUME TypeOK, Succeed
    PROVE  promised' \in SUBSET (Flags \X Slots)
<1>1. Flag(call.op) \in Flags
  BY DEF Flag, Flags
<1>2. <<Flag(call.op), call.slot>> \in Flags \X Slots
  BY <1>1 DEF TypeOK
<1> QED
  BY <1>2 DEF Succeed, TypeOK

LEMMA GptLoads ==
    ASSUME TypeOK, NEW array \in GPT!Content, NEW backup \in BOOLEAN,
           GPT!Loaded(array, backup)
    PROVE  GPT!GptTypeOK'
  BY DEF TypeOK, GPT!GptTypeOK, GPT!Device, GPT!Regions, GPT!Steps, GPT!Loaded

LEMMA GptActions ==
    ASSUME TypeOK
    PROVE  /\ GPT!LoadCannotOpen => GPT!GptTypeOK'
           /\ GPT!LoadCannotReadHeader => GPT!GptTypeOK'
           /\ GPT!SyncWrites => GPT!GptTypeOK'
           /\ GPT!SyncSkips => GPT!GptTypeOK'
           /\ GPT!SyncFlushes => GPT!GptTypeOK'
           /\ GPT!SyncFails => GPT!GptTypeOK'
           /\ GPT!SyncStraysOff => GPT!GptTypeOK'
           /\ GPT!LosePower => GPT!GptTypeOK'
           /\ GPT!LoseProcess => GPT!GptTypeOK'
           /\ GPT!Writeback => GPT!GptTypeOK'
           /\ UNCHANGED gptVars => GPT!GptTypeOK'
<1> USE DEF TypeOK, GPT!GptTypeOK, GPT!Device, GPT!Content, GPT!Arrays, GPT!Table, Tables, GPT!Regions, GPT!Steps
<1>2. GPT!LoadCannotOpen => GPT!GptTypeOK'
  BY DEF GPT!LoadCannotOpen, GPT!gptVars
<1>0. ASSUME NEW hit \in SUBSET GPT!Regions, NEW header \in GPT!Content, NEW junk \in GPT!Content,
             GPT!Stray(hit, header, junk)
      PROVE  cached' \in GPT!Device
  BY <1>0 DEF GPT!Stray
<1>3. GPT!LoadCannotReadHeader => GPT!GptTypeOK'
  <2> SUFFICES ASSUME GPT!LoadCannotReadHeader PROVE GPT!GptTypeOK'
    OBVIOUS
  <2>1. CASE UNCHANGED cached
    BY <2>1 DEF GPT!LoadCannotReadHeader
  <2>2. CASE ~UNCHANGED cached
    <3>1. PICK r \in Reach, s \in Reach, header \in {Empty, Invalid}, junk \in Junk :
            GPT!Stray({r, s}, header, junk)
      BY <2>2 DEF GPT!LoadCannotReadHeader
    <3>2. {r, s} \in SUBSET GPT!Regions
      BY BootControlAssumption
    <3>3. header \in GPT!Content /\ junk \in GPT!Content
      OBVIOUS
    <3>4. cached' \in GPT!Device
      BY <1>0, <3>1, <3>2, <3>3
    <3> QED
      BY <3>4 DEF GPT!LoadCannotReadHeader
  <2> QED
    BY <2>1, <2>2
<1>4. GPT!SyncWrites => GPT!GptTypeOK'
  <2>1. ASSUME NEW r \in GPT!Regions, NEW next \in GPT!Steps, GPT!WriteRegion(r, next)
        PROVE  GPT!GptTypeOK'
    <3>1. gpt.array \in GPT!Content
      OBVIOUS
    <3>2. cached' \in GPT!Device
      BY <2>1, <3>1 DEF GPT!WriteRegion
    <3>3. gpt' \in [step : GPT!Steps, array : GPT!Content, crc : GPT!Content, backup : BOOLEAN]
      BY <2>1, <3>1 DEF GPT!WriteRegion
    <3> QED
      BY <2>1, <3>2, <3>3 DEF GPT!WriteRegion
  <2>2. GPT!SyncWritesHeader => GPT!WriteRegion("header", "entries")
    BY DEF GPT!SyncWritesHeader
  <2>3. GPT!SyncWritesEntries => GPT!WriteRegion("entries", "backupEntries")
    BY DEF GPT!SyncWritesEntries
  <2>4. GPT!SyncWritesBackupEntries => GPT!WriteRegion("backupEntries", "backupHeader")
    BY DEF GPT!SyncWritesBackupEntries
  <2>5. GPT!SyncWritesBackupHeader => GPT!GptTypeOK'
    <3> DEFINE new == IF gpt.backup THEN gpt.array ELSE Invalid
    <3>1. new \in GPT!Content
      OBVIOUS
    <3> HIDE DEF new
    <3>2. SUFFICES ASSUME cached' = [cached EXCEPT !["backupHeader"] = new],
                          gpt' = [gpt EXCEPT !.step = "fsync"], UNCHANGED media
                   PROVE  GPT!GptTypeOK'
      BY DEF GPT!SyncWritesBackupHeader, new
    <3> QED
      BY <3>1, <3>2
  <2>6. GPT!SyncStrays => GPT!GptTypeOK'
    <3> SUFFICES ASSUME GPT!SyncStrays PROVE GPT!GptTypeOK'
      OBVIOUS
    <3>1. PICK copy \in GPT!Copies : \E hit \in SUBSET (copy \cap Reach), a \in Junk \cup {gpt.array} :
            GPT!Stray(hit, Invalid, a)
      BY DEF GPT!SyncStrays
    <3>2. PICK hit \in SUBSET (copy \cap Reach), a \in Junk \cup {gpt.array} : GPT!Stray(hit, Invalid, a)
      BY <3>1
    <3>3. hit \in SUBSET GPT!Regions /\ a \in GPT!Content /\ Invalid \in GPT!Content
      BY BootControlAssumption
    <3>4. cached' \in GPT!Device
      BY <1>0, <3>2, <3>3
    <3> QED
      BY <3>4 DEF GPT!SyncStrays
  <2> HIDE DEF GPT!GptTypeOK
  <2> QED
    BY <2>1, <2>2, <2>3, <2>4, <2>5, <2>6 DEF GPT!SyncWrites
<1>5. GPT!SyncSkips => GPT!GptTypeOK'
  BY DEF GPT!SyncSkips, GPT!Closed
<1>6. GPT!SyncFlushes => GPT!GptTypeOK'
  BY DEF GPT!SyncFlushes, GPT!Closed
<1>7. GPT!SyncFails => GPT!GptTypeOK'
  BY DEF GPT!SyncFails, GPT!Closed
<1>12. GPT!SyncStraysOff => GPT!GptTypeOK'
  BY DEF GPT!SyncStraysOff, GPT!Closed
<1>8. GPT!LosePower => GPT!GptTypeOK'
  BY DEF GPT!LosePower, GPT!Closed
<1>9. GPT!LoseProcess => GPT!GptTypeOK'
  BY DEF GPT!LoseProcess, GPT!Closed
<1>10. GPT!Writeback => GPT!GptTypeOK'
  <2> SUFFICES ASSUME NEW r \in GPT!Regions, NEW S \in SUBSET Slots,
                      media' = [media EXCEPT ![r] = GPT!Merge(@, cached[r], S)],
                      UNCHANGED <<cached, gpt>>
               PROVE  GPT!GptTypeOK'
    BY DEF GPT!Writeback
  <2>1. GPT!Merge(media[r], cached[r], S) \in GPT!Content
    BY DEF GPT!Merge
  <2> QED
    BY <2>1
<1>11. UNCHANGED gptVars => GPT!GptTypeOK'
  BY DEF gptVars
<1> QED
  BY <1>2, <1>3, <1>4, <1>5, <1>6, <1>7, <1>8, <1>9, <1>10, <1>11, <1>12

LEMMA InitType == Init => TypeOK
<1> SUFFICES ASSUME Init PROVE TypeOK
  OBVIOUS
<1>1. devinfo \in Tables
  BY BootControlAssumption DEF Init
<1>2. hal \in [mode : {"unknown", "devinfo", "gpt"}, cache : Tables]
  BY <1>1 DEF Init, FreshHal
<1>3. GPT!GptTypeOK
  <2>1. PICK t \in InitTables : cached = GPT!Formatted(t)
    BY DEF Init
  <2>2. t \in GPT!Content
    BY BootControlAssumption DEF GPT!Content, GPT!Arrays, GPT!Table, Tables
  <2>3. cached \in GPT!Device
    BY <2>1, <2>2 DEF GPT!Formatted, GPT!Device
  <2>4. gpt \in [step : GPT!Steps, array : GPT!Content, crc : GPT!Content, backup : BOOLEAN]
    BY DEF Init, GPT!Closed, GPT!Steps, GPT!Content, GPT!Arrays
  <2> QED
    BY <2>3, <2>4 DEF Init, GPT!GptTypeOK
<1> QED
  BY <1>1, <1>2, <1>3 DEF Init, TypeOK, NoCall, NoReply, Slots

\* The variables of TypeOK that are not the partition table's.
LEMMA AfterUpdateType ==
    ASSUME TypeOK, AfterUpdate
    PROVE  /\ promised' \in SUBSET (Flags \X Slots)
           /\ reply' \in [op : Ops \cup {"none"}, slot : Slots, ok : BOOLEAN]
           /\ call' \in [op : Ops \cup {"none"}, slot : Slots, ok : BOOLEAN,
                         pc : {"idle", "dispatch", "sync", "lun", "otp"}]
<1>1. CASE Succeed
  BY <1>1, SucceedType, AnswerType DEF Succeed
<1>2. CASE Proceed("lun") \/ Proceed("otp")
  BY <1>2 DEF Proceed, TypeOK
<1> QED
  BY <1>1, <1>2 DEF AfterUpdate

LEMMA FailType ==
    ASSUME TypeOK, Fail
    PROVE  /\ promised' \in SUBSET (Flags \X Slots)
           /\ reply' \in [op : Ops \cup {"none"}, slot : Slots, ok : BOOLEAN]
           /\ call' \in [op : Ops \cup {"none"}, slot : Slots, ok : BOOLEAN,
                         pc : {"idle", "dispatch", "sync", "lun", "otp"}]
  BY AnswerType DEF Fail, TypeOK

LEMMA ChangedType ==
    ASSUME TypeOK
    PROVE  Changed \in Tables
  BY ApplyTable DEF TypeOK, Changed

LEMMA NextType == TypeOK /\ [Next]_vars => TypeOK'
<1> SUFFICES ASSUME TypeOK, [Next]_vars PROVE TypeOK'
  OBVIOUS
<1>1. CASE UNCHANGED vars
  BY <1>1, GptActions DEF TypeOK, vars, gptVars
<1>2. ASSUME NEW r \in Requests, Begin(r[1], r[2]) PROVE TypeOK'
  <2>1. r[1] \in Ops /\ r[2] \in Slots
    BY BootControlAssumption
  <2> QED
    BY <1>2, <2>1, GptActions DEF TypeOK, Begin, NoReply, Slots
<1>3. CASE LoadDevInfo
  BY <1>3, GptActions DEF TypeOK, LoadDevInfo
<1>4. CASE UpdateDevInfo
  BY <1>4, GptActions, AfterUpdateType, ChangedType DEF TypeOK, UpdateDevInfo
<1>5. CASE UpdateDevInfoFails
  BY <1>5, GptActions, FailType, ChangedType DEF TypeOK, UpdateDevInfoFails
<1>6. CASE NoDevPath
  BY <1>6, GptActions, FailType DEF TypeOK, NoDevPath
<1>7. CASE UpdateTable
  <2>1. cached["entries"] \in GPT!Content
    BY DEF TypeOK, GPT!GptTypeOK, GPT!Device, GPT!Regions
  <2>2. GPT!GptTypeOK'
    <3>1. CASE GPT!LoadAs(Apply(call.op, call.slot, cached["entries"])) /\ cached["entries"] \in Tables
      <4>1. Apply(call.op, call.slot, cached["entries"]) \in Tables
        BY <3>1, ApplyTable DEF TypeOK
      <4> QED
        BY <3>1, <4>1, GptLoads DEF GPT!LoadAs, GPT!Content, GPT!Arrays, GPT!Table, Tables
    <3>2. CASE GPT!LoadAs(cached["entries"])
      BY <3>2, <2>1, GptLoads DEF GPT!LoadAs
    <3>3. CASE GPT!LoadCannotReadEntries \/ GPT!LoadCannotReadBackup
      <4>1. Blank \in GPT!Content
        BY DEF GPT!Content, GPT!Arrays
      <4> QED
        BY <3>3, <4>1, <2>1, GptLoads DEF GPT!LoadCannotReadEntries, GPT!LoadCannotReadBackup
    <3>4. CASE GPT!LoadCannotOpen \/ GPT!LoadCannotReadHeader
      BY <3>4, GptActions
    <3> QED
      BY <1>7, <3>1, <3>2, <3>3, <3>4 DEF UpdateTable
  <2>3. CASE Sync(TRUE) \/ Sync(FALSE)
    BY <1>7, <2>2, <2>3 DEF TypeOK, UpdateTable, Sync
  <2>4. CASE Fail
    BY <1>7, <2>2, <2>4, FailType DEF TypeOK, UpdateTable
  <2> QED
    BY <1>7, <2>3, <2>4 DEF UpdateTable
<1>8. CASE UnbootableWithoutEntry
  BY <1>8, GptActions DEF TypeOK, UnbootableWithoutEntry, NoCall, FreshHal, Slots
<1>9. CASE SyncTable
  <2>1. GPT!GptTypeOK'
    BY <1>9, GptActions DEF SyncTable
  <2>2. CASE UNCHANGED <<call, reply, promised>>
    BY <1>9, <2>1, <2>2 DEF TypeOK, SyncTable
  <2>3. CASE AfterUpdate \/ Fail
    BY <1>9, <2>1, <2>3, AfterUpdateType, FailType DEF TypeOK, SyncTable
  <2> QED
    BY <1>9, <2>2, <2>3 DEF SyncTable
<1>10. CASE NoLun
  BY <1>10, GptActions, FailType DEF TypeOK, NoLun
<1>11. CASE WriteLun
  BY <1>11, GptActions, SucceedType, AnswerType DEF TypeOK, WriteLun, Succeed
<1>12. ASSUME NEW f \in Fuses, BlowFuse(f) PROVE TypeOK'
  <2>1. f \in {"single", "secure", "nonSecure"}
    BY BootControlAssumption DEF Fuses
  <2> QED
    BY <1>12, <2>1, GptActions DEF TypeOK, BlowFuse
<1>13. CASE AnswerMarked
  BY <1>13, GptActions, SucceedType, AnswerType DEF TypeOK, AnswerMarked, Succeed
<1>14. ASSUME Interrupted
       PROVE  /\ devinfo' \in Tables
              /\ call' \in [op : Ops \cup {"none"}, slot : Slots, ok : BOOLEAN,
                            pc : {"idle", "dispatch", "sync", "lun", "otp"}]
              /\ hal' \in [mode : {"unknown", "devinfo", "gpt"}, cache : Tables]
  <2>1. devinfo' \in Tables
    BY <1>14, ChangedType DEF Interrupted, TypeOK
  <2> QED
    BY <1>14, <2>1 DEF Interrupted, NoCall, FreshHal, Slots
<1>15. CASE HalDies
  BY <1>14, <1>15, GptActions DEF TypeOK, HalDies, Interrupted
<1>16. CASE Reboot
  BY <1>14, <1>16, GptActions DEF TypeOK, Reboot, Interrupted
<1>17. CASE Flush
  BY <1>17, GptActions DEF TypeOK, Flush
<1> QED
  BY <1>1, <1>2, <1>3, <1>4, <1>5, <1>6, <1>7, <1>8, <1>9, <1>10, <1>11, <1>12,
     <1>13, <1>15, <1>16, <1>17 DEF Next, HalStep

(***************************************************************************)
(* Every variable keeps its type, whatever fails and however often the HAL *)
(* is interrupted.                                                         *)
(***************************************************************************)
THEOREM TypeCorrect == Spec => []TypeOK
  BY InitType, NextType, PTL DEF Spec

-----------------------------------------------------------------------------
(***************************************************************************)
(* The inductive invariant.  devinfo and the cache hold every promise, and *)
(* a call past its update has written the cache out.                       *)
(***************************************************************************)
LEMMA InitIInv == Init => IInv
<1> SUFFICES ASSUME Init PROVE IInv
  OBVIOUS
<1>1. TypeOK
  BY InitType
<1>2. OneActiveSlot
  BY BootControlAssumption DEF Init, OneActiveSlot
<1> QED
  BY <1>1, <1>2 DEF Init, IInv, PromisesKept, KeptIn, SuccessMeansInSync, CacheInv,
     DispatchInv, UpdatedInv, FreshHal, NoCall, NoReply

\* What the change of a call in dispatch preserves.
LEMMA ChangedInv ==
    ASSUME IInv, call.pc = "dispatch", hal.mode = "devinfo"
    PROVE  /\ KeptIn(Changed)
           /\ OneActive(Changed)
           /\ Updated(Changed)
           /\ call.op = "setSlotAsUnbootable" => Changed[call.slot].unbootable
<1> USE DEF IInv
<1>1. hal.cache \in Tables /\ call.slot \in Slots
  BY DEF TypeOK
<1>2. KeptIn(hal.cache) /\ OneActive(hal.cache)
  BY DEF CacheInv
<1>3. promised \cap Recalled(call.op, call.slot) = {}
  BY DEF DispatchInv
<1> QED
  BY <1>1, <1>2, <1>3, ApplyKept, ApplyOneActive, ApplyFlag DEF Changed, Updated

\* The three ways a step of a call can end, once devinfo and the cache are known.
LEMMA SucceedInv ==
    ASSUME IInv, TypeOK', Succeed, current' = current, hal'.mode = hal.mode,
           KeptIn(devinfo'), OneActive(devinfo'),
           hal.mode = "devinfo" =>
             /\ hal'.cache = devinfo'
             /\ Updated(devinfo')
             /\ call.op \notin {"setActiveBootSlot", "markBootSuccessful"} =>
                  devinfo'[call.slot].unbootable
    PROVE  IInv'
<1>1. PromisesKept'
  BY DEF Succeed, Flag, Updated, KeptIn, PromisesKept
<1>2. OneActiveSlot' /\ SuccessMeansInSync'
  BY DEF OneActiveSlot, SuccessMeansInSync
<1>3. CacheInv'
  BY <1>1 DEF CacheInv, PromisesKept, KeptIn
<1>4. DispatchInv' /\ UpdatedInv'
  BY DEF Succeed, Answer, NoCall, DispatchInv, UpdatedInv
<1> QED
  BY <1>1, <1>2, <1>3, <1>4 DEF IInv

LEMMA FailInv ==
    ASSUME IInv, TypeOK', Fail, current' = current, hal'.mode = hal.mode,
           KeptIn(devinfo'), OneActive(devinfo'),
           hal.mode = "devinfo" => KeptIn(hal'.cache) /\ OneActive(hal'.cache)
    PROVE  IInv'
<1>1. PromisesKept' /\ OneActiveSlot'
  BY DEF Fail, KeptIn, PromisesKept, OneActiveSlot
<1>2. SuccessMeansInSync'
  BY DEF Fail, Answer, SuccessMeansInSync
<1>3. CacheInv'
  BY DEF Fail, CacheInv, KeptIn
<1>4. DispatchInv' /\ UpdatedInv'
  BY DEF Fail, Answer, NoCall, DispatchInv, UpdatedInv
<1> QED
  BY <1>1, <1>2, <1>3, <1>4 DEF IInv

LEMMA ProceedInv ==
    ASSUME IInv, TypeOK', NEW pc \in {"lun", "otp"}, Proceed(pc), current' = current,
           call.pc # "idle",
           pc = "lun" => call.op = "setActiveBootSlot",
           pc = "otp" => call.op = "markBootSuccessful",
           hal'.mode = hal.mode, KeptIn(devinfo'), OneActive(devinfo'),
           hal.mode = "devinfo" => hal'.cache = devinfo' /\ Updated(devinfo')
    PROVE  IInv'
<1>0. /\ call'.pc = pc /\ call'.op = call.op /\ call'.slot = call.slot
      /\ reply' = reply /\ promised' = promised
  BY DEF Proceed, IInv, TypeOK
<1>1. PromisesKept' /\ OneActiveSlot'
  BY <1>0 DEF KeptIn, PromisesKept, OneActiveSlot
<1>2. SuccessMeansInSync'
  BY DEF SuccessMeansInSync
<1>3. CacheInv'
  BY <1>1 DEF CacheInv, KeptIn, PromisesKept
<1>4. DispatchInv' /\ UpdatedInv'
  BY <1>0 DEF DispatchInv, UpdatedInv, Updated, IInv
<1> QED
  BY <1>1, <1>2, <1>3, <1>4 DEF IInv

\* The process is gone, and with it its cache and its call.
LEMMA InterruptedInv ==
    ASSUME IInv, TypeOK', Interrupted
    PROVE  IInv'
<1>1. KeptIn(devinfo') /\ OneActive(devinfo')
  BY ChangedInv DEF Interrupted, IInv, PromisesKept, OneActiveSlot
<1>2. hal'.mode = "unknown" /\ call' = NoCall /\ promised' = promised
  BY DEF Interrupted, FreshHal
<1> QED
  BY <1>1, <1>2 DEF IInv, PromisesKept, KeptIn, OneActiveSlot, SuccessMeansInSync,
     CacheInv, DispatchInv, UpdatedInv, NoCall

LEMMA NextIInv == IInv /\ [Next]_vars => IInv'
<1> SUFFICES ASSUME IInv, [Next]_vars PROVE IInv'
  OBVIOUS
<1>0. TypeOK /\ TypeOK' /\ KeptIn(devinfo) /\ OneActive(devinfo)
  BY NextType DEF IInv, PromisesKept, OneActiveSlot
<1> USE <1>0
<1>a. hal.mode = "devinfo" => KeptIn(hal.cache) /\ OneActive(hal.cache)
  BY DEF IInv, CacheInv
<1>1. CASE UNCHANGED vars
  BY <1>1 DEF IInv, PromisesKept, KeptIn, OneActiveSlot, SuccessMeansInSync, CacheInv,
     DispatchInv, UpdatedInv, Updated, vars
<1>2. ASSUME NEW r \in Requests, Begin(r[1], r[2]) PROVE IInv'
  <2>1. r[1] \in Ops /\ r[2] \in Slots
    BY BootControlAssumption
  <2>2. PromisesKept' /\ OneActiveSlot' /\ SuccessMeansInSync'
    BY <1>2 DEF Begin, IInv, PromisesKept, KeptIn, OneActiveSlot, SuccessMeansInSync, NoReply
  <2>3. CacheInv'
    BY <1>2 DEF Begin, IInv, CacheInv, KeptIn
  <2>4. DispatchInv' /\ UpdatedInv'
    BY <1>2, <2>1 DEF Begin, IInv, DispatchInv, UpdatedInv, Ops
  <2> QED
    BY <2>2, <2>3, <2>4 DEF IInv
<1>3. CASE LoadDevInfo
  BY <1>3 DEF LoadDevInfo, IInv, PromisesKept, KeptIn, OneActiveSlot, SuccessMeansInSync,
     CacheInv, DispatchInv, UpdatedInv, Updated, TypeOK
<1>4. CASE UpdateDevInfo
  <2>1. /\ devinfo' = Changed /\ hal'.cache = Changed /\ hal'.mode = hal.mode
        /\ call.pc = "dispatch" /\ hal.mode = "devinfo" /\ current' = current
    BY <1>4 DEF UpdateDevInfo, TypeOK
  <2>2. /\ KeptIn(devinfo') /\ OneActive(devinfo') /\ Updated(devinfo')
        /\ call.op = "setSlotAsUnbootable" => devinfo'[call.slot].unbootable
    BY <2>1, ChangedInv
  <2>3. CASE Proceed("lun") /\ call.op = "setActiveBootSlot"
    BY <2>1, <2>2, <2>3, ProceedInv
  <2>4. CASE Proceed("otp") /\ call.op = "markBootSuccessful"
    BY <2>1, <2>2, <2>4, ProceedInv
  <2>5. CASE Succeed /\ call.op = "setSlotAsUnbootable"
    BY <2>1, <2>2, <2>5, SucceedInv
  <2> QED
    BY <1>4, <2>3, <2>4, <2>5 DEF UpdateDevInfo, AfterUpdate
<1>5. CASE UpdateDevInfoFails
  <2>1. /\ hal'.cache = Changed /\ hal'.mode = hal.mode /\ devinfo' \in {devinfo, Changed}
        /\ call.pc = "dispatch" /\ hal.mode = "devinfo" /\ current' = current /\ Fail
    BY <1>5 DEF UpdateDevInfoFails, TypeOK
  <2> QED
    BY <2>1, ChangedInv, FailInv
<1>6. CASE NoDevPath
  BY <1>6, <1>a, FailInv DEF NoDevPath
<1>7. CASE UpdateTable
  <2>1. UNCHANGED <<devinfo, hal, current>> /\ call.pc = "dispatch" /\ hal.mode = "gpt"
    BY <1>7 DEF UpdateTable
  <2>2. CASE Sync(TRUE) \/ Sync(FALSE)
    <3>1. /\ call'.pc = "sync" /\ call'.op = call.op /\ call'.slot = call.slot
          /\ UNCHANGED <<reply, promised>>
      BY <2>2 DEF Sync, TypeOK
    <3> QED
      BY <2>1, <3>1 DEF IInv, PromisesKept, KeptIn, OneActiveSlot, SuccessMeansInSync,
         CacheInv, DispatchInv, UpdatedInv, Updated
  <2>3. CASE Fail
    BY <2>1, <2>3, FailInv
  <2> QED
    BY <1>7, <2>2, <2>3 DEF UpdateTable
<1>8. CASE UnbootableWithoutEntry
  <2>1. hal'.mode = "unknown" /\ call' = NoCall /\ UNCHANGED <<devinfo, promised, current>>
    BY <1>8 DEF UnbootableWithoutEntry, FreshHal
  <2> QED
    BY <2>1 DEF IInv, PromisesKept, KeptIn, OneActiveSlot, SuccessMeansInSync,
       CacheInv, DispatchInv, UpdatedInv, NoCall
<1>9. CASE SyncTable
  <2>1. UNCHANGED <<devinfo, hal, current>> /\ call.pc = "sync" /\ hal.mode = "gpt"
    BY <1>9 DEF SyncTable, IInv, UpdatedInv
  <2>2. CASE UNCHANGED <<call, reply, promised>>
    BY <2>1, <2>2 DEF IInv, PromisesKept, KeptIn, OneActiveSlot, SuccessMeansInSync,
       CacheInv, DispatchInv, UpdatedInv, Updated
  <2>3. CASE AfterUpdate
    BY <2>1, <2>3, ProceedInv, SucceedInv DEF AfterUpdate
  <2>4. CASE Fail
    BY <2>1, <2>4, FailInv
  <2> QED
    BY <1>9, <2>2, <2>3, <2>4 DEF SyncTable
<1>10. CASE NoLun
  BY <1>10, <1>a, FailInv DEF NoLun
<1>11. CASE WriteLun
  <2>1. hal.mode = "devinfo" => hal.cache = devinfo /\ Updated(devinfo)
    BY <1>11 DEF WriteLun, IInv, UpdatedInv
  <2>2. call.op = "setActiveBootSlot"
    BY <1>11 DEF WriteLun, IInv, UpdatedInv
  <2> QED
    BY <1>11, <2>1, <2>2, SucceedInv DEF WriteLun
<1>12. ASSUME NEW f \in Fuses, BlowFuse(f) PROVE IInv'
  BY <1>12 DEF BlowFuse, IInv, PromisesKept, KeptIn, OneActiveSlot, SuccessMeansInSync,
     CacheInv, DispatchInv, UpdatedInv, Updated
<1>13. CASE AnswerMarked
  <2>1. hal.mode = "devinfo" => hal.cache = devinfo /\ Updated(devinfo)
    BY <1>13 DEF AnswerMarked, IInv, UpdatedInv
  <2>2. call.op = "markBootSuccessful"
    BY <1>13 DEF AnswerMarked, IInv, UpdatedInv
  <2> QED
    BY <1>13, <2>1, <2>2, SucceedInv DEF AnswerMarked
<1>14. CASE HalDies \/ Reboot
  BY <1>14, InterruptedInv DEF HalDies, Reboot
<1>15. CASE Flush
  BY <1>15 DEF Flush, IInv, PromisesKept, KeptIn, OneActiveSlot, SuccessMeansInSync,
     CacheInv, DispatchInv, UpdatedInv, Updated
<1> QED
  BY <1>1, <1>2, <1>3, <1>4, <1>5, <1>6, <1>7, <1>8, <1>9, <1>10, <1>11, <1>12,
     <1>13, <1>14, <1>15 DEF Next, HalStep

\* The invariant holds in every reachable state.
THEOREM Invariance == Spec => []IInv
  BY InitIInv, NextIInv, PTL DEF Spec

(***************************************************************************)
(* What a caller was told of devinfo stays true over failed writes, deaths *)
(* of the HAL and power cuts, until it is taken back.                      *)
(***************************************************************************)
THEOREM PromisesAreKept == Spec => []PromisesKept
<1>1. IInv => PromisesKept
  BY DEF IInv
<1> QED
  BY Invariance, <1>1, PTL

(***************************************************************************)
(* devinfo names exactly one active slot at all times.                     *)
(***************************************************************************)
THEOREM OneSlotIsActive == Spec => []OneActiveSlot
<1>1. IInv => OneActiveSlot
  BY DEF IInv
<1> QED
  BY Invariance, <1>1, PTL

(***************************************************************************)
(* After a success the cache the getters answer from is what is on disk.   *)
(***************************************************************************)
THEOREM CacheIsInSync == Spec => []SuccessMeansInSync
<1>1. IInv => SuccessMeansInSync
  BY DEF IInv
<1> QED
  BY Invariance, <1>1, PTL

(***************************************************************************)
(* Fuses are blown only after the slot's successful flag is in devinfo.    *)
(***************************************************************************)
THEOREM FusesFollowSuccess == Spec => BlownAfterMarked
<1>1. IInv /\ [Next]_vars =>
        [otp' # otp /\ hal.mode = "devinfo" => devinfo[current].successful]_vars
  <2> SUFFICES ASSUME IInv, Next, otp' # otp, hal.mode = "devinfo"
               PROVE  devinfo[current].successful
    OBVIOUS
  <2>1. PICK f \in Fuses : BlowFuse(f)
    BY DEF Next, HalStep, Begin, LoadDevInfo, UpdateDevInfo, UpdateDevInfoFails, NoDevPath,
       UpdateTable, UnbootableWithoutEntry, SyncTable, NoLun, WriteLun, AnswerMarked,
       HalDies, Reboot, Interrupted, Flush
  <2> QED
    BY <2>1 DEF BlowFuse, IInv, UpdatedInv, Updated
<1> QED
  BY <1>1, Invariance, PTL DEF Spec, BlownAfterMarked

(***************************************************************************)
(* The answer of setActiveBootSlot and the boot LU.                        *)
(***************************************************************************)
LunSwitched == reply.op = "setActiveBootSlot" /\ reply.ok => lun = reply.slot

\* Only WriteLun answers a setActiveBootSlot with success; a kernel that takes
\* every write has then enabled the LU.
LEMMA NextLunSwitched ==
    ASSUME "lunWrite" \notin Faults, IInv, LunSwitched, [Next]_vars
    PROVE  LunSwitched'
<1>0. TypeOK
  BY DEF IInv
<1>1. ASSUME UNCHANGED <<lun, reply>> PROVE LunSwitched'
  BY <1>1 DEF LunSwitched
<1>2. ASSUME Fail PROVE LunSwitched'
  BY <1>2 DEF Fail, Answer, LunSwitched
<1>3. ASSUME AfterUpdate, UNCHANGED lun PROVE LunSwitched'
  <2>1. CASE Proceed("lun") \/ Proceed("otp")
    BY <1>3, <2>1, <1>1 DEF Proceed
  <2>2. CASE call.op = "setSlotAsUnbootable" /\ Succeed
    BY <2>2 DEF Succeed, Answer, LunSwitched
  <2> QED
    BY <1>3, <2>1, <2>2 DEF AfterUpdate
<1>4. CASE WriteLun
  BY <1>4 DEF WriteLun, Succeed, Answer, LunSwitched
<1>5. CASE AnswerMarked
  <2>1. call.op = "markBootSuccessful"
    BY <1>5 DEF AnswerMarked, IInv, UpdatedInv
  <2> QED
    BY <1>5, <2>1 DEF AnswerMarked, Succeed, Answer, LunSwitched
<1>6. ASSUME NEW r \in Requests, Begin(r[1], r[2]) PROVE LunSwitched'
  BY <1>6 DEF Begin, NoReply, LunSwitched
<1>7. CASE UpdateDevInfo
  BY <1>7, <1>3 DEF UpdateDevInfo
<1>8. CASE UpdateDevInfoFails \/ NoDevPath \/ NoLun
  BY <1>8, <1>2 DEF UpdateDevInfoFails, NoDevPath, NoLun
<1>9. CASE UpdateTable
  BY <1>9, <1>1, <1>2 DEF UpdateTable, Sync
<1>10. CASE SyncTable
  BY <1>10, <1>1, <1>2, <1>3 DEF SyncTable
<1>11. CASE LoadDevInfo \/ UnbootableWithoutEntry \/ HalDies \/ Reboot \/ Flush \/ UNCHANGED vars
  BY <1>11, <1>1 DEF LoadDevInfo, UnbootableWithoutEntry, HalDies, Reboot, Interrupted, Flush, vars
<1>12. ASSUME NEW f \in Fuses, BlowFuse(f) PROVE LunSwitched'
  BY <1>12, <1>1 DEF BlowFuse
<1> QED
  BY <1>4, <1>5, <1>6, <1>7, <1>8, <1>9, <1>10, <1>11, <1>12 DEF Next, HalStep

(***************************************************************************)
(* If no write to the attribute of the boot LU fails, a setActiveBootSlot  *)
(* that succeeds has switched the LU and, where it is used, devinfo, and   *)
(* they stay switched over deaths and power cuts.  The hypothesis is what  *)
(* the code takes for granted: it does not see such a write fail.          *)
(***************************************************************************)
THEOREM SwitchIsComplete ==
    ASSUME "lunWrite" \notin Faults
    PROVE  Spec => []SwitchCompletes
<1>1. Init => LunSwitched
  BY DEF Init, NoReply, LunSwitched
<1>2. IInv /\ LunSwitched => SwitchCompletes
  <2>1. IInv => \A s \in Slots : <<"active", s>> \in promised => devinfo[s].active
    BY DEF IInv, PromisesKept, KeptIn
  <2>2. IInv => reply.slot \in Slots
    BY DEF IInv, TypeOK
  <2> QED
    BY <2>1, <2>2 DEF LunSwitched, SwitchCompletes
<1>3. IInv /\ LunSwitched /\ [Next]_vars => LunSwitched'
  BY NextLunSwitched
<1> QED
  BY <1>1, <1>2, <1>3, Invariance, PTL DEF Spec

(***************************************************************************)
(* The order in which a table is written.                                  *)
(***************************************************************************)
\* What Sync has behind it is in the page cache, until it writes to a place it does
\* not know.
Written ==
    /\ \/ gpt.step \in {"entries", "backupEntries"}
       \/ gpt.step = "backupHeader" /\ gpt.backup
       => cached["header"] = gpt.array
    /\ \/ gpt.step = "backupEntries"
       \/ gpt.step = "backupHeader" /\ gpt.backup
       => cached["entries"] = gpt.array
    /\ gpt.step = "backupHeader" /\ gpt.backup => cached["backupEntries"] = gpt.array

\* One write of Sync keeps what is written, and comes to the backup copy with the primary one whole.
LEMMA SyncWritesInOrder ==
    ASSUME TypeOK, Written, GPT!SyncWrites
    PROVE  Written' /\ (gpt.backup /\ BackupValid /\ ~BackupValid' => PrimaryValid')
<1> USE DEF TypeOK, GPT!GptTypeOK, GPT!Device, GPT!Regions, GPT!WriteRegion, Written,
            BackupValid, PrimaryValid
<1>1. CASE GPT!SyncWritesHeader
  BY <1>1 DEF GPT!SyncWritesHeader
<1>2. CASE GPT!SyncWritesEntries
  BY <1>2 DEF GPT!SyncWritesEntries
<1>3. CASE GPT!SyncWritesBackupEntries
  BY <1>3 DEF GPT!SyncWritesBackupEntries
<1>4. CASE GPT!SyncWritesBackupHeader
  BY <1>4 DEF GPT!SyncWritesBackupHeader
<1>5. CASE GPT!SyncStrays
  BY <1>5 DEF GPT!SyncStrays
<1> QED
  BY <1>1, <1>2, <1>3, <1>4, <1>5 DEF GPT!SyncWrites

LEMMA NextWritten ==
    ASSUME TypeOK, Written, [Next]_vars
    PROVE  /\ Written'
           /\ call.pc = "sync" /\ call' = call /\ gpt.backup /\ BackupValid /\ ~BackupValid' => PrimaryValid'
<1>1. ASSUME gpt'.step \in {"closed", "loaded"} PROVE Written'
  BY <1>1 DEF Written
<1>2. ASSUME UNCHANGED <<cached, gpt>> PROVE Written' /\ BackupValid' = BackupValid
  BY <1>2 DEF Written, BackupValid
<1>3. CASE SyncTable
  <2>1. CASE GPT!SyncWrites
    BY <2>1, SyncWritesInOrder
  <2>2. CASE GPT!SyncSkips \/ GPT!SyncFlushes \/ GPT!SyncFails \/ GPT!SyncStraysOff
    BY <2>2, <1>1 DEF GPT!SyncSkips, GPT!SyncFlushes, GPT!SyncFails, GPT!SyncStraysOff, GPT!Closed, BackupValid
  <2> QED
    BY <1>3, <2>1, <2>2 DEF SyncTable
<1>4. CASE UpdateTable
  <2>1. call.pc # "sync"
    BY <1>4 DEF UpdateTable
  <2>2. \/ GPT!LoadCannotOpen \/ GPT!LoadCannotReadHeader
        \/ \E array, backup : GPT!Loaded(array, backup)
    BY <1>4 DEF UpdateTable, GPT!LoadAs, GPT!LoadCannotReadEntries, GPT!LoadCannotReadBackup
  <2>3. Written'
    BY <2>2, <1>1, <1>2 DEF GPT!LoadCannotOpen, GPT!LoadCannotReadHeader, GPT!Loaded, GPT!gptVars
  <2> QED
    BY <2>1, <2>3
<1>5. CASE HalDies \/ Reboot
  <2>1. Written'
    BY <1>5, <1>1 DEF HalDies, Reboot, GPT!LoseProcess, GPT!LosePower, GPT!Closed
  <2>2. call'.pc = "idle"
    BY <1>5 DEF HalDies, Reboot, Interrupted, NoCall
  <2> QED
    BY <2>1, <2>2
<1>6. CASE Flush
  BY <1>6, <1>2 DEF Flush, GPT!Writeback
<1>7. ASSUME NEW r \in Requests, Begin(r[1], r[2]) PROVE UNCHANGED <<cached, gpt>>
  BY <1>7 DEF Begin, gptVars
<1>8. CASE \/ LoadDevInfo \/ UpdateDevInfo \/ UpdateDevInfoFails \/ NoDevPath
           \/ UnbootableWithoutEntry \/ NoLun \/ WriteLun \/ AnswerMarked \/ UNCHANGED vars
  <2>1. UNCHANGED <<cached, gpt>>
    BY <1>8 DEF LoadDevInfo, UpdateDevInfo, UpdateDevInfoFails, NoDevPath,
                UnbootableWithoutEntry, NoLun, WriteLun, AnswerMarked, vars, gptVars
  <2> QED
    BY <2>1, <1>2
<1>9. ASSUME NEW f \in Fuses, BlowFuse(f) PROVE UNCHANGED <<cached, gpt>>
  BY <1>9 DEF BlowFuse, gptVars
<1> QED
  BY <1>2, <1>3, <1>4, <1>5, <1>6, <1>7, <1>8, <1>9 DEF Next, HalStep

(***************************************************************************)
(* A Sync that knows where the backup copy of the table is comes to it     *)
(* only when the primary one is complete, whatever failed, died, went      *)
(* astray or lost power before.                                            *)
(***************************************************************************)
THEOREM BackupComesLast == Spec => BackupTouchedLast
<1>1. Init => Written
  BY DEF Init, GPT!Closed, Written
<1>2. TypeOK /\ Written /\ [Next]_vars => Written'
  BY NextWritten
<1>3. TypeOK /\ Written /\ [Next]_vars =>
        [call.pc = "sync" /\ call' = call /\ gpt.backup /\ BackupValid /\ ~BackupValid' => PrimaryValid']_vars
  BY NextWritten
<1> QED
  BY <1>1, <1>2, <1>3, TypeCorrect, PTL DEF Spec, BackupTouchedLast

=============================================================================
