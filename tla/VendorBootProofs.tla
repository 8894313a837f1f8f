-------------------------- MODULE VendorBootProofs --------------------------
(***************************************************************************)
(* Proofs about the two scripts that write vendor_boot, for every set of   *)
(* requests and faults.  A theorem that needs a command not to fail in     *)
(* silence says which: the scripts do not ask whether cp worked, do not    *)
(* see that a repack wrote half an image, or that the disk lost a write.   *)
(***************************************************************************)
EXTENDS VendorBoot, TLAPS

-----------------------------------------------------------------------------
(***************************************************************************)
(* The inductive invariant.                                                *)
(***************************************************************************)
\* What no script asks, or sees.
CopyWorks == "copy" \notin Faults
RepackWhole == "partialRepack" \notin Faults
WriteLands == "lostWriteback" \notin Faults

Writing == {"compare", "flashing", "verify"}

\* Where a script is, and on which slot.
CallInv ==
    /\ call.pc = "idle" <=> call.op = "none"
    /\ reply # "none" => call.pc = "idle"
    /\ call.op = "install" => /\ call.slot = current
                              /\ call.pc \notin {"source", "end"}
    /\ call.op = "reflash" => call.pc \notin {"backup", "copying"}
    /\ call.pc = "source" => call.slot = "a"
    /\ call.op = "reflash" /\ call.pc \in {"unpack", "graft"} \cup Writing => call.slot # current

\* A reflash holds the running slot's image as long as it runs.
SourceInv ==
    call.op = "reflash" /\ call.pc # "source" =>
        work.source = slots[current] /\ work.source.whole /\ work.source.recovery \in Ours

\* What is unpacked is whole, and what is packed fits and has the recovery.
WorkInv ==
    /\ call.pc = "graft" => work.target.whole
    /\ call.pc \in {"source", "read", "backup", "copying", "unpack"} => work.target = NoImage
    /\ call.pc \in Writing => work.image.reduced /\ work.image.recovery = Container.recovery
    /\ call.pc = "flashing" => ~slots[call.slot].whole

\* Every image a script has was made from the platform of its slot.
PlatformInv ==
    /\ FirstStageKept
    /\ call.pc # "idle" => \A i \in {work.dump, work.target, work.image} :
                              i.whole => i.build = builds[call.slot]

\* What the slot holds after the write was verified.
WrittenInv ==
    call.pc = "verify" =>
        slots[call.slot] = work.image \/ (call.op = "install" /\ ~WriteLands)

\* The slots a reflash is done with, as long as none failed.
DoneInv ==
    call.op = "reflash" /\ ~call.failed =>
        \A s \in Slots :
            (s = "a" /\ call.slot = "b") \/ (s = call.slot /\ call.pc = "end") =>
                s = current \/ EndState(s, work.source.recovery)

ScriptInv == CallInv /\ SourceInv /\ WorkInv /\ WrittenInv

ImageWhole ==
    call.pc \in Writing /\ (call.op = "install" \/ RepackWhole) => work.image.whole

IInv ==
    /\ TypeOK
    /\ ScriptInv
    /\ CopyWorks => PlatformInv /\ ImageWhole
    /\ CopyWorks /\ RepackWhole => DoneInv /\ BothMeansBoth
    /\ CopyWorks /\ WriteLands => InstalledMeansDone

-----------------------------------------------------------------------------
(***************************************************************************)
(* Type correctness.                                                       *)
(***************************************************************************)
Pcs == {"idle", "source", "read", "backup", "copying", "unpack", "graft", "compare", "flashing",
        "verify", "end"}

Calls == [op : {"none", "reflash", "install"}, slot : Slots, failed : BOOLEAN, pc : Pcs]
Works == [source : Images, dump : Images, target : Images, image : Images]

LEMMA ImageTypes ==
    /\ NoImage \in Images
    /\ \A b \in Builds : Stock(b) \in Images
    /\ \A i \in Images : Torn(i) \in Images
    /\ NoWork \in Works
    /\ Idle \in Calls
  BY DEF NoImage, Images, Stock, Torn, Builds, Ours, NoWork, Works, Idle, Calls, Slots, Pcs

LEMMA GotoCall ==
    ASSUME TypeOK, NEW pc \in Pcs, Goto(pc)
    PROVE  /\ call' \in Calls
           /\ call'.pc = pc /\ call'.op = call.op
           /\ call'.slot = call.slot /\ call'.failed = call.failed
  BY DEF TypeOK, Goto, Calls, Pcs

LEMMA SlotFailsCall ==
    ASSUME TypeOK, SlotFails
    PROVE  /\ call' \in Calls
           /\ reply' \in {"none", "both", "installed", "failed"}
           /\ call.op = "reflash" => /\ call'.pc = "end" /\ call'.failed
                                     /\ call'.op = "reflash" /\ call'.slot = call.slot
                                     /\ reply' = reply
           /\ call.op # "reflash" => call' = Idle /\ reply' = "failed"
  BY ImageTypes DEF TypeOK, SlotFails, Calls, Pcs

LEMMA GraftImages ==
    ASSUME TypeOK, NEW p \in Copied, NEW r \in Stripped(p),
           NEW o \in Repacked([build |-> p.build, reduced |-> r,
                               recovery |-> Container.recovery, whole |-> p.whole])
    PROVE  o \in Images
<1>1. Container \in Images
  BY DEF Container, TypeOK, Stock, Images, Ours
<1>2. p \in Images
  BY <1>1, ImageTypes DEF Copied, TypeOK
<1>3. r \in BOOLEAN
  BY <1>2 DEF Stripped, Images
<1>4. [build |-> p.build, reduced |-> r, recovery |-> Container.recovery,
       whole |-> p.whole] \in Images
  BY <1>1, <1>2, <1>3 DEF Images
<1> QED
  BY <1>4, ImageTypes DEF Repacked

\* What Graft leaves: no image, or one that fits and has the recovery, and whose
\* platform is the slot's when the copy worked.
LEMMA GraftMakes ==
    ASSUME TypeOK, Graft
    PROVE  \E o \in Images :
             /\ work' = [work EXCEPT !.image = o]
             /\ IF o # NoImage THEN Goto("compare") /\ UNCHANGED reply ELSE SlotFails
             /\ o # NoImage => o.reduced /\ o.recovery = Container.recovery
             /\ CopyWorks => /\ o.whole => work.target.whole /\ o.build = work.target.build
                             /\ o # NoImage /\ work.target.whole
                                  /\ (call.op # "reflash" \/ RepackWhole) => o.whole
<1>1. PICK p \in Copied : \E r \in Stripped(p) :
        LET i == [build |-> p.build, reduced |-> r,
                  recovery |-> Container.recovery, whole |-> p.whole]
        IN \E o \in IF Fits(i) THEN Repacked(i) ELSE {NoImage} :
             /\ work' = [work EXCEPT !.image = o]
             /\ IF o # NoImage THEN Goto("compare") /\ UNCHANGED reply ELSE SlotFails
  BY DEF Graft
<1>r. PICK r \in Stripped(p) :
        LET i == [build |-> p.build, reduced |-> r,
                  recovery |-> Container.recovery, whole |-> p.whole]
        IN \E o \in IF Fits(i) THEN Repacked(i) ELSE {NoImage} :
             /\ work' = [work EXCEPT !.image = o]
             /\ IF o # NoImage THEN Goto("compare") /\ UNCHANGED reply ELSE SlotFails
  BY <1>1
<1> DEFINE i == [build |-> p.build, reduced |-> r,
                 recovery |-> Container.recovery, whole |-> p.whole]
<1>2. PICK o \in IF Fits(i) THEN Repacked(i) ELSE {NoImage} :
        /\ work' = [work EXCEPT !.image = o]
        /\ IF o # NoImage THEN Goto("compare") /\ UNCHANGED reply ELSE SlotFails
  BY <1>r
<1>3. /\ i.build = p.build /\ i.reduced = r
      /\ i.recovery = Container.recovery /\ i.whole = p.whole
  OBVIOUS
<1> HIDE DEF i
<1>4. o = NoImage \/ (Fits(i) /\ (o = i \/ o = Torn(i)))
  BY <1>2 DEF Repacked
<1>5. o \in Images
  BY <1>2, GraftImages, ImageTypes DEF i
<1>6. o # NoImage => o.reduced /\ o.recovery = Container.recovery
  BY <1>3, <1>4 DEF Fits, Torn, i
<1>7. ASSUME CopyWorks
      PROVE  /\ o.whole => work.target.whole /\ o.build = work.target.build
             /\ o # NoImage /\ work.target.whole
                  /\ (call.op # "reflash" \/ RepackWhole) => o.whole
  <2>1. p = work.target
    BY <1>7 DEF CopyWorks, Copied
  <2>2. o.whole => o = i
    BY <1>4 DEF Torn, i, NoImage
  <2>3. (call.op # "reflash" \/ RepackWhole) => o \in {i, NoImage}
    BY <1>2 DEF Repacked, RepackWhole
  <2> QED
    BY <1>3, <2>1, <2>2, <2>3
<1> QED
  BY <1>2, <1>5, <1>6, <1>7

LEMMA NextType == TypeOK /\ [Next]_vars => TypeOK'
<1> SUFFICES ASSUME TypeOK, [Next]_vars PROVE TypeOK'
  OBVIOUS
<1>t. /\ slots \in [Slots -> Images] /\ builds \in [Slots -> Builds] /\ current \in Slots
      /\ booted \in Images /\ work \in Works /\ backup \in Images /\ call \in Calls
      /\ call.slot \in Slots
      /\ reply \in {"none", "both", "installed", "failed"}
  BY DEF TypeOK, Works, Calls, Pcs
<1>g. ASSUME slots' \in [Slots -> Images], builds' \in [Slots -> Builds], current' \in Slots,
             booted' \in Images, work' \in Works, backup' \in Images, call' \in Calls,
             reply' \in {"none", "both", "installed", "failed"}
      PROVE  TypeOK'
  BY <1>g DEF TypeOK, Works, Calls, Pcs
<1>w. /\ \A i \in Images : /\ [work EXCEPT !.source = i] \in Works
                           /\ [work EXCEPT !.dump = i] \in Works
                           /\ [work EXCEPT !.target = i] \in Works
                           /\ [work EXCEPT !.image = i] \in Works
      /\ [NoWork EXCEPT !.source = work.source] \in Works
      /\ work.dump \in Images /\ work.image \in Images
  BY <1>t, ImageTypes DEF Works
<1>1. CASE UNCHANGED vars
  BY <1>1 DEF TypeOK, vars
<1>2. ASSUME NEW op \in {"reflash", "install"}, Start(op) PROVE TypeOK'
  <2>1. call' \in Calls
    BY <1>t, <1>2 DEF Start, Idle, Calls, Pcs, Slots
  <2> QED
    BY <1>t, <1>g, <1>2, <2>1, ImageTypes DEF Start, FreshWork, device
<1>3. CASE ReadSource
  <2>1. slots[current] \in Images
    BY <1>t
  <2> QED
    BY <1>t, <1>g, <1>w, <1>3, <2>1, ImageTypes, GotoCall DEF ReadSource, Dies, device, Pcs
<1>4. CASE SkipRunning
  BY <1>t, <1>g, <1>4, GotoCall DEF SkipRunning, device, Pcs
<1>5. CASE ReadTarget
  <2>1. slots[call.slot] \in Images
    BY <1>t
  <2> QED
    BY <1>t, <1>g, <1>w, <1>5, <2>1, GotoCall, SlotFailsCall DEF ReadTarget, device, Pcs
<1>6. CASE UnpackTarget
  BY <1>t, <1>g, <1>w, <1>6, GotoCall, SlotFailsCall DEF UnpackTarget, device, Pcs
<1>7. CASE KeepBackup
  BY <1>t, <1>g, <1>7, GotoCall DEF KeepBackup, device, Pcs
<1>8. CASE BackupStarts
  BY <1>t, <1>g, <1>w, <1>8, GotoCall, ImageTypes DEF BackupStarts, device, Pcs
<1>9. CASE BackupEnds
  BY <1>t, <1>g, <1>w, <1>9, GotoCall, ImageTypes DEF BackupEnds, Dies, device, Pcs
<1>10. CASE Graft
  <2>1. PICK o \in Images :
          /\ work' = [work EXCEPT !.image = o]
          /\ IF o # NoImage THEN Goto("compare") /\ UNCHANGED reply ELSE SlotFails
    BY <1>10, GraftMakes
  <2> QED
    BY <1>t, <1>g, <1>w, <1>10, <2>1, GotoCall, SlotFailsCall DEF Graft, device, Pcs
<1>11. CASE SkipIdentical
  BY <1>t, <1>g, <1>11, GotoCall DEF SkipIdentical, device, Pcs
<1>12. CASE WriteStarts
  BY <1>t, <1>g, <1>w, <1>12, GotoCall, ImageTypes DEF WriteStarts, Pcs
<1>13. CASE WriteEnds
  BY <1>t, <1>g, <1>w, <1>13, GotoCall, SlotFailsCall DEF WriteEnds, Pcs
<1>14. CASE Verify
  BY <1>t, <1>g, <1>14, GotoCall, SlotFailsCall, ImageTypes DEF Verify, device, Pcs
<1>15. CASE NextSlot
  <2>1. call' \in Calls
    BY <1>t, <1>15 DEF NextSlot, Calls, Pcs, Slots
  <2> QED
    BY <1>t, <1>g, <1>w, <1>15, <2>1 DEF NextSlot, device
<1>16. CASE BothDone
  BY <1>t, <1>g, <1>16, ImageTypes DEF BothDone, device
<1>17. CASE Kill
  BY <1>t, <1>g, <1>17, ImageTypes DEF Kill, device
<1>18. CASE Reboot
  BY <1>t, <1>g, <1>18, ImageTypes DEF Reboot
<1>19. CASE Update
  BY <1>t, <1>g, <1>19, ImageTypes DEF Update, Builds
<1> QED
  BY <1>1, <1>2, <1>3, <1>4, <1>5, <1>6, <1>7, <1>8, <1>9, <1>10, <1>11, <1>12, <1>13, <1>14,
     <1>15, <1>16, <1>17, <1>18, <1>19 DEF Next

-----------------------------------------------------------------------------
(***************************************************************************)
(* The steps of the scripts.                                               *)
(***************************************************************************)
LEMMA WorkFields ==
    ASSUME TypeOK, NEW i
    PROVE  /\ [work EXCEPT !.source = i] = [source |-> i, dump |-> work.dump,
                                            target |-> work.target, image |-> work.image]
           /\ [work EXCEPT !.dump = i] = [source |-> work.source, dump |-> i,
                                          target |-> work.target, image |-> work.image]
           /\ [work EXCEPT !.target = i] = [source |-> work.source, dump |-> work.dump,
                                            target |-> i, image |-> work.image]
           /\ [work EXCEPT !.image = i] = [source |-> work.source, dump |-> work.dump,
                                           target |-> work.target, image |-> i]
           /\ [NoWork EXCEPT !.source = i] = [source |-> i, dump |-> NoImage,
                                              target |-> NoImage, image |-> NoImage]
  BY DEF TypeOK, NoWork

\* How a step leaves the call: further on, with the slot given up, or ended.
Moved(pc) ==
    /\ call'.pc = pc /\ call'.op = call.op /\ call'.slot = call.slot
    /\ call'.failed = call.failed /\ reply' = reply

GivenUp ==
    /\ call'.pc = "end" /\ call'.op = "reflash" /\ call.op = "reflash"
    /\ call'.slot = call.slot /\ call'.failed /\ reply' = reply

Ended == call'.op = "none" /\ call'.pc = "idle"
EndedFailed == Ended /\ reply' = "failed"

LEMMA Effects ==
    ASSUME TypeOK
    PROVE  /\ \A pc \in Pcs : Goto(pc) /\ reply' = reply => Moved(pc)
           /\ SlotFails => GivenUp \/ EndedFailed
           /\ Dies => EndedFailed
           /\ call' = Idle => Ended
<1>1. \A pc \in Pcs : Goto(pc) /\ reply' = reply => Moved(pc)
  BY GotoCall DEF Moved
<1>2. SlotFails => GivenUp \/ EndedFailed
  BY SlotFailsCall DEF GivenUp, Ended, EndedFailed, Idle
<1> QED
  BY <1>1, <1>2 DEF Dies, Idle, Ended, EndedFailed

LEMMA StartStep ==
    ASSUME TypeOK, NEW op \in {"reflash", "install"}, Start(op)
    PROVE  /\ UNCHANGED <<slots, builds, current>>
           /\ call.pc = "idle" /\ call'.op = op /\ ~call'.failed
           /\ call'.slot = IF op = "install" THEN current ELSE "a"
           /\ call'.pc = IF op = "install" THEN "read" ELSE "source"
           /\ work' = NoWork /\ reply' = "none"
  BY DEF Start, Idle, FreshWork, device

LEMMA ReadSourceStep ==
    ASSUME TypeOK, ReadSource
    PROVE  /\ UNCHANGED <<slots, builds, current>> /\ call.pc = "source"
           /\ \/ /\ Moved("read") /\ slots[current].whole /\ slots[current].recovery \in Ours
                 /\ work' = [source |-> slots[current], dump |-> work.dump,
                          target |-> work.target, image |-> work.image]
              \/ EndedFailed
  BY Effects, WorkFields DEF ReadSource, device, Pcs, Unpackable

LEMMA SkipRunningStep ==
    ASSUME TypeOK, SkipRunning
    PROVE  /\ UNCHANGED <<slots, builds, current, work>> /\ call.pc = "read"
           /\ call.op = "reflash" /\ call.slot = current /\ Moved("end")
  BY Effects DEF SkipRunning, device, Pcs, Skips

LEMMA ReadTargetStep ==
    ASSUME TypeOK, ReadTarget
    PROVE  /\ UNCHANGED <<slots, builds, current>> /\ call.pc = "read"
           /\ call.op = "reflash" => call.slot # current
           /\ \/ /\ Moved(IF call.op = "install" THEN "backup" ELSE "unpack")
                 /\ work' = [source |-> work.source, dump |-> slots[call.slot],
                          target |-> work.target, image |-> work.image]
              \/ (GivenUp \/ EndedFailed) /\ work' = work
  BY Effects, WorkFields DEF ReadTarget, device, Pcs, Skips

LEMMA UnpackTargetStep ==
    ASSUME TypeOK, UnpackTarget
    PROVE  /\ UNCHANGED <<slots, builds, current>> /\ call.pc = "unpack"
           /\ work' = work \/ work' = [source |-> work.source, dump |-> work.dump,
                          target |-> work.dump, image |-> work.image]
           /\ \/ GivenUp \/ EndedFailed
              \/ Moved("graft") /\ (work.target = NoImage => work'.target.whole)
  BY Effects, WorkFields DEF UnpackTarget, device, Pcs, Unpackable

LEMMA KeepBackupStep ==
    ASSUME TypeOK, KeepBackup
    PROVE  UNCHANGED <<slots, builds, current, work>> /\ call.pc = "backup" /\ Moved("unpack")
  BY Effects DEF KeepBackup, device, Pcs

LEMMA BackupStartsStep ==
    ASSUME TypeOK, BackupStarts
    PROVE  UNCHANGED <<slots, builds, current, work>> /\ call.pc = "backup" /\ Moved("copying")
  BY Effects DEF BackupStarts, device, Pcs

LEMMA BackupEndsStep ==
    ASSUME TypeOK, BackupEnds
    PROVE  /\ UNCHANGED <<slots, builds, current, work>> /\ call.pc = "copying"
           /\ Moved("unpack") \/ EndedFailed
  BY Effects DEF BackupEnds, device, Pcs

LEMMA GraftStep ==
    ASSUME TypeOK, Graft
    PROVE  \E o \in Images :
             /\ UNCHANGED <<slots, builds, current>> /\ call.pc = "graft"
             /\ work' = [source |-> work.source, dump |-> work.dump,
                          target |-> work.target, image |-> o]
             /\ \/ Moved("compare") /\ o # NoImage /\ o.reduced /\ o.recovery = Container.recovery
                \/ GivenUp \/ EndedFailed
             /\ CopyWorks => /\ o.whole => work.target.whole /\ o.build = work.target.build
                             /\ o # NoImage /\ work.target.whole
                                  /\ (call.op # "reflash" \/ RepackWhole) => o.whole
<1>1. UNCHANGED <<slots, builds, current>> /\ call.pc = "graft"
  BY DEF Graft, device
<1>2. "compare" \in Pcs
  BY DEF Pcs
<1> QED
  BY <1>1, <1>2, GraftMakes, Effects, WorkFields

LEMMA SkipIdenticalStep ==
    ASSUME TypeOK, SkipIdentical
    PROVE  /\ UNCHANGED <<slots, builds, current, work>> /\ call.pc = "compare"
           /\ call.op = "reflash" /\ slots[call.slot] = work.image /\ Moved("end")
  BY Effects DEF SkipIdentical, device, Pcs, Identical

LEMMA WriteStartsStep ==
    ASSUME TypeOK, WriteStarts
    PROVE  /\ UNCHANGED <<builds, current, work>> /\ call.pc = "compare" /\ Moved("flashing")
           /\ call.op = "reflash" => slots[call.slot] # work.image
           /\ ~slots'[call.slot].whole
           /\ \A s \in Slots : s # call.slot => slots'[s] = slots[s]
<1>1. /\ UNCHANGED <<builds, current, work>> /\ call.pc = "compare" /\ Moved("flashing")
      /\ slots' = [slots EXCEPT ![call.slot] = Torn(work.image)]
      /\ call.op = "reflash" => slots[call.slot] # work.image
  BY Effects DEF WriteStarts, Identical, Pcs
<1> QED
  BY <1>1 DEF TypeOK, Torn, Images

LEMMA WriteEndsStep ==
    ASSUME TypeOK, WriteEnds
    PROVE  /\ UNCHANGED <<builds, current, work>> /\ call.pc = "flashing"
           /\ \/ Moved("verify") /\ slots'[call.slot] = work.image
              \/ (GivenUp \/ EndedFailed) /\ slots'[call.slot] = slots[call.slot]
              \/ /\ Moved("verify") /\ slots'[call.slot] = slots[call.slot]
                 /\ call.op # "reflash" /\ ~WriteLands
           /\ \A s \in Slots : s # call.slot => slots'[s] = slots[s]
<1>1. UNCHANGED <<builds, current, work>> /\ call.pc = "flashing"
  BY DEF WriteEnds
<1>2. \/ Moved("verify") /\ slots' = [slots EXCEPT ![call.slot] = work.image]
      \/ (GivenUp \/ EndedFailed) /\ slots' = slots
      \/ Moved("verify") /\ slots' = slots /\ WriteFaults \ Reported # {}
  BY Effects DEF WriteEnds, Pcs
<1>3. WriteFaults \ Reported # {} => call.op # "reflash" /\ ~WriteLands
  BY DEF WriteFaults, Reported, WriteLands
<1> QED
  BY <1>1, <1>2, <1>3 DEF TypeOK

LEMMA VerifyStep ==
    ASSUME TypeOK, Verify
    PROVE  /\ UNCHANGED <<slots, builds, current, work>> /\ call.pc = "verify"
           /\ \/ call.op = "reflash" /\ Moved("end")
              \/ call.op = "install" /\ Ended /\ reply' = "installed"
              \/ GivenUp \/ EndedFailed
  BY Effects DEF Verify, device, Pcs

LEMMA NextSlotStep ==
    ASSUME TypeOK, NextSlot
    PROVE  /\ UNCHANGED <<slots, builds, current, reply>>
           /\ call.pc = "end" /\ call.slot = "a" /\ call'.slot = "b" /\ call'.pc = "read"
           /\ call'.op = call.op /\ call'.failed = call.failed
           /\ work' = [source |-> work.source, dump |-> NoImage,
                       target |-> NoImage, image |-> NoImage]
  BY WorkFields DEF NextSlot, TypeOK, device

LEMMA BothDoneStep ==
    ASSUME TypeOK, BothDone
    PROVE  /\ UNCHANGED <<slots, builds, current, work>> /\ call.pc = "end" /\ call.slot = "b"
           /\ Ended /\ reply' = IF call.failed THEN "failed" ELSE "both"
  BY DEF BothDone, Idle, Ended, AnyFailed, device

LEMMA AroundSteps ==
    ASSUME TypeOK
    PROVE  /\ Kill => UNCHANGED <<slots, builds, current, work>> /\ Ended /\ reply' = "none"
           /\ Reboot => UNCHANGED <<slots, builds>> /\ Ended /\ reply' = "none"
           /\ Update => /\ UNCHANGED <<current, work, call>> /\ call.pc = "idle" /\ reply' = "none"
                        /\ \E u \in Slots : /\ u # current /\ slots'[u] = Stock("new")
                                            /\ builds'[u] = "new"
                                            /\ \A s \in Slots : s # u => /\ slots'[s] = slots[s]
                                                                         /\ builds'[s] = builds[s]
<1>1. Kill => UNCHANGED <<slots, builds, current, work>> /\ Ended /\ reply' = "none"
  BY DEF Kill, Idle, Ended, device
<1>2. Reboot => UNCHANGED <<slots, builds>> /\ Ended /\ reply' = "none"
  BY DEF Reboot, Idle, Ended
<1>3. ASSUME Update
      PROVE  \E u \in Slots : /\ u # current /\ slots'[u] = Stock("new") /\ builds'[u] = "new"
                              /\ \A s \in Slots : s # u => /\ slots'[s] = slots[s]
                                                           /\ builds'[s] = builds[s]
  BY <1>3 DEF Update, TypeOK
<1> QED
  BY <1>1, <1>2, <1>3 DEF Update

LEMMA NextScript ==
    ASSUME TypeOK, ScriptInv, [Next]_vars
    PROVE  ScriptInv'
<1> USE DEF ScriptInv, CallInv, SourceInv, WorkInv, WrittenInv, Writing, Container, WriteLands
<1>t. /\ slots \in [Slots -> Images] /\ call.slot \in Slots /\ current \in Slots
      /\ call.op \in {"none", "reflash", "install"}
  BY DEF TypeOK
<1>1. CASE UNCHANGED vars
  BY <1>1 DEF vars
<1>2. ASSUME NEW op \in {"reflash", "install"}, Start(op) PROVE ScriptInv'
  BY <1>t, <1>2, StartStep DEF NoWork
<1>3. CASE ReadSource
  BY <1>t, <1>3, ReadSourceStep DEF Moved, GivenUp, Ended, EndedFailed
<1>4. CASE SkipRunning
  BY <1>t, <1>4, SkipRunningStep DEF Moved, GivenUp, Ended, EndedFailed
<1>5. CASE ReadTarget
  BY <1>t, <1>5, ReadTargetStep DEF Moved, GivenUp, Ended, EndedFailed
<1>6. CASE UnpackTarget
  BY <1>t, <1>6, UnpackTargetStep DEF Moved, GivenUp, Ended, EndedFailed
<1>7. CASE KeepBackup
  BY <1>t, <1>7, KeepBackupStep DEF Moved, GivenUp, Ended, EndedFailed
<1>8. CASE BackupStarts
  BY <1>t, <1>8, BackupStartsStep DEF Moved, GivenUp, Ended, EndedFailed
<1>9. CASE BackupEnds
  BY <1>t, <1>9, BackupEndsStep DEF Moved, GivenUp, Ended, EndedFailed
<1>10. CASE Graft
  <2>1. PICK o \in Images :
          /\ UNCHANGED <<slots, builds, current>> /\ call.pc = "graft"
          /\ work' = [source |-> work.source, dump |-> work.dump,
                          target |-> work.target, image |-> o]
          /\ \/ Moved("compare") /\ o # NoImage /\ o.reduced /\ o.recovery = Container.recovery
             \/ GivenUp \/ EndedFailed
          /\ CopyWorks => /\ o.whole => work.target.whole /\ o.build = work.target.build
                          /\ o # NoImage /\ work.target.whole
                               /\ (call.op # "reflash" \/ RepackWhole) => o.whole
    BY <1>10, GraftStep
  <2> QED
    BY <1>t, <2>1 DEF Moved, GivenUp, Ended, EndedFailed
<1>11. CASE SkipIdentical
  BY <1>t, <1>11, SkipIdenticalStep DEF Moved, GivenUp, Ended, EndedFailed
<1>12. CASE WriteStarts
  BY <1>t, <1>12, WriteStartsStep DEF Moved, GivenUp, Ended, EndedFailed
<1>13. CASE WriteEnds
  BY <1>t, <1>13, WriteEndsStep DEF Moved, GivenUp, Ended, EndedFailed
<1>14. CASE Verify
  BY <1>t, <1>14, VerifyStep DEF Moved, GivenUp, Ended, EndedFailed
<1>15. CASE NextSlot
  BY <1>t, <1>15, NextSlotStep DEF Moved, GivenUp, Ended, EndedFailed
<1>16. CASE BothDone
  BY <1>t, <1>16, BothDoneStep DEF Moved, GivenUp, Ended, EndedFailed
<1>17. CASE Kill
  BY <1>t, <1>17, AroundSteps DEF Ended
<1>18. CASE Reboot
  BY <1>t, <1>18, AroundSteps DEF Ended
<1>19. CASE Update
  BY <1>t, <1>19, AroundSteps
<1> QED
  BY <1>1, <1>2, <1>3, <1>4, <1>5, <1>6, <1>7, <1>8, <1>9, <1>10, <1>11, <1>12, <1>13, <1>14, <1>15, <1>16, <1>17, <1>18, <1>19 DEF Next

LEMMA NextPlatform ==
    ASSUME TypeOK, ScriptInv, CopyWorks, PlatformInv, ImageWhole, [Next]_vars
    PROVE  PlatformInv' /\ ImageWhole'
<1> USE DEF ScriptInv, CallInv, WorkInv, PlatformInv, FirstStageKept, ImageWhole, Writing, NoImage, Stock, CopyWorks, RepackWhole
<1>t. /\ slots \in [Slots -> Images] /\ call.slot \in Slots /\ current \in Slots
      /\ call.op \in {"none", "reflash", "install"}
  BY DEF TypeOK
<1>1. CASE UNCHANGED vars
  BY <1>1 DEF vars
<1>2. ASSUME NEW op \in {"reflash", "install"}, Start(op) PROVE PlatformInv' /\ ImageWhole'
  BY <1>t, <1>2, StartStep DEF NoWork
<1>3. CASE ReadSource
  BY <1>t, <1>3, ReadSourceStep DEF Moved, GivenUp, Ended, EndedFailed
<1>4. CASE SkipRunning
  BY <1>t, <1>4, SkipRunningStep DEF Moved, GivenUp, Ended, EndedFailed
<1>5. CASE ReadTarget
  BY <1>t, <1>5, ReadTargetStep DEF Moved, GivenUp, Ended, EndedFailed
<1>6. CASE UnpackTarget
  BY <1>t, <1>6, UnpackTargetStep DEF Moved, GivenUp, Ended, EndedFailed
<1>7. CASE KeepBackup
  BY <1>t, <1>7, KeepBackupStep DEF Moved, GivenUp, Ended, EndedFailed
<1>8. CASE BackupStarts
  BY <1>t, <1>8, BackupStartsStep DEF Moved, GivenUp, Ended, EndedFailed
<1>9. CASE BackupEnds
  BY <1>t, <1>9, BackupEndsStep DEF Moved, GivenUp, Ended, EndedFailed
<1>10. CASE Graft
  <2>1. PICK o \in Images :
          /\ UNCHANGED <<slots, builds, current>> /\ call.pc = "graft"
          /\ work' = [source |-> work.source, dump |-> work.dump,
                          target |-> work.target, image |-> o]
          /\ \/ Moved("compare") /\ o # NoImage /\ o.reduced /\ o.recovery = Container.recovery
             \/ GivenUp \/ EndedFailed
          /\ CopyWorks => /\ o.whole => work.target.whole /\ o.build = work.target.build
                          /\ o # NoImage /\ work.target.whole
                               /\ (call.op # "reflash" \/ RepackWhole) => o.whole
    BY <1>10, GraftStep
  <2> QED
    BY <1>t, <2>1 DEF Moved, GivenUp, Ended, EndedFailed
<1>11. CASE SkipIdentical
  BY <1>t, <1>11, SkipIdenticalStep DEF Moved, GivenUp, Ended, EndedFailed
<1>12. CASE WriteStarts
  BY <1>t, <1>12, WriteStartsStep DEF Moved, GivenUp, Ended, EndedFailed
<1>13. CASE WriteEnds
  BY <1>t, <1>13, WriteEndsStep DEF Moved, GivenUp, Ended, EndedFailed
<1>14. CASE Verify
  BY <1>t, <1>14, VerifyStep DEF Moved, GivenUp, Ended, EndedFailed
<1>15. CASE NextSlot
  BY <1>t, <1>15, NextSlotStep DEF Moved, GivenUp, Ended, EndedFailed
<1>16. CASE BothDone
  BY <1>t, <1>16, BothDoneStep DEF Moved, GivenUp, Ended, EndedFailed
<1>17. CASE Kill
  BY <1>t, <1>17, AroundSteps DEF Ended
<1>18. CASE Reboot
  BY <1>t, <1>18, AroundSteps DEF Ended
<1>19. CASE Update
  BY <1>t, <1>19, AroundSteps
<1> QED
  BY <1>1, <1>2, <1>3, <1>4, <1>5, <1>6, <1>7, <1>8, <1>9, <1>10, <1>11, <1>12, <1>13, <1>14, <1>15, <1>16, <1>17, <1>18, <1>19 DEF Next

\* What is about to be written is the end state of the slot.
LEMMA ImageIsEndState ==
    ASSUME TypeOK, ScriptInv, CopyWorks, PlatformInv, ImageWhole, call.pc \in Writing,
           call.op = "install" \/ RepackWhole
    PROVE  work.image = [build |-> builds[call.slot], reduced |-> TRUE,
                         recovery |-> Container.recovery, whole |-> TRUE]
<1>1. work.image \in Images
  BY DEF TypeOK
<1>2. /\ work.image.build = builds[call.slot] /\ work.image.reduced
      /\ work.image.recovery = Container.recovery /\ work.image.whole
  BY DEF ScriptInv, WorkInv, PlatformInv, ImageWhole, Writing
<1> QED
  BY <1>1, <1>2 DEF Images

LEMMA NextDone ==
    ASSUME TypeOK, ScriptInv, CopyWorks, RepackWhole, PlatformInv, ImageWhole, DoneInv, BothMeansBoth, [Next]_vars
    PROVE  DoneInv' /\ BothMeansBoth'
<1> USE DEF ScriptInv, CallInv, SourceInv, WrittenInv, DoneInv, BothMeansBoth, EndState, Writing, Container, Slots
<1>t. /\ slots \in [Slots -> Images] /\ call.slot \in Slots /\ current \in Slots
      /\ call.op \in {"none", "reflash", "install"}
  BY DEF TypeOK
<1>e. call.pc \in Writing => work.image = [build |-> builds[call.slot], reduced |-> TRUE,
                                          recovery |-> Container.recovery, whole |-> TRUE]
  BY ImageIsEndState
<1>1. CASE UNCHANGED vars
  BY <1>1 DEF vars
<1>2. ASSUME NEW op \in {"reflash", "install"}, Start(op) PROVE DoneInv' /\ BothMeansBoth'
  BY <1>t, <1>2, StartStep
<1>3. CASE ReadSource
  BY <1>t, <1>e, <1>3, ReadSourceStep DEF Moved, GivenUp, Ended, EndedFailed
<1>4. CASE SkipRunning
  BY <1>t, <1>e, <1>4, SkipRunningStep DEF Moved, GivenUp, Ended, EndedFailed
<1>5. CASE ReadTarget
  BY <1>t, <1>e, <1>5, ReadTargetStep DEF Moved, GivenUp, Ended, EndedFailed
<1>6. CASE UnpackTarget
  BY <1>t, <1>e, <1>6, UnpackTargetStep DEF Moved, GivenUp, Ended, EndedFailed
<1>7. CASE KeepBackup
  BY <1>t, <1>e, <1>7, KeepBackupStep DEF Moved, GivenUp, Ended, EndedFailed
<1>8. CASE BackupStarts
  BY <1>t, <1>e, <1>8, BackupStartsStep DEF Moved, GivenUp, Ended, EndedFailed
<1>9. CASE BackupEnds
  BY <1>t, <1>e, <1>9, BackupEndsStep DEF Moved, GivenUp, Ended, EndedFailed
<1>10. CASE Graft
  <2>1. PICK o \in Images :
          /\ UNCHANGED <<slots, builds, current>> /\ call.pc = "graft"
          /\ work' = [source |-> work.source, dump |-> work.dump,
                          target |-> work.target, image |-> o]
          /\ \/ Moved("compare") /\ o # NoImage /\ o.reduced /\ o.recovery = Container.recovery
             \/ GivenUp \/ EndedFailed
          /\ CopyWorks => /\ o.whole => work.target.whole /\ o.build = work.target.build
                          /\ o # NoImage /\ work.target.whole
                               /\ (call.op # "reflash" \/ RepackWhole) => o.whole
    BY <1>10, GraftStep
  <2> QED
    BY <1>t, <1>e, <2>1 DEF Moved, GivenUp, Ended, EndedFailed
<1>11. CASE SkipIdentical
  BY <1>t, <1>e, <1>11, SkipIdenticalStep DEF Moved, GivenUp, Ended, EndedFailed
<1>12. CASE WriteStarts
  BY <1>t, <1>e, <1>12, WriteStartsStep DEF Moved, GivenUp, Ended, EndedFailed
<1>13. CASE WriteEnds
  BY <1>t, <1>e, <1>13, WriteEndsStep DEF Moved, GivenUp, Ended, EndedFailed
<1>14. CASE Verify
  BY <1>t, <1>e, <1>14, VerifyStep DEF Moved, GivenUp, Ended, EndedFailed
<1>15. CASE NextSlot
  BY <1>t, <1>e, <1>15, NextSlotStep DEF Moved, GivenUp, Ended, EndedFailed
<1>16. CASE BothDone
  BY <1>t, <1>e, <1>16, BothDoneStep DEF Moved, GivenUp, Ended, EndedFailed
<1>17. CASE Kill
  BY <1>t, <1>e, <1>17, AroundSteps DEF Ended
<1>18. CASE Reboot
  BY <1>t, <1>e, <1>18, AroundSteps DEF Ended
<1>19. CASE Update
  BY <1>t, <1>e, <1>19, AroundSteps
<1> QED
  BY <1>1, <1>2, <1>3, <1>4, <1>5, <1>6, <1>7, <1>8, <1>9, <1>10, <1>11, <1>12, <1>13, <1>14, <1>15, <1>16, <1>17, <1>18, <1>19 DEF Next

LEMMA NextInstalled ==
    ASSUME TypeOK, ScriptInv, CopyWorks, WriteLands, PlatformInv, ImageWhole, InstalledMeansDone, [Next]_vars
    PROVE  InstalledMeansDone'
<1> USE DEF ScriptInv, CallInv, WrittenInv, InstalledMeansDone, EndState, Writing, Container
<1>t. /\ slots \in [Slots -> Images] /\ call.slot \in Slots /\ current \in Slots
      /\ call.op \in {"none", "reflash", "install"}
  BY DEF TypeOK
<1>e. call.pc \in Writing /\ call.op = "install" => work.image = [build |-> builds[call.slot], reduced |-> TRUE,
                                          recovery |-> Container.recovery, whole |-> TRUE]
  BY ImageIsEndState
<1>1. CASE UNCHANGED vars
  BY <1>1 DEF vars
<1>2. ASSUME NEW op \in {"reflash", "install"}, Start(op) PROVE InstalledMeansDone'
  BY <1>t, <1>2, StartStep
<1>3. CASE ReadSource
  BY <1>t, <1>e, <1>3, ReadSourceStep DEF Moved, GivenUp, Ended, EndedFailed
<1>4. CASE SkipRunning
  BY <1>t, <1>e, <1>4, SkipRunningStep DEF Moved, GivenUp, Ended, EndedFailed
<1>5. CASE ReadTarget
  BY <1>t, <1>e, <1>5, ReadTargetStep DEF Moved, GivenUp, Ended, EndedFailed
<1>6. CASE UnpackTarget
  BY <1>t, <1>e, <1>6, UnpackTargetStep DEF Moved, GivenUp, Ended, EndedFailed
<1>7. CASE KeepBackup
  BY <1>t, <1>e, <1>7, KeepBackupStep DEF Moved, GivenUp, Ended, EndedFailed
<1>8. CASE BackupStarts
  BY <1>t, <1>e, <1>8, BackupStartsStep DEF Moved, GivenUp, Ended, EndedFailed
<1>9. CASE BackupEnds
  BY <1>t, <1>e, <1>9, BackupEndsStep DEF Moved, GivenUp, Ended, EndedFailed
<1>10. CASE Graft
  <2>1. PICK o \in Images :
          /\ UNCHANGED <<slots, builds, current>> /\ call.pc = "graft"
          /\ work' = [source |-> work.source, dump |-> work.dump,
                          target |-> work.target, image |-> o]
          /\ \/ Moved("compare") /\ o # NoImage /\ o.reduced /\ o.recovery = Container.recovery
             \/ GivenUp \/ EndedFailed
          /\ CopyWorks => /\ o.whole => work.target.whole /\ o.build = work.target.build
                          /\ o # NoImage /\ work.target.whole
                               /\ (call.op # "reflash" \/ RepackWhole) => o.whole
    BY <1>10, GraftStep
  <2> QED
    BY <1>t, <1>e, <2>1 DEF Moved, GivenUp, Ended, EndedFailed
<1>11. CASE SkipIdentical
  BY <1>t, <1>e, <1>11, SkipIdenticalStep DEF Moved, GivenUp, Ended, EndedFailed
<1>12. CASE WriteStarts
  BY <1>t, <1>e, <1>12, WriteStartsStep DEF Moved, GivenUp, Ended, EndedFailed
<1>13. CASE WriteEnds
  BY <1>t, <1>e, <1>13, WriteEndsStep DEF Moved, GivenUp, Ended, EndedFailed
<1>14. CASE Verify
  BY <1>t, <1>e, <1>14, VerifyStep DEF Moved, GivenUp, Ended, EndedFailed
<1>15. CASE NextSlot
  BY <1>t, <1>e, <1>15, NextSlotStep DEF Moved, GivenUp, Ended, EndedFailed
<1>16. CASE BothDone
  BY <1>t, <1>e, <1>16, BothDoneStep DEF Moved, GivenUp, Ended, EndedFailed
<1>17. CASE Kill
  BY <1>t, <1>e, <1>17, AroundSteps DEF Ended
<1>18. CASE Reboot
  BY <1>t, <1>e, <1>18, AroundSteps DEF Ended
<1>19. CASE Update
  BY <1>t, <1>e, <1>19, AroundSteps
<1> QED
  BY <1>1, <1>2, <1>3, <1>4, <1>5, <1>6, <1>7, <1>8, <1>9, <1>10, <1>11, <1>12, <1>13, <1>14, <1>15, <1>16, <1>17, <1>18, <1>19 DEF Next

-----------------------------------------------------------------------------
(***************************************************************************)
(* The inductive invariant holds.                                          *)
(***************************************************************************)
LEMMA InitIInv == Init => IInv
<1> SUFFICES ASSUME Init PROVE IInv
  OBVIOUS
<1>1. PICK r \in BOOLEAN, other \in {Stock("old"), NoImage} :
        slots = [s \in Slots |->
                   IF s = "a" THEN [build |-> "old", reduced |-> r, recovery |-> "fox", whole |-> TRUE]
                   ELSE other]
  BY DEF Init
<1>2. slots \in [Slots -> Images]
  <2>1. [build |-> "old", reduced |-> r, recovery |-> "fox", whole |-> TRUE] \in Images
    BY DEF Images, Builds, Ours
  <2>2. other \in Images
    BY ImageTypes DEF Builds
  <2> QED
    BY <1>1, <2>1, <2>2
<1>3. TypeOK
  BY <1>2, ImageTypes DEF Init, TypeOK, Slots, Builds, Works, Calls, Pcs
<1>4. ScriptInv
  BY DEF Init, ScriptInv, CallInv, SourceInv, WorkInv, WrittenInv, Idle, Writing, NoWork
<1>5. PlatformInv /\ ImageWhole
  BY <1>1 DEF Init, PlatformInv, FirstStageKept, ImageWhole, Idle, Writing, Stock, NoImage
<1>6. DoneInv /\ BothMeansBoth /\ InstalledMeansDone
  BY DEF Init, DoneInv, BothMeansBoth, InstalledMeansDone, Idle
<1> QED
  BY <1>3, <1>4, <1>5, <1>6 DEF IInv

LEMMA NextIInv == IInv /\ [Next]_vars => IInv'
  BY NextType, NextScript, NextPlatform, NextDone, NextInstalled DEF IInv, CopyWorks, RepackWhole, WriteLands

\* The type invariant, and where a script is when it holds what.
THEOREM Invariance == Spec => []IInv
  BY InitIInv, NextIInv, PTL DEF Spec

-----------------------------------------------------------------------------
(***************************************************************************)
(* What the scripts promise.                                               *)
(***************************************************************************)
\* Every variable keeps its type, whatever is asked for and whatever fails.
THEOREM TypeCorrect == Spec => []TypeOK
<1>1. IInv => TypeOK
  BY DEF IInv
<1> QED
  BY <1>1, Invariance, PTL

\* As long as the copy of the platform fragment works, no slot that would boot
\* ever holds the first-stage of another build: not after a kill or a power cut
\* in the middle of a write, nor after an update between two runs.
THEOREM FirstStageIsKept == ASSUME CopyWorks PROVE Spec => []FirstStageKept
<1>1. IInv => FirstStageKept
  BY DEF IInv, PlatformInv
<1> QED
  BY <1>1, Invariance, PTL

\* As long as the copy works and a repack leaves all of its image or none, "both
\* slots" is told only when the other slot holds its first-stage and the recovery.
THEOREM BothIsBoth == ASSUME CopyWorks, RepackWhole PROVE Spec => []BothMeansBoth
<1>1. IInv => BothMeansBoth
  BY DEF IInv
<1> QED
  BY <1>1, Invariance, PTL

\* As long as the copy works and the disk keeps what dd wrote, anykernel.sh is
\* done only when the running slot holds what it was to hold.
THEOREM InstalledIsDone == ASSUME CopyWorks, WriteLands PROVE Spec => []InstalledMeansDone
<1>1. IInv => InstalledMeansDone
  BY DEF IInv
<1> QED
  BY <1>1, Invariance, PTL

\* Whatever fails, no step of a reflash changes the running slot.
THEOREM RunningIsUntouched == Spec => RunningSlotUntouched
<1>1. IInv /\ [Next]_vars => [call.op = "reflash" => slots'[current] = slots[current]]_vars
  <2> SUFFICES ASSUME IInv, Next, call.op = "reflash" PROVE slots'[current] = slots[current]
    OBVIOUS
  <2>t. TypeOK /\ CallInv /\ current \in Slots
    BY DEF IInv, ScriptInv, TypeOK
  <2>1. CASE WriteStarts
    BY <2>t, <2>1, WriteStartsStep DEF CallInv, Writing
  <2>2. CASE WriteEnds
    BY <2>t, <2>2, WriteEndsStep DEF CallInv, Writing
  <2>3. CASE Update
    BY <2>t, <2>3 DEF CallInv, Update
  <2>4. CASE ~(WriteStarts \/ WriteEnds \/ Update)
    BY <2>4 DEF Next, Start, ReadSource, SkipRunning, ReadTarget, UnpackTarget, KeepBackup,
                BackupStarts, BackupEnds, Graft, SkipIdentical, Verify, NextSlot, BothDone,
                Kill, Reboot, device
  <2> QED
    BY <2>1, <2>2, <2>3, <2>4
<1> QED
  BY <1>1, Invariance, PTL DEF Spec, RunningSlotUntouched

\* Whatever fails, no script writes an image that the bootloader cannot load.
THEOREM NothingOversize == Spec => OversizeNeverWritten
<1>1. IInv /\ [Next]_vars =>
        [\A s \in Slots : slots'[s] # slots[s] =>
           slots'[s].recovery = "none" \/ slots'[s].reduced]_vars
  <2> SUFFICES ASSUME IInv, Next, NEW s \in Slots, slots'[s] # slots[s]
               PROVE  slots'[s].recovery = "none" \/ slots'[s].reduced
    OBVIOUS
  <2>t. /\ TypeOK /\ WorkInv /\ call.slot \in Slots
        /\ slots \in [Slots -> Images] /\ work.image \in Images
    BY DEF IInv, ScriptInv, TypeOK
  <2>1. CASE WriteStarts
    BY <2>t, <2>1 DEF WriteStarts, WorkInv, Writing, Torn, Images
  <2>2. CASE WriteEnds
    BY <2>t, <2>2, WriteEndsStep DEF WorkInv, Writing
  <2>3. CASE Update
    BY <2>t, <2>3, AroundSteps DEF Stock
  <2>4. CASE ~(WriteStarts \/ WriteEnds \/ Update)
    BY <2>4 DEF Next, Start, ReadSource, SkipRunning, ReadTarget, UnpackTarget, KeepBackup,
                BackupStarts, BackupEnds, Graft, SkipIdentical, Verify, NextSlot, BothDone,
                Kill, Reboot, device
  <2> QED
    BY <2>1, <2>2, <2>3, <2>4
<1> QED
  BY <1>1, Invariance, PTL DEF Spec, OversizeNeverWritten

\* As long as the copy works and a repack leaves all of its image or none, a slot
\* that holds what a reflash would write is not written again.
THEOREM ReflashedStays == ASSUME CopyWorks, RepackWhole PROVE Spec => StaysReflashed
<1>1. IInv /\ [Next]_vars =>
        [\A s \in Slots :
           /\ call.op = "reflash" /\ work.source.whole
           /\ EndState(s, work.source.recovery)
           => slots'[s] = slots[s]]_vars
  <2> SUFFICES ASSUME IInv, Next, NEW s \in Slots, call.op = "reflash",
                      EndState(s, work.source.recovery)
               PROVE  slots'[s] = slots[s]
    OBVIOUS
  <2>t. /\ TypeOK /\ ScriptInv /\ CallInv /\ WorkInv /\ PlatformInv /\ ImageWhole
        /\ call.slot \in Slots
    BY DEF IInv, ScriptInv, TypeOK
  <2>1. CASE WriteStarts
    <3>1. work.image = [build |-> builds[call.slot], reduced |-> TRUE,
                        recovery |-> work.source.recovery, whole |-> TRUE]
      BY <2>t, <2>1, WriteStartsStep, ImageIsEndState DEF Writing, Container
    <3> QED
      BY <2>t, <2>1, <3>1, WriteStartsStep DEF EndState
  <2>2. CASE WriteEnds
    BY <2>t, <2>2, WriteEndsStep DEF WorkInv, EndState
  <2>3. CASE Update
    BY <2>t, <2>3 DEF CallInv, Update
  <2>4. CASE ~(WriteStarts \/ WriteEnds \/ Update)
    BY <2>4 DEF Next, Start, ReadSource, SkipRunning, ReadTarget, UnpackTarget, KeepBackup,
                BackupStarts, BackupEnds, Graft, SkipIdentical, Verify, NextSlot, BothDone,
                Kill, Reboot, device
  <2> QED
    BY <2>1, <2>2, <2>3, <2>4
<1> QED
  BY <1>1, Invariance, PTL DEF Spec, StaysReflashed

=============================================================================
