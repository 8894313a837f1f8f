--------------------------- MODULE FormatDataProofs ---------------------------
(***************************************************************************)
(* Proofs about Format Data, for every set of faults, with or without      *)
(* crypto mappings and Virtual A/B; and about DataWipes, for every set of   *)
(* other partitions: it does to the state of Format Data only what          *)
(* FormatData allows, and the data goes in no other way than a Format Data  *)
(* that someone at the phone began.                                        *)
(***************************************************************************)
EXTENDS DataWipes, TLAPS

-----------------------------------------------------------------------------
(***************************************************************************)
(* A call at its beginning and at its early end is of its type.            *)
(***************************************************************************)
LEMMA NoFormatType == NoFormat \in Calls
  BY DEF NoFormat, Calls, kEraseAttempts

LEMMA GiveUpType ==
    ASSUME NEW b \in {"kept", "gone"}
    PROVE  [NoFormat EXCEPT !.before = b] \in Calls
  BY NoFormatType DEF Calls

LEMMA BeginType ==
    ASSUME NEW b \in {"kept", "gone"}
    PROVE  [NoFormat EXCEPT !.pc = "list", !.before = b] \in Calls
  BY NoFormatType DEF Calls, Before

LEMMA GotoType ==
    ASSUME NEW c \in Calls, NEW pc \in Before \cup After
    PROVE  [c EXCEPT !.pc = pc] \in Calls
  BY DEF Calls

LEMMA StepType ==
    ASSUME NEW c \in Calls, NEW pc \in After
    PROVE  /\ [c EXCEPT !.pc = pc, !.success = TRUE] \in Calls
           /\ [c EXCEPT !.pc = pc, !.success = FALSE] \in Calls
           /\ [c EXCEPT !.pc = pc, !.success = c.success] \in Calls
  BY DEF Calls

(***************************************************************************)
(* A call that gives up keeps its type, whatever its step did.             *)
(***************************************************************************)
LEMMA GivesUp ==
    ASSUME TypeOK, GiveUp
    PROVE  format' \in Calls /\ reply' \in {"none", "failed", "partly", "erased"}
  BY GiveUpType DEF TypeOK, GiveUp, Calls

LEMMA Goes ==
    ASSUME TypeOK, NEW pc \in Before \cup After, Goto(pc)
    PROVE  format' \in Calls
<1>1. format \in Calls
  BY DEF TypeOK
<1>2. [format EXCEPT !.pc = pc] \in Calls
  BY ONLY <1>1, GotoType
<1> QED
  BY <1>2 DEF Goto

LEMMA Steps ==
    ASSUME TypeOK, NEW pc \in After, Step(pc, TRUE) \/ Step(pc, FALSE)
    PROVE  format' \in Calls
<1>1. format \in Calls
  BY DEF TypeOK
<1> QED
  BY <1>1, StepType DEF Step

-----------------------------------------------------------------------------
(***************************************************************************)
(* Type correctness: the attempts at Titan M stay below their bound, and   *)
(* no step but those that remove something touches the sets.               *)
(***************************************************************************)
LEMMA InitType == Init => TypeOK
  BY NoFormatType DEF Init, TypeOK

LEMMA NextType == TypeOK /\ [Next]_vars => TypeOK'
<1> SUFFICES ASSUME TypeOK, [Next]_vars
             PROVE  TypeOK'
  OBVIOUS
<1> USE DEF TypeOK, dataVars, keyVars
<1>1. CASE MountData
  BY <1>1 DEF MountData
<1>2. CASE UnmountData
  BY <1>2 DEF UnmountData
<1>3. CASE (\E u \in Users : OpenFile(u) \/ CloseFile(u)) \/ ShellBinds
  BY <1>3 DEF OpenFile, CloseFile, ShellBinds, Points
<1>4. CASE FsWrites
  BY <1>4 DEF FsWrites
<1>5. CASE Begin
  BY <1>5, BeginType DEF Begin, Users
<1>6. CASE ListMounts
  <2>1. format' \in Calls
    BY <1>6, GivesUp DEF ListMounts, Calls, Before
  <2> QED
    BY <1>6, <2>1, GivesUp DEF ListMounts
<1>7. CASE \E p \in Points : Umount(p)
  <2> PICK p \in Points : Umount(p)
    BY <1>7
  <2>1. format' \in Calls
    BY GivesUp DEF Umount, StillInUse, Calls
  <2> QED
    BY <2>1, GivesUp DEF Umount, StillInUse
<1>8. CASE Unmounted \/ MappingsRemoved \/ SettleMerge \/ UnmountMetadata
  BY <1>8, GivesUp, Goes DEF Unmounted, MappingsRemoved, SettleMerge, MergeFails,
     UnmountMetadata, Before
<1>9. CASE \E n \in Names : RemoveMapping(n)
  BY <1>9, GivesUp DEF RemoveMapping, MappingInUse
<1>10. CASE SecureDiscard \/ Discard
  BY <1>10, GivesUp, Goes DEF SecureDiscard, Discard, Erased, Before, After
<1>11. CASE ZeroStart
  BY <1>11, Goes DEF ZeroStart, After
<1>12. CASE ReadBack
  <2>1. format' \in Calls
    <3>1. CASE format' = [format EXCEPT !.pc = "metadata", !.success = TRUE]
      BY <3>1, StepType DEF After
    <3>2. CASE NotBlank
      BY <3>2, Goes DEF NotBlank, After
    <3> QED
      BY ONLY <1>12, <3>1, <3>2 DEF ReadBack
  <2>2. reply' = reply /\ UNCHANGED <<dataVars, userdata, keyVars, weaver>>
    BY ONLY <1>12 DEF ReadBack, NotBlank
  <2> QED
    BY ONLY TypeOK, <2>1, <2>2 DEF TypeOK, dataVars, keyVars
<1>13. CASE WipeMetadata \/ ResetMemtag \/ WipeTrustyUserdata
  <2>1. format' \in Calls
    BY <1>13, Steps DEF WipeMetadata, ResetMemtag, WipeTrustyUserdata, Removes, After
  <2> QED
    BY <1>13, <2>1 DEF WipeMetadata, ResetMemtag, WipeTrustyUserdata, Removes
<1>14. CASE StopWeaver \/ WaitForWeaver \/ InitReapsWeaver
  BY <1>14, Goes DEF StopWeaver, WaitForWeaver, InitReapsWeaver, After
<1>15. CASE EraseTitan
  <2>1. format' \in Calls
    <3>1. CASE Goto("trusty")
      BY <3>1, Goes DEF After
    <3>2. CASE AttemptFails
      <4>1. [format EXCEPT !.pc = "trusty", !.success = FALSE] \in Calls
        BY StepType DEF After
      <4>2. ASSUME format.attempt + 1 < kEraseAttempts
            PROVE  [format EXCEPT !.attempt = format.attempt + 1] \in Calls
        BY <4>2 DEF Calls, kEraseAttempts
      <4>3. format' = IF format.attempt + 1 < kEraseAttempts
                      THEN [format EXCEPT !.attempt = format.attempt + 1]
                      ELSE [format EXCEPT !.pc = "trusty", !.success = FALSE]
        BY ONLY <3>2 DEF AttemptFails, Again, OutOfAttempts
      <4> QED
        BY ONLY <4>1, <4>2, <4>3
    <3> QED
      BY <1>15, <3>1, <3>2 DEF EraseTitan
  <2> QED
    BY <1>15, <2>1 DEF EraseTitan
<1>16. CASE ClearMiscFlags
  BY <1>16, NoFormatType DEF ClearMiscFlags
<1>17. CASE Reboot
  BY <1>17, NoFormatType DEF Reboot, Users
<1>18. CASE UNCHANGED vars
  BY <1>18 DEF vars
<1> QED
  BY <1>1, <1>2, <1>3, <1>4, <1>5, <1>6, <1>7, <1>8, <1>9, <1>10, <1>11, <1>12, <1>13,
     <1>14, <1>15, <1>16, <1>17, <1>18 DEF Next, FormatStep

THEOREM TypeCorrect == Spec => []TypeOK
  BY InitType, NextType, PTL DEF Spec

-----------------------------------------------------------------------------
(***************************************************************************)
(* The inductive invariant.  Its heart is Mapped: with encryption a live   *)
(* file system holds both mappings, so that once Format Data has removed   *)
(* them nothing is alive on userdata any more, and nothing comes to life   *)
(* on a blank one.                                                         *)
(***************************************************************************)
Late == {"metadataBusy", "erase", "discard"} \cup After

Mapped == Encrypted /\ Alive => mappings = Names

Unmapped == format.pc \in {"merge"} \cup Late => mappings = {}

Settled == ~VirtualAB \/ format.pc \in Late \/ userdata.rest = "gone" => merge = "none"

PastTheErase == format.pc \in After => userdata.rest = "gone"

NothingOnBlank == Encrypted /\ userdata.start # "superblock" => ~Alive

\* What a success that still stands at a step says of the steps before it.
SuccessSoFar ==
    format.success =>
        /\ format.pc \in After \ {"zero", "readback"}
        /\ userdata.start = "zeros"
        /\ format.pc # "metadata" => "metadata" \notin secrets
        /\ format.pc \notin {"metadata", "memtag"} => "memtag" \notin flags
        /\ format.pc \in {"trusty", "misc"} => "titan" \notin secrets
        /\ format.pc = "misc" => "trusty" \notin secrets

Replied == reply # "none" => format.pc = "idle"

Intact ==
    "zero" \notin Faults =>
        (format.pc \in Before \/ reply = "failed" => userdata.rest = format.before)

Wiped == Encrypted => SuccessMeansWiped

IInv ==
    /\ TypeOK
    /\ Mapped /\ Unmapped /\ NothingOnBlank
    /\ Settled /\ PastTheErase /\ SecretsOutliveData
    /\ Replied /\ Intact
    /\ (Encrypted => SuccessSoFar) /\ Wiped

LEMMA SameAlive ==
    ASSUME UNCHANGED <<mounts, held>>
    PROVE  Alive' <=> Alive
  BY DEF Alive

LEMMA Initially == Init => IInv
<1> SUFFICES ASSUME Init
             PROVE  IInv
  OBVIOUS
<1>1. TypeOK
  BY InitType
<1>2. format.pc = "idle" /\ ~format.success
  BY DEF Init, NoFormat
<1>3. Mapped /\ NothingOnBlank
  BY DEF Init, Mapped, NothingOnBlank, Alive
<1>4. Unmapped /\ Settled /\ PastTheErase /\ SecretsOutliveData
  BY <1>2 DEF Init, Unmapped, Settled, PastTheErase, SecretsOutliveData, Late, After
<1>5. Replied /\ Intact /\ SuccessSoFar /\ Wiped
  BY <1>2 DEF Init, Replied, Intact, SuccessSoFar, Wiped, SuccessMeansWiped, Before
<1> QED
  BY <1>1, <1>3, <1>4, <1>5 DEF IInv

LEMMA Inductive == IInv /\ [Next]_vars => IInv'
<1> SUFFICES ASSUME IInv, [Next]_vars
             PROVE  IInv'
  OBVIOUS
<1>1. TypeOK /\ TypeOK'
  BY NextType DEF IInv
<1> DEFINE Rest == /\ Mapped /\ Unmapped /\ NothingOnBlank
                   /\ Settled /\ PastTheErase /\ SecretsOutliveData
                   /\ Replied /\ Intact
                   /\ (Encrypted => SuccessSoFar) /\ Wiped
<1> SUFFICES Rest'
  BY <1>1 DEF IInv
<1>0. Rest
  BY DEF IInv
<1> USE DEF Mapped, Unmapped, NothingOnBlank, Settled, PastTheErase, SecretsOutliveData, Replied,
        Intact, SuccessSoFar, Wiped, SuccessMeansWiped, Late, Before, After, dataVars, keyVars
<1>2. CASE MountData
  BY <1>0, <1>1, <1>2 DEF TypeOK, Calls, NoFormat, MountData, Alive
<1>3. CASE UnmountData
  BY <1>0, <1>1, <1>3 DEF TypeOK, Calls, NoFormat, UnmountData, Alive
<1>4. CASE \E u \in Users : OpenFile(u)
  BY <1>0, <1>1, <1>4 DEF TypeOK, Calls, NoFormat, OpenFile, Alive
<1>5. CASE \E u \in Users : CloseFile(u)
  BY <1>0, <1>1, <1>5 DEF TypeOK, Calls, NoFormat, CloseFile, Alive
<1>6. CASE ShellBinds
  BY <1>0, <1>1, <1>6 DEF TypeOK, Calls, NoFormat, ShellBinds, Alive
<1>7. CASE FsWrites
  BY <1>0, <1>1, <1>7, SameAlive DEF TypeOK, Calls, NoFormat, FsWrites
<1>8. CASE Begin
  <2>1. format'.pc = "list" /\ ~format'.success /\ format'.before = userdata.rest
    BY <1>1, <1>8 DEF TypeOK, Calls, Begin, NoFormat
  <2>2. Alive' => Alive
    BY <1>1, <1>8 DEF TypeOK, Calls, Begin, Alive
  <2> QED
    BY <1>0, <1>8, SameAlive, <2>1, <2>2 DEF Begin
<1>9. CASE ListMounts
  <2>1. format.pc = "list" /\ format'.pc \in {"umount", "idle"} /\ format'.before = format.before
    BY <1>1, <1>9 DEF TypeOK, Calls, ListMounts, GiveUp, NoFormat
  <2>2. format'.success => format.success
    BY <1>1, <1>9 DEF TypeOK, Calls, ListMounts, GiveUp, NoFormat
  <2>3. reply' # reply => format'.pc = "idle" /\ reply' = "failed"
    BY <1>1, <1>9 DEF TypeOK, Calls, ListMounts, GiveUp, NoFormat
  <2> QED
    BY <1>0, <1>9, SameAlive, <2>1, <2>2, <2>3 DEF ListMounts
<1>10. CASE \E p \in Points : Umount(p)
  BY <1>0, <1>1, <1>10 DEF TypeOK, Calls, NoFormat, Umount, StillInUse, GiveUp, Alive
<1>11. CASE Unmounted
  BY <1>0, <1>1, <1>11, SameAlive DEF TypeOK, Calls, NoFormat, Unmounted, Goto
<1>12. CASE \E n \in Names : RemoveMapping(n)
  BY <1>0, <1>1, <1>12, SameAlive DEF TypeOK, Calls, NoFormat, RemoveMapping, MappingInUse, GiveUp
<1>13. CASE MappingsRemoved
  BY <1>0, <1>1, <1>13, SameAlive DEF TypeOK, Calls, NoFormat, MappingsRemoved, Goto
<1>14. CASE SettleMerge
  BY <1>0, <1>1, <1>14, SameAlive DEF TypeOK, Calls, NoFormat, SettleMerge, MergeFails, Goto, GiveUp
<1>15. CASE UnmountMetadata
  BY <1>0, <1>1, <1>15, SameAlive DEF TypeOK, Calls, NoFormat, UnmountMetadata, Goto, GiveUp
<1>16. CASE SecureDiscard
  <2>1. /\ format.pc = "erase"
        /\ format'.pc \in {"zero", "discard", "idle"}
        /\ format'.before = format.before
    BY <1>1, <1>16 DEF TypeOK, Calls, SecureDiscard, Goto, GiveUp, NoFormat
  <2>2. format'.success => format.success
    BY <1>1, <1>16 DEF TypeOK, Calls, SecureDiscard, Goto, GiveUp, NoFormat
  <2>3. IF format'.pc = "zero" THEN userdata'.rest = "gone" ELSE userdata' = userdata
    BY <1>1, <1>16 DEF TypeOK, Calls, SecureDiscard, Goto, GiveUp, NoFormat, Erased
  <2>4. reply' = reply \/ (reply' = "failed" /\ format'.pc = "idle")
    BY <1>1, <1>16 DEF TypeOK, Calls, SecureDiscard, Goto, GiveUp, NoFormat
  <2> QED
    BY <1>0, <1>16, SameAlive, <2>1, <2>2, <2>3, <2>4 DEF SecureDiscard, Names
<1>17. CASE Discard
  <2>1. format.pc = "discard" /\ format'.pc \in {"zero", "idle"} /\ format'.before = format.before
    BY <1>1, <1>17 DEF TypeOK, Calls, Discard, Goto, GiveUp, NoFormat
  <2>2. format'.success => format.success
    BY <1>1, <1>17 DEF TypeOK, Calls, Discard, Goto, GiveUp, NoFormat
  <2>3. IF format'.pc = "zero" THEN userdata'.rest = "gone"
        ELSE userdata' = userdata \/ ("zero" \in Faults /\ userdata'.rest = "gone")
    BY <1>1, <1>17 DEF TypeOK, Calls, Discard, Goto, GiveUp, NoFormat, Erased
  <2>4. reply' = reply \/ (reply' = "failed" /\ format'.pc = "idle")
    BY <1>1, <1>17 DEF TypeOK, Calls, Discard, Goto, GiveUp, NoFormat
  <2> QED
    BY <1>0, <1>17, SameAlive, <2>1, <2>2, <2>3, <2>4 DEF Discard, Names
<1>18. CASE ZeroStart
  <2>1. /\ format.pc = "zero"
        /\ format'.pc \in {"readback", "metadata"}
        /\ format'.before = format.before
    BY <1>1, <1>18 DEF TypeOK, Calls, ZeroStart, Goto
  <2>2. format'.success => format.success
    BY <1>1, <1>18 DEF TypeOK, Calls, ZeroStart, Goto
  <2>3. userdata'.rest = userdata.rest /\ userdata'.start \in {userdata.start, "zeros"}
    BY <1>1, <1>18 DEF TypeOK, Calls, ZeroStart
  <2> QED
    BY <1>0, <1>18, SameAlive, <2>1, <2>2, <2>3 DEF ZeroStart, Names
<1>19. CASE ReadBack
  <2>1. format.pc = "readback" /\ format'.pc = "metadata" /\ format'.before = format.before
    BY <1>1, <1>19 DEF TypeOK, Calls, ReadBack, NotBlank, Goto
  <2>2. format'.success => format.success \/ userdata.start = "zeros"
    BY <1>1, <1>19 DEF TypeOK, Calls, ReadBack, NotBlank, Goto
  <2>3. reply' = reply
    BY <1>1, <1>19 DEF TypeOK, Calls, ReadBack, NotBlank
  <2> QED
    BY <1>0, <1>19, SameAlive, <2>1, <2>2, <2>3 DEF ReadBack
<1>20. CASE WipeMetadata
  <2>1. format.pc = "metadata" /\ format'.pc = "memtag" /\ format'.before = format.before
    BY <1>1, <1>20 DEF TypeOK, Calls, WipeMetadata, Removes, Step
  <2>2. format'.success => format.success /\ "metadata" \notin secrets'
    BY <1>1, <1>20 DEF TypeOK, Calls, WipeMetadata, Removes, Step
  <2>3. secrets' \subseteq secrets
    BY <1>1, <1>20 DEF TypeOK, Calls, WipeMetadata, Removes
  <2> QED
    BY <1>0, <1>20, SameAlive, <2>1, <2>2, <2>3 DEF WipeMetadata
<1>21. CASE ResetMemtag
  <2>1. format.pc = "memtag" /\ format'.pc = "weaver" /\ format'.before = format.before
    BY <1>1, <1>21 DEF TypeOK, Calls, ResetMemtag, Removes, Step
  <2>2. format'.success => format.success /\ "memtag" \notin flags'
    BY <1>1, <1>21 DEF TypeOK, Calls, ResetMemtag, Removes, Step
  <2>3. flags' \subseteq flags
    BY <1>1, <1>21 DEF TypeOK, Calls, ResetMemtag, Removes
  <2> QED
    BY <1>0, <1>21, SameAlive, <2>1, <2>2, <2>3 DEF ResetMemtag
<1>22. CASE StopWeaver
  BY <1>0, <1>1, <1>22, SameAlive DEF TypeOK, Calls, NoFormat, StopWeaver, Goto
<1>23. CASE WaitForWeaver
  BY <1>0, <1>1, <1>23, SameAlive DEF TypeOK, Calls, NoFormat, WaitForWeaver, Goto
<1>24. CASE EraseTitan
  <2>1. format.pc = "titan" /\ format'.pc \in {"titan", "trusty"} /\ format'.before = format.before
    BY <1>1, <1>24 DEF TypeOK, Calls, EraseTitan, AttemptFails, OutOfAttempts, Goto
  <2>2. format'.success => format.success /\ (format'.pc = "trusty" => "titan" \notin secrets')
    BY <1>1, <1>24 DEF TypeOK, Calls, EraseTitan, AttemptFails, OutOfAttempts, Goto
  <2>3. secrets' \subseteq secrets
    BY <1>1, <1>24 DEF TypeOK, Calls, EraseTitan
  <2> QED
    BY <1>0, <1>24, SameAlive, <2>1, <2>2, <2>3 DEF EraseTitan
<1>25. CASE WipeTrustyUserdata
  <2>1. format.pc = "trusty" /\ format'.pc = "misc" /\ format'.before = format.before
    BY <1>1, <1>25 DEF TypeOK, Calls, WipeTrustyUserdata, Removes, Step
  <2>2. format'.success => format.success /\ "trusty" \notin secrets'
    BY <1>1, <1>25 DEF TypeOK, Calls, WipeTrustyUserdata, Removes, Step
  <2>3. secrets' \subseteq secrets
    BY <1>1, <1>25 DEF TypeOK, Calls, WipeTrustyUserdata, Removes
  <2> QED
    BY <1>0, <1>25, SameAlive, <2>1, <2>2, <2>3 DEF WipeTrustyUserdata
<1>26. CASE ClearMiscFlags
  <2>1. format.pc = "misc" /\ format'.pc = "idle" /\ ~format'.success
    BY <1>1, <1>26 DEF TypeOK, Calls, ClearMiscFlags, NoFormat
  <2>2. /\ reply' # "failed"
        /\ (reply' = "erased" => format.success /\ flags' = flags \ {"theme", "display"})
    BY <1>1, <1>26 DEF TypeOK, Calls, ClearMiscFlags
  <2>3. secrets \subseteq Secrets /\ flags \subseteq Flags
    BY <1>1, <1>26 DEF TypeOK, Calls, TypeOK
  <2>4. ASSUME Encrypted, reply' = "erased"
        PROVE  SuccessMeansWiped'
    <3>1. SuccessSoFar /\ format.success
      BY <1>0, <2>2, <2>4
    <3>2. userdata' = [start |-> "zeros", rest |-> "gone"]
      BY <1>0, <1>1, <1>26, <2>1, <3>1 DEF ClearMiscFlags, TypeOK
    <3>3. secrets' = {} /\ flags' = {}
      BY <1>26, <2>1, <2>2, <2>3, <2>4, <3>1 DEF ClearMiscFlags, Secrets, Flags
    <3> QED
      BY <3>2, <3>3
  <2> QED
    BY <1>0, <1>26, SameAlive, <2>1, <2>2, <2>4 DEF ClearMiscFlags
<1>27. CASE InitReapsWeaver
  BY <1>0, <1>1, <1>27, SameAlive DEF TypeOK, Calls, NoFormat, InitReapsWeaver
<1>28. CASE Reboot
  BY <1>0, <1>1, <1>28 DEF TypeOK, Calls, NoFormat, Reboot, Alive
<1>29. CASE UNCHANGED vars
  BY <1>0, <1>1, <1>29, SameAlive DEF TypeOK, Calls, NoFormat, vars
<1> QED
  BY <1>1, <1>2, <1>3, <1>4, <1>5, <1>6, <1>7, <1>8, <1>9, <1>10, <1>11, <1>12, <1>13, <1>14,
     <1>15, <1>16, <1>17, <1>18, <1>19, <1>20, <1>21, <1>22, <1>23, <1>24, <1>25, <1>26, <1>27,
     <1>28, <1>29 DEF Next, FormatStep

-----------------------------------------------------------------------------
(***************************************************************************)
(* The strengthened invariant holds.                                       *)
(***************************************************************************)
THEOREM Invariance == Spec => []IInv
  BY Initially, Inductive, PTL DEF Spec

(***************************************************************************)
(* The keys go after the data: whatever fails and wherever power is cut,   *)
(* no data is left that can never be decrypted.                            *)
(***************************************************************************)
THEOREM SecretsGoLast == Spec => []SecretsOutliveData
<1>1. IInv => SecretsOutliveData
  BY DEF IInv
<1> QED
  BY Invariance, <1>1, PTL

(***************************************************************************)
(* Userdata is erased only once the merge of an update is settled.         *)
(***************************************************************************)
THEOREM MergeIsSettledFirst == Spec => []MergeSettledFirst
<1>1. IInv => MergeSettledFirst
  BY DEF IInv, Settled, MergeSettledFirst
<1> QED
  BY Invariance, <1>1, PTL

(***************************************************************************)
(* With encryption a reported success is a complete wipe, and stays one.   *)
(***************************************************************************)
THEOREM SuccessIsTrue ==
    ASSUME Encrypted
    PROVE  Spec => []SuccessMeansWiped
<1>1. IInv => SuccessMeansWiped
  BY DEF IInv, Wiped
<1> QED
  BY Invariance, <1>1, PTL

(***************************************************************************)
(* An early return has left the data alone, unless it was the write of     *)
(* zeros after a plain discard that failed.                                *)
(***************************************************************************)
THEOREM FailureIsHarmless ==
    ASSUME "zero" \notin Faults
    PROVE  Spec => []FailedMeansIntact
<1>1. IInv => FailedMeansIntact
  BY DEF IInv, Intact, FailedMeansIntact
<1> QED
  BY Invariance, <1>1, PTL

(***************************************************************************)
(* With encryption userdata is never erased under a live file system: the  *)
(* mappings it would hold are gone when the erase begins.                  *)
(***************************************************************************)
THEOREM NeverErasedAlive ==
    ASSUME Encrypted
    PROVE  Spec => ErasedOnlyIdle
<1>1. IInv /\ [Next]_vars => [userdata'.rest # userdata.rest => ~Alive]_vars
  <2> SUFFICES ASSUME IInv, Next, userdata'.rest # userdata.rest
               PROVE  ~Alive
    OBVIOUS
  <2>1. SecureDiscard \/ Discard
    BY DEF Next, FormatStep, MountData, UnmountData, Begin, OpenFile, CloseFile, ShellBinds,
           FsWrites, ListMounts, Umount, Unmounted, RemoveMapping, MappingsRemoved, SettleMerge,
           UnmountMetadata, ZeroStart, ReadBack, WipeMetadata, ResetMemtag, StopWeaver,
           WaitForWeaver, EraseTitan, WipeTrustyUserdata, ClearMiscFlags, InitReapsWeaver, Reboot,
           IInv, TypeOK
  <2>2. mappings = {}
    BY <2>1 DEF SecureDiscard, Discard, IInv, Unmapped, Late
  <2> QED
    BY <2>2 DEF IInv, Mapped, Names
<1> QED
  BY <1>1, Invariance, PTL DEF Spec, ErasedOnlyIdle

-----------------------------------------------------------------------------
\* A call is under way only if someone at the phone began it, and no command of the script begins one.
ByHand ==
    /\ script \subseteq {"wipe cache"}
    /\ format.pc # "idle" => byHand

-----------------------------------------------------------------------------
(***************************************************************************)
(* Steps of DataWipes are steps of FormatData or leave its state alone.    *)
(***************************************************************************)
LEMMA CommandsAreHarmless == \A m : CommandsOf(m) \subseteq {"wipe cache"}
  BY DEF CommandsOf

LEMMA NoMkfsOfData ==
    ASSUME NEW how, NEW path, Mkfs(how, path)
    PROVE  /\ path # "/data" /\ formatted' = formatted \cup {path}
           /\ UNCHANGED <<vars, message, started, script, byHand>>
  BY DEF Mkfs, Refused

LEMMA StepAllowed == [NextWipes]_allVars => [Next]_vars
<1> SUFFICES ASSUME NextWipes
             PROVE  Next \/ UNCHANGED vars
  BY DEF allVars
<1>1. CASE Inside /\ UNCHANGED wipes
  BY <1>1 DEF Inside, Next
<1>2. CASE ReadMessage
  BY <1>2 DEF ReadMessage
<1>3. CASE \E c \in script : RunScript(c)
  BY <1>3 DEF RunScript, Next
<1>4. CASE Ask
  BY <1>4 DEF Ask, Next
<1>5. CASE InstallUpdate
  BY <1>5 DEF InstallUpdate
<1>6. CASE RebootWithMessage
  BY <1>6 DEF RebootWithMessage, Next
<1>7. CASE \E how \in {"Wipe_Encryption", "Wipe_EXT4", "Wipe_F2FS"}, path \in Others \cup {"/data"} :
              Mkfs(how, path)
  BY <1>7, NoMkfsOfData
<1> QED
  BY <1>1, <1>2, <1>3, <1>4, <1>5, <1>6, <1>7 DEF NextWipes

(***************************************************************************)
(* What surrounds Format Data changes its state in no way but those of     *)
(* FormatData, so that each theorem of FormatDataProofs holds here.        *)
(***************************************************************************)
THEOREM WipesAreFormatData == SpecWipes => Spec
<1>1. InitWipes => Init
  BY DEF InitWipes
<1> QED
  BY <1>1, StepAllowed, PTL DEF SpecWipes, Spec

-----------------------------------------------------------------------------
(***************************************************************************)
(* Each step of Format Data goes on with a call that was begun, or ends    *)
(* it; only Begin starts one.                                              *)
(***************************************************************************)
LEMMA OnlyBeginBegins ==
    ASSUME TypeOK, Inside
    PROVE  /\ format'.pc # "idle" => format.pc # "idle"
           /\ userdata'.rest # userdata.rest => format.pc \in {"erase", "discard"}
<1>1. CASE MountData \/ UnmountData \/ ShellBinds \/ FsWrites \/ InitReapsWeaver
           \/ \E u \in Users : OpenFile(u) \/ CloseFile(u)
  BY <1>1 DEF TypeOK, MountData, UnmountData, ShellBinds, FsWrites, InitReapsWeaver, OpenFile, CloseFile
<1>2. CASE FormatStep
  <2>1. format.pc # "idle"
    BY <1>2 DEF FormatStep, ListMounts, Umount, Unmounted, RemoveMapping, MappingsRemoved, SettleMerge,
                UnmountMetadata, SecureDiscard, Discard, ZeroStart, ReadBack, WipeMetadata, ResetMemtag,
                StopWeaver, WaitForWeaver, EraseTitan, WipeTrustyUserdata, ClearMiscFlags, Removes
  <2>2. userdata'.rest # userdata.rest => SecureDiscard \/ Discard
    BY <1>2 DEF FormatStep, ListMounts, Umount, Unmounted, RemoveMapping, MappingsRemoved, SettleMerge,
                UnmountMetadata, ZeroStart, ReadBack, WipeMetadata, ResetMemtag, StopWeaver,
                WaitForWeaver, EraseTitan, WipeTrustyUserdata, ClearMiscFlags, TypeOK
  <2> QED
    BY <2>1, <2>2 DEF SecureDiscard, Discard
<1> QED
  BY <1>1, <1>2 DEF Inside

LEMMA InitByHand == InitWipes => WipesTypeOK /\ ByHand
<1> SUFFICES ASSUME InitWipes
             PROVE  WipesTypeOK /\ ByHand
  OBVIOUS
<1>1. TypeOK /\ format.pc = "idle"
  BY InitType DEF InitWipes, Init, NoFormat
<1> QED
  BY <1>1 DEF InitWipes, WipesTypeOK, ByHand

LEMMA NextByHand == WipesTypeOK /\ ByHand /\ [NextWipes]_allVars => WipesTypeOK' /\ ByHand'
<1> SUFFICES ASSUME WipesTypeOK, ByHand, [NextWipes]_allVars
             PROVE  WipesTypeOK' /\ ByHand'
  OBVIOUS
<1>1. TypeOK /\ TypeOK'
  BY StepAllowed, NextType DEF WipesTypeOK
<1>2. CASE Inside /\ UNCHANGED wipes
  BY <1>1, <1>2, OnlyBeginBegins DEF wipes, WipesTypeOK, ByHand
<1>3. CASE ReadMessage
  <2>1. format' = format /\ script' = script \cup CommandsOf(message)
    BY <1>3 DEF ReadMessage, vars
  <2> QED
    BY <1>1, <1>3, <2>1, CommandsAreHarmless DEF ReadMessage, WipesTypeOK, ByHand
<1>4. CASE \E c \in script : RunScript(c)
  <2>1. PICK c \in script : RunScript(c)
    BY <1>4
  <2>2. c = "wipe cache"
    BY DEF ByHand
  <2> QED
    BY <1>1, <2>1, <2>2 DEF RunScript, vars, WipesTypeOK, ByHand
<1>5. CASE Ask
  BY <1>1, <1>5 DEF Ask, WipesTypeOK, ByHand
<1>6. CASE InstallUpdate
  BY <1>1, <1>6 DEF InstallUpdate, Powerwashed, vars, WipesTypeOK, ByHand
<1>7. CASE RebootWithMessage
  BY <1>1, <1>7 DEF RebootWithMessage, Reboot, NoFormat, WipesTypeOK, ByHand
<1>8. CASE \E how \in {"Wipe_Encryption", "Wipe_EXT4", "Wipe_F2FS"}, path \in Others \cup {"/data"} :
              Mkfs(how, path)
  <2>1. PICK how \in {"Wipe_Encryption", "Wipe_EXT4", "Wipe_F2FS"}, path \in Others \cup {"/data"} : Mkfs(how, path)
    BY <1>8
  <2>2. /\ path \in Others /\ formatted' = formatted \cup {path} /\ format' = format
        /\ UNCHANGED <<message, started, script, byHand>>
    BY <2>1, NoMkfsOfData DEF vars
  <2> QED
    BY <1>1, <2>2 DEF WipesTypeOK, ByHand
<1>9. CASE UNCHANGED allVars
  BY <1>1, <1>9 DEF allVars, wipes, vars, WipesTypeOK, ByHand
<1> QED
  BY <1>2, <1>3, <1>4, <1>5, <1>6, <1>7, <1>8, <1>9 DEF NextWipes

(***************************************************************************)
(* Type correctness, with the boot message, the script and all the ways    *)
(* into a mkfs.                                                            *)
(***************************************************************************)
THEOREM WipesTypeCorrect == SpecWipes => []WipesTypeOK
  BY InitByHand, NextByHand, PTL DEF SpecWipes

(***************************************************************************)
(* Whatever Android asks for, an update wants or a page of TWRP tries, the *)
(* data goes only in a Format Data that someone at the phone began.        *)
(***************************************************************************)
THEOREM WipedOnlyWhenAsked == SpecWipes => OnlyAskedFor
<1>1. WipesTypeOK /\ ByHand /\ [NextWipes]_allVars
        => [userdata'.rest # userdata.rest => byHand /\ format.pc \in {"erase", "discard"}]_allVars
  <2> SUFFICES ASSUME WipesTypeOK, ByHand, NextWipes, userdata'.rest # userdata.rest
               PROVE  byHand /\ format.pc \in {"erase", "discard"}
    OBVIOUS
  <2>1. Inside
    BY NoMkfsOfData DEF NextWipes, ReadMessage, RunScript, Ask, InstallUpdate, RebootWithMessage,
                        Begin, Reboot, vars
  <2> QED
    BY <2>1, OnlyBeginBegins DEF WipesTypeOK, ByHand
<1> QED
  BY <1>1, InitByHand, NextByHand, PTL DEF SpecWipes, OnlyAskedFor

=============================================================================
