--------------------------- MODULE ServicesProofs ---------------------------
(***************************************************************************)
(* Proofs about early init, for every set of files, and about the attempt  *)
(* of a user to open his data, for every phone, set of services, number of *)
(* looks and number of mistakes.                                           *)
(***************************************************************************)
EXTENDS Services, TLAPS

-----------------------------------------------------------------------------
(***************************************************************************)
(* The inductive invariant of early init.                                  *)
(***************************************************************************)
\* init has no child once it reads its scripts, and leaves no stage before its
\* child is gone.
StageInv ==
    /\ stage = "services" => child = "none"
    /\ stage = "snapshot" => /\ status["snapshot"] = "none"
                             /\ file = Image /\ tmp = NoTmp /\ bare = {}
    /\ stage # "services" => status["lgz"] = "none"

\* A copy is the image's form of the file; a child that ended well has them all.
CopyInv ==
    /\ \A f \in Files : copy[f] \in {"none", Image[f]}
    /\ stage = "snapshot" /\ child = "ended" => \A f \in Files : copy[f] # "none"
    /\ SnapshotIsTheImage

\* Only a full file system cuts what waits to be renamed; it waits for a file of the ramdisk.
CutInv ==
    /\ tmp = NoTmp \/ (tmp.of \in Files /\ tmp.form \in {"plain", "cut"})
    /\ tmp.form = "cut" => full
    /\ (\E f \in Files : file[f] = "cut") => full

\* lgz is at one file at a time, and leaves none without its permissions when it ends well.
BareInv ==
    /\ \A f \in bare : bare = {f}
    /\ tmp # NoTmp => bare = {}
    /\ bare # {} => child # "ended" /\ status["lgz"] # "ok"

EarlyInv == EarlyTypeOK /\ StageInv /\ CopyInv /\ CutInv /\ BareInv

LEMMA ImageForms == Image \in [Files -> {"packed", "plain"}]
  BY DEF Image

LEMMA Stages == After("start") = "snapshot" /\ After("snapshot") = "lgz" /\ After("lgz") = "services"
  BY DEF After

LEMMA InitEarlyInv == InitEarly => EarlyInv
<1> SUFFICES ASSUME InitEarly PROVE EarlyInv
  OBVIOUS
<1>1. EarlyTypeOK
  BY ImageForms, Stages DEF InitEarly, EarlyTypeOK, NoTmp
<1>2. StageInv /\ CutInv /\ BareInv
  BY ImageForms, Stages DEF InitEarly, StageInv, CutInv, BareInv, NoTmp
<1>3. CopyInv
  BY DEF InitEarly, CopyInv, SnapshotIsTheImage
<1> QED
  BY <1>1, <1>2, <1>3 DEF EarlyInv

\* A stage is left for the next, and its result is noted.
LEMMA LeaveStep ==
    ASSUME EarlyTypeOK, stage # "services", NEW result \in {"none", "ok", "failed"}, Leave(result),
           UNCHANGED <<file, copy, tmp, bare, full>>
    PROVE  /\ EarlyTypeOK' /\ child' = "none"
           /\ status'[stage] = result
           /\ stage = "snapshot" => stage' = "lgz" /\ status'["lgz"] = status["lgz"]
           /\ stage = "lgz" => stage' = "services" /\ status'["snapshot"] = status["snapshot"]
  BY Stages DEF EarlyTypeOK, Leave

LEMMA LeaveKeeps ==
    ASSUME EarlyInv, stage # "services", NEW result \in {"none", "ok", "failed"}, Leave(result),
           UNCHANGED <<file, copy, tmp, bare, full>>,
           result = "ok" => child = "ended"
    PROVE  EarlyInv'
<1>1. EarlyTypeOK' /\ StageInv'
  BY LeaveStep DEF EarlyInv, StageInv, EarlyTypeOK
<1>2. CutInv' /\ BareInv'
  <2>1. CutInv'
    BY DEF EarlyInv, CutInv
  <2>2. BareInv'
    BY LeaveStep DEF EarlyInv, EarlyTypeOK, BareInv
  <2> QED
    BY <2>1, <2>2
<1>3. CopyInv'
  <2>1. ASSUME stage = "snapshot", result = "ok" PROVE copy = Image
    <3>1. \A f \in Files : copy[f] = Image[f]
      BY <2>1 DEF EarlyInv, CopyInv
    <3> QED
      BY <3>1, ImageForms DEF EarlyInv, EarlyTypeOK
  <2> QED
    BY <2>1, LeaveStep, ImageForms DEF EarlyInv, CopyInv, SnapshotIsTheImage, EarlyTypeOK, Image
<1> QED
  BY <1>1, <1>2, <1>3 DEF EarlyInv

LEMMA NextEarlyInv == EarlyInv /\ [NextEarly]_initvars => EarlyInv'
<1> SUFFICES ASSUME EarlyInv, [NextEarly]_initvars PROVE EarlyInv'
  OBVIOUS
<1>1. CASE UNCHANGED initvars
  BY <1>1 DEF initvars, EarlyInv, EarlyTypeOK, StageInv, CopyInv, CutInv, BareInv, SnapshotIsTheImage
<1>2. CASE Fork
  <2>1. CASE Leave("none") \/ Leave("failed")
    BY <1>2, <2>1, LeaveKeeps DEF Fork
  <2>2. CASE child' = "running" /\ todo' = Manifest(stage) /\ UNCHANGED <<stage, status>>
    <3>1. Manifest(stage) \subseteq Files
      BY EarlyInitAssumption DEF Manifest
    <3> QED
      BY <1>2, <2>2, <3>1 DEF Fork, EarlyInv, EarlyTypeOK, StageInv, CopyInv, CutInv,
                              BareInv, SnapshotIsTheImage
  <2> QED
    BY <1>2, <2>1, <2>2 DEF Fork
<1>3. CASE WaitPid
  <2>1. stage # "services"
    BY <1>3 DEF WaitPid, EarlyInv, StageInv
  <2> QED
    BY <1>3, <2>1, LeaveKeeps DEF WaitPid
<1>4. CASE Rename
  <2>1. /\ stage # "snapshot" /\ UNCHANGED <<stage, child, todo, copy, status, full>>
        /\ child = "running"
    BY <1>4 DEF Rename, EarlyInv, StageInv
  <2>2. /\ \/ file' = [file EXCEPT ![tmp.of] = tmp.form] /\ bare' = {tmp.of}
           \/ file' = file /\ bare' = bare
        /\ tmp' = NoTmp
    BY <1>4 DEF Rename
  <2>3. tmp.of \in Files /\ tmp.form \in {"plain", "cut"} /\ (tmp.form = "cut" => full)
    BY <1>4 DEF Rename, EarlyInv, CutInv
  <2>4. NoTmp \in [of : Files \cup {"none"}, form : {"none", "plain", "cut"}] /\ NoTmp.form = "none"
    BY DEF NoTmp
  <2>5. EarlyTypeOK'
    BY <2>1, <2>2, <2>3, <2>4 DEF EarlyInv, EarlyTypeOK
  <2>6. CutInv'
    BY <2>1, <2>2, <2>3, <2>4 DEF EarlyInv, EarlyTypeOK, CutInv
  <2>7. StageInv' /\ CopyInv'
    BY <2>1 DEF EarlyInv, StageInv, CopyInv, SnapshotIsTheImage
  <2>8. BareInv'
    <3>1. status["lgz"] # "ok"
      BY <1>4, <2>1 DEF Rename, EarlyInv, StageInv
    <3> QED
      BY <2>1, <2>2, <3>1 DEF EarlyInv, BareInv
  <2> QED
    BY <2>5, <2>6, <2>7, <2>8 DEF EarlyInv
<1>5. CASE Chmod
  BY <1>5 DEF Chmod, EarlyInv, EarlyTypeOK, StageInv, CopyInv, CutInv, BareInv, SnapshotIsTheImage
<1>6. CASE Exit
  BY <1>6 DEF Exit, EarlyInv, EarlyTypeOK, StageInv, CopyInv, CutInv, BareInv, SnapshotIsTheImage
<1>7. CASE Die
  BY <1>7 DEF Die, EarlyInv, EarlyTypeOK, StageInv, CopyInv, CutInv, BareInv, SnapshotIsTheImage
<1>8. ASSUME NEW f \in Files, CopyFile(f) PROVE EarlyInv'
  <2>1. file = Image /\ status["snapshot"] = "none" /\ stage = "snapshot"
    BY <1>8 DEF CopyFile, EarlyInv, StageInv
  <2>2. copy' \in [Files -> {"none", "packed", "plain"}]
    BY <1>8, <2>1, ImageForms DEF CopyFile, EarlyInv, EarlyTypeOK
  <2>3. \A g \in Files : copy'[g] \in {"none", Image[g]}
    BY <1>8, <2>1 DEF CopyFile, EarlyInv, CopyInv, EarlyTypeOK
  <2> QED
    BY <1>8, <2>1, <2>2, <2>3 DEF CopyFile, EarlyInv, EarlyTypeOK, StageInv, CopyInv, CutInv,
                                  BareInv, SnapshotIsTheImage
<1>9. ASSUME NEW f \in Files, Decompress(f) PROVE EarlyInv'
  <2>1. stage = "lgz" /\ todo' \subseteq todo /\ bare = {} /\ UNCHANGED <<stage, child, file, copy, bare, status>>
    BY <1>9 DEF Decompress
  <2>2. \/ tmp' = [of |-> f, form |-> "plain"] /\ full' = full
        \/ tmp' = [of |-> f, form |-> "cut"] /\ full' = TRUE
        \/ tmp' = tmp /\ full' = full
    BY <1>9 DEF Decompress
  <2>3. EarlyTypeOK'
    <3>1. tmp' \in [of : Files \cup {"none"}, form : {"none", "plain", "cut"}]
      BY <2>2, <1>9 DEF EarlyInv, EarlyTypeOK
    <3>2. full' \in BOOLEAN
      BY <2>2 DEF EarlyInv, EarlyTypeOK
    <3> QED
      BY <2>1, <3>1, <3>2 DEF EarlyInv, EarlyTypeOK
  <2>4. CutInv' /\ BareInv'
    BY <2>1, <2>2 DEF EarlyInv, CutInv, BareInv
  <2>5. StageInv' /\ CopyInv'
    BY <2>1 DEF EarlyInv, StageInv, CopyInv, SnapshotIsTheImage
  <2> QED
    BY <2>3, <2>4, <2>5 DEF EarlyInv
<1> QED
  BY <1>1, <1>2, <1>3, <1>4, <1>5, <1>6, <1>7, <1>8, <1>9 DEF NextEarly

-----------------------------------------------------------------------------
(***************************************************************************)
(* The attempt to open the data.                                           *)
(***************************************************************************)
\* The phones there are: Android writes a .weaver file of 5 or of 8 bytes and spblobs of
\* versions 1 to 4, and the chip says that its keys have 16 bytes, or 0.
KnownPhones == \A p \in Phones : p.size \in {5, 8} /\ p.keySize \in {0, 16} /\ p.blob \in 1..4

Inv ==
    /\ TypeOK
    /\ EarlyInv
    /\ KnownPhones => RightKeyOpens

\* The slot is read where Android has written it.
LEMMA SlotIsRight == ASSUME phone.size \in {5, 8} PROVE Slot = AndroidSlot
<1>1. CASE phone.size = 5
  <2>1. phone.size # 8
    BY <1>1
  <2> QED
    BY <1>1, <2>1, Zenon DEF Slot, AndroidSlot
<1>2. CASE phone.size = 8
  <2>1. phone.size # 5
    BY <1>2
  <2> QED
    BY <1>2, <2>1, Zenon DEF Slot, AndroidSlot
<1> QED
  BY <1>1, <1>2

\* The key is as long as the chip wants it.
LEMMA KeyIsWhole == ASSUME phone.keySize \in {0, 16} PROVE KeySize = 16
  BY DEF KeySize

\* The last key is made as Android has made it.
LEMMA SecretIsRight == ASSUME phone.blob \in 1..4 PROVE Secret = AndroidSecret
  BY DEF Secret, AndroidSecret

\* A KeyMint that is registered, in either way, is reached.
LEMMA KeyMintIsReached ==
    /\ Connect \in {"none", "raw", "emulated"}
    /\ Connect = "none" => {"keymint", "compat"} \cap up = {}
  BY DEF Connect, Wrap

\* What the attempt starts with, and how it ends.
LEMMA BeginStep ==
    ASSUME TypeOK, NEW key \in {"right", "wrong"}, Begin(key)
    PROVE  vold' \in Attempts /\ vold'.at = "weaver" /\ excuse' = {}
<1>1. vold' = [at |-> "weaver", looks |-> 0, key |-> key, device |-> "none", result |-> "none"]
  BY DEF Begin, NoAttempt
<1>2. 0 \in 0..Tries - 1
  BY ServicesAssumption
<1> QED
  BY <1>1, <1>2 DEF Begin, Attempts

LEMMA EndStep ==
    ASSUME vold \in Attempts, NEW result \in {"opened", "refused"}, EndAttempt(result)
    PROVE  vold' \in Attempts /\ vold'.at = "idle" /\ vold'.key = vold.key /\ vold'.result = result
<1>1. 0 \in 0..Tries - 1
  BY ServicesAssumption
<1> QED
  BY <1>1 DEF EndAttempt, Attempts

LEMMA LookStep ==
    ASSUME TypeOK, LookForWeaver
    PROVE  /\ vold' \in Attempts /\ excuse' \subseteq excuse \cup {"no weaver"}
           /\ \/ vold'.at \in {"verify", "weaver"}
              \/ "no weaver" \in excuse'
<1>1. vold \in Attempts /\ vold.looks \in 0..Tries - 1 /\ Tries \in Nat
  BY ServicesAssumption DEF TypeOK, Attempts
<1>2. CASE "weaver" \in up
  BY <1>1, <1>2 DEF LookForWeaver, Attempts
<1>3. CASE "weaver" \notin up /\ ~GivesUp(vold.looks, Tries)
  <2>1. vold.looks + 1 \in 0..Tries - 1
    BY <1>1, <1>3 DEF GivesUp
  <2>2. vold.at = "weaver" /\ vold' = [vold EXCEPT !.looks = @ + 1] /\ excuse' = excuse
    BY <1>3 DEF LookForWeaver
  <2> QED
    BY <1>1, <2>1, <2>2 DEF Attempts
<1>4. CASE "weaver" \notin up /\ GivesUp(vold.looks, Tries)
  <2>1. vold.looks + 1 = Tries
    BY <1>1, <1>4 DEF GivesUp
  <2>2. EndAttempt("refused") /\ excuse' = excuse \cup {"no weaver"}
    BY <1>4, <2>1 DEF LookForWeaver
  <2> QED
    BY <1>1, <2>2, EndStep
<1> QED
  BY <1>2, <1>3, <1>4

LEMMA VerifyStep ==
    ASSUME TypeOK, Verify
    PROVE  /\ vold' \in Attempts /\ chip' \in 0..Mistakes
           /\ excuse' \subseteq excuse \cup {"chip", "throttled"}
           /\ KnownPhones => \/ vold'.at = "keystore" \/ vold'.key = "wrong" \/ vold'.key = "none"
                             \/ excuse' # {}
<1>1. vold \in Attempts /\ chip \in 0..Mistakes /\ Mistakes \in Nat
      /\ vold.key \in {"none", "right", "wrong"}
  BY ServicesAssumption DEF TypeOK, Attempts
<1>2. KnownPhones => KeySize = 16 /\ Slot = AndroidSlot
  BY SlotIsRight, KeyIsWhole DEF TypeOK, KnownPhones
<1>3. CASE EndAttempt("refused") /\ excuse' = excuse \cup {"chip"} /\ UNCHANGED chip
  BY <1>1, <1>3, EndStep
<1>4. CASE KeySize # 16 /\ EndAttempt("refused") /\ UNCHANGED <<excuse, chip>>
  BY <1>1, <1>2, <1>4, EndStep
<1>5. CASE /\ KeySize = 16 /\ chip = Mistakes
           /\ EndAttempt("refused") /\ excuse' = excuse \cup {"throttled"} /\ UNCHANGED chip
  BY <1>1, <1>5, EndStep
<1>6. CASE /\ KeySize = 16 /\ chip < Mistakes
           /\ vold.key = "right" /\ Slot = AndroidSlot
           /\ chip' = 0 /\ vold' = [vold EXCEPT !.at = "keystore"] /\ UNCHANGED excuse
  <2>1. chip' \in 0..Mistakes
    BY <1>1, <1>6
  <2>2. vold' \in Attempts /\ vold'.at = "keystore"
    BY <1>1, <1>6 DEF Attempts
  <2> QED
    BY <1>6, <2>1, <2>2
<1>7. CASE /\ KeySize = 16 /\ chip < Mistakes
           /\ ~(vold.key = "right" /\ Slot = AndroidSlot)
           /\ chip' = chip + 1 /\ EndAttempt("refused") /\ UNCHANGED excuse
  <2>1. chip' \in 0..Mistakes
    BY <1>1, <1>7
  <2>2. vold' \in Attempts /\ vold'.key = vold.key
    BY <1>1, <1>7, EndStep
  <2> QED
    BY <1>1, <1>2, <1>7, <2>1, <2>2
<1> QED
  BY <1>3, <1>4, <1>5, <1>6, <1>7, Zenon DEF Verify

LEMMA ConnectStep ==
    ASSUME TypeOK, ConnectKeyMint
    PROVE  /\ vold' \in Attempts /\ excuse' \subseteq excuse \cup {"no keymint", "keymint died"}
           /\ vold'.at = "derive" \/ excuse' # {}
<1>1. vold \in Attempts
  BY DEF TypeOK
<1>2. CASE /\ Connect # "none"
           /\ vold' = [vold EXCEPT !.at = "derive", !.device = Connect] /\ UNCHANGED excuse
  <2>1. Connect \in {"raw", "emulated"}
    BY <1>2, KeyMintIsReached
  <2> QED
    BY <1>1, <1>2, <2>1 DEF Attempts
<1>3. CASE /\ Connect = "none" /\ EndAttempt("refused")
           /\ excuse' = excuse \cup
                (IF {"keymint", "compat"} \cap up = {} THEN {"no keymint"} ELSE {})
  BY <1>1, <1>3, KeyMintIsReached, EndStep
<1>4. CASE EndAttempt("refused") /\ excuse' = excuse \cup {"keymint died"}
  BY <1>1, <1>4, EndStep
<1> QED
  BY <1>2, <1>3, <1>4, Zenon DEF ConnectKeyMint

LEMMA DeriveStep ==
    ASSUME TypeOK, Derive
    PROVE  /\ vold' \in Attempts
           /\ KnownPhones => vold'.result = "opened"
<1>1. vold \in Attempts
  BY DEF TypeOK
<1>2. KnownPhones => Secret = AndroidSecret
  BY SecretIsRight DEF TypeOK, KnownPhones
<1> QED
  BY <1>1, <1>2, EndStep DEF Derive

LEMMA VoldStepKeeps ==
    ASSUME Inv, VoldStep
    PROVE  /\ vold' \in Attempts /\ chip' \in 0..Mistakes
           /\ excuse' \subseteq {"no weaver", "chip", "throttled", "no keymint", "keymint died"}
           /\ UNCHANGED <<initvars, phone, gsc, weaver, up>>
           /\ KnownPhones => RightKeyOpens'
<1>0. TypeOK /\ vold \in Attempts /\ chip \in 0..Mistakes
      /\ excuse \subseteq {"no weaver", "chip", "throttled", "no keymint", "keymint died"}
  BY DEF Inv, TypeOK
<1>1. CASE LookForWeaver
  <2>1. UNCHANGED <<initvars, phone, gsc, weaver, up, chip>>
    BY <1>1, Zenon DEF LookForWeaver
  <2> QED
    BY <1>0, <1>1, <2>1, LookStep DEF RightKeyOpens
<1>2. CASE Verify
  <2>1. UNCHANGED <<initvars, phone, gsc, weaver, up>>
    BY <1>2, Zenon DEF Verify
  <2> QED
    BY <1>0, <1>2, <2>1, VerifyStep DEF RightKeyOpens
<1>3. CASE ConnectKeyMint
  <2>1. UNCHANGED <<initvars, phone, gsc, weaver, up, chip>>
    BY <1>3, Zenon DEF ConnectKeyMint
  <2> QED
    BY <1>0, <1>3, <2>1, ConnectStep DEF RightKeyOpens
<1>4. CASE Derive
  <2>1. UNCHANGED <<initvars, phone, gsc, weaver, up, chip, excuse>>
    BY <1>4, Zenon DEF Derive
  <2> QED
    BY <1>0, <1>4, <2>1, DeriveStep DEF RightKeyOpens
<1> QED
  BY <1>1, <1>2, <1>3, <1>4 DEF VoldStep

-----------------------------------------------------------------------------
(***************************************************************************)
(* All of it together.                                                     *)
(***************************************************************************)
LEMMA InitInv == Init => Inv
<1> SUFFICES ASSUME Init PROVE Inv
  OBVIOUS
<1>1. EarlyInv
  BY InitEarlyInv DEF Init
<1>2. vold = NoAttempt /\ NoAttempt \in Attempts
  <2>1. 0 \in 0..Tries - 1
    BY ServicesAssumption
  <2> QED
    BY <2>1 DEF Init, NoAttempt, Attempts
<1>3. TypeOK
  <2>1. chip \in 0..Mistakes
    BY ServicesAssumption DEF Init
  <2> QED
    BY <1>1, <1>2, <2>1 DEF Init, TypeOK, EarlyInv
<1>4. RightKeyOpens
  BY DEF Init, RightKeyOpens, NoAttempt
<1> QED
  BY <1>1, <1>3, <1>4 DEF Inv

LEMMA NextInv == Inv /\ [Next]_vars => Inv'
<1> SUFFICES ASSUME Inv, [Next]_vars PROVE Inv'
  OBVIOUS
<1>t. TypeOK /\ EarlyInv
  BY DEF Inv
<1>1. CASE InitStep
  <2>1. EarlyInv' /\ EarlyTypeOK' /\ UNCHANGED svcvars
    BY <1>1, <1>t, NextEarlyInv DEF InitStep, EarlyInv
  <2> QED
    BY <2>1 DEF Inv, svcvars, TypeOK, RightKeyOpens
<1>2. ASSUME UNCHANGED initvars PROVE EarlyInv' /\ EarlyTypeOK'
  BY <1>2, <1>t, NextEarlyInv DEF EarlyInv
<1>3. CASE UNCHANGED vars
  BY <1>2, <1>3 DEF vars, svcvars, Inv, TypeOK, RightKeyOpens
<1>4. CASE VoldStep
  <2>1. /\ vold' \in Attempts /\ chip' \in 0..Mistakes
        /\ excuse' \subseteq {"no weaver", "chip", "throttled", "no keymint", "keymint died"}
        /\ UNCHANGED <<initvars, phone, gsc, weaver, up>>
        /\ KnownPhones => RightKeyOpens'
    BY <1>4, VoldStepKeeps
  <2> QED
    BY <1>2, <1>t, <2>1 DEF Inv, TypeOK
<1>5. CASE \E key \in {"right", "wrong"} : Begin(key)
  <2>1. vold' \in Attempts /\ vold'.at = "weaver" /\ excuse' = {}
    BY <1>5, <1>t, BeginStep
  <2>2. UNCHANGED <<initvars, phone, gsc, weaver, up, chip>>
    BY <1>5 DEF Begin
  <2> QED
    BY <1>2, <2>1, <2>2 DEF Inv, TypeOK, RightKeyOpens
<1>6. CASE GscAppears
  BY <1>2, <1>6 DEF GscAppears, Inv, TypeOK, RightKeyOpens
<1>7. CASE StartWeaver
  BY <1>2, <1>7 DEF StartWeaver, Inv, TypeOK, RightKeyOpens
<1>8. CASE Forgive
  <2>1. chip' \in 0..Mistakes
    BY <1>8, ServicesAssumption DEF Forgive
  <2> QED
    BY <1>2, <1>8, <2>1 DEF Forgive, Inv, TypeOK, RightKeyOpens
<1>9. ASSUME NEW s \in HALs, Register(s) PROVE Inv'
  <2>1. up' \subseteq HALs
    BY <1>9 DEF Register, Inv, TypeOK
  <2>2. UNCHANGED <<initvars, phone, gsc, weaver, chip, vold, excuse>>
    BY <1>9 DEF Register
  <2> QED
    BY <1>2, <2>1, <2>2 DEF Inv, TypeOK, RightKeyOpens
<1> QED
  BY <1>1, <1>3, <1>4, <1>5, <1>6, <1>7, <1>8, <1>9 DEF Next

\* The invariants of early init and of the attempt hold together; no fairness is needed.
THEOREM Invariance == Spec => []Inv
  BY InitInv, NextInv, PTL DEF Spec

-----------------------------------------------------------------------------
(***************************************************************************)
(* What early init and the services promise.                               *)
(***************************************************************************)
\* Every variable keeps its type, whichever child fails and whichever service comes.
THEOREM TypeCorrect == Spec => []TypeOK
<1>1. Inv => TypeOK
  BY DEF Inv
<1> QED
  BY <1>1, Invariance, PTL

\* For every list of packed files: a snapshot that init takes for good has every file in the form
\* in which the image has it, although the next stage writes over the same files.
THEOREM SnapshotStaysTheImage == Spec => []SnapshotIsTheImage
<1>1. Inv => SnapshotIsTheImage
  BY DEF Inv, EarlyInv, CopyInv
<1> QED
  BY <1>1, Invariance, PTL

\* Wherever lgz dies, no program is half unpacked, unless the file system was full, and at most one
\* was put in its place and cannot be executed, which init takes for a failure.
THEOREM FilesAreWhole == Spec => []PackedOrWhole
<1>1. Inv => PackedOrWhole
  BY DEF Inv, EarlyInv, CutInv, BareInv, PackedOrWhole
<1> QED
  BY <1>1, Invariance, PTL

\* On every phone there is, with any number of looks and of mistakes: the right key is refused only
\* for want of a Weaver that came in time, of a chip that answers, or of a KeyMint.
THEOREM RightKeyDoesOpen == ASSUME KnownPhones PROVE Spec => []RightKeyOpens
<1>1. Inv => RightKeyOpens
  BY DEF Inv
<1> QED
  BY <1>1, Invariance, PTL

=============================================================================
