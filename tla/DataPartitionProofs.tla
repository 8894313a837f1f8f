------------------------ MODULE DataPartitionProofs ------------------------
(***************************************************************************)
(* Proofs about /data, for every set of users and passwords, every fstab   *)
(* and all faults.                                                         *)
(***************************************************************************)
EXTENDS DataPartition, TLAPS

-----------------------------------------------------------------------------
(***************************************************************************)
(* The inductive invariant.                                                *)
(***************************************************************************)
\* Where the recovery and its child are.
CallInv ==
    /\ call.pc = "wait" <=> child.pc # "none"
    /\ child.pc = "none" => child.mapped = {}
    /\ child.pc = "mounted" => super.mounted
    /\ call.pc = "wait" => ~part.decrypted
    /\ call.pc \in {"started", "de", "mount", "rekey", "auto", "user"} => part.decrypted
    /\ call.pc \in {"started", "de", "rekey", "auto", "user"} => super.mounted
    /\ call.pc = "rekey" => manager.rekey

\* What the child has mapped is in the kernel, all of it where it has mounted.
DevicesInv ==
    /\ child.mapped \subseteq dm
    /\ child.pc = "mounted" => child.mapped = Members
    /\ DecryptedMeansMapped

\* Nothing is known of keys before /data is decrypted, and a need to install
\* them again is known as soon as it is unmounted.
KeysInv ==
    /\ KeysAreReal
    /\ ~part.decrypted => manager.decrypted = {} /\ vold.ce = {} /\ ~vold.de
    /\ part.decrypted /\ ~super.mounted => manager.rekey
    /\ part.decrypted /\ super.mounted /\ ~super.de /\ call.pc \notin {"started", "de"} =>
           manager.rekey \/ history.gaveUp

\* As long as nothing was refused, no name is left of an earlier attempt and the
\* keys of a mounted /data are installed.
FailureInv ==
    /\ NoFalseFailure
    /\ child.pc = "failed" => history.hindered
    /\ ~history.hindered /\ ~part.decrypted => dm = child.mapped
    /\ ~history.hindered /\ part.decrypted /\ super.mounted
         /\ call.pc \notin {"started", "de", "rekey"} => super.de

\* As long as the checkpoint could be committed, it is open only until the
\* recovery has started with what its child mounted.
WritesInv ==
    /\ WritesLast
    /\ ~history.excused /\ disk.pending
         /\ (super.mounted \/ binds > 0 \/ holders # {} \/ disk.unsaved) =>
           call.pc = "started" \/ child.pc = "mounted"
    /\ ~history.excused /\ call.pc = "synced" => ~disk.unsaved

IInv == TypeOK /\ CallInv /\ DevicesInv /\ KeysInv /\ FailureInv /\ WritesInv

-----------------------------------------------------------------------------
(***************************************************************************)
(* What the parts of a step do.                                            *)
(***************************************************************************)
Holders == {"mtp", "shell", "app"}

LEMMA ConstantTypes == Idle \in Calls /\ NoChild \in Children
<1>1. Idle \in Calls
  BY DEF Idle, Calls
<1>2. NoChild \in Children
  BY DEF NoChild, Children
<1> QED
  BY <1>1, <1>2

LEMMA OutcomeTypes == \A f : Outcomes(f) \subseteq BOOLEAN
  BY DEF Outcomes

LEMMA OpenedUsers == \A u \in Users : \A p : OpenedBy(u, p) \subseteq Users /\ u \in OpenedBy(u, p)
  BY DEF OpenedBy

LEMMA CommittedFacts ==
    ASSUME TypeOK
    PROVE  \A ok \in BOOLEAN : /\ Committed(disk, ok) \in Disks
                               /\ ok => ~Committed(disk, ok).pending
                               /\ ~ok => Committed(disk, ok) = disk
  BY DEF TypeOK, Committed, Disks

LEMMA BindFacts ==
    ASSUME TypeOK
    PROVE  \A ok \in BOOLEAN : BindMount(binds, ok) \in 0..1
  BY DEF TypeOK, BindMount

LEMMA DecryptDEFacts ==
    ASSUME TypeOK
    PROVE  \A key \in BOOLEAN : DecryptDE(key) =>
             /\ super' \in Supers /\ vold' \in Policies
             /\ super'.mounted = super.mounted /\ super'.ce = super.ce /\ vold'.ce = vold.ce
             /\ super'.de = (super.de \/ (key /\ ~vold.de)) /\ vold'.de = (vold.de \/ key)
<1>1. super \in Supers /\ vold \in Policies
  BY DEF TypeOK
<1> SUFFICES ASSUME NEW key \in BOOLEAN, DecryptDE(key)
             PROVE  /\ super' \in Supers /\ vold' \in Policies
                    /\ super'.mounted = super.mounted /\ super'.ce = super.ce /\ vold'.ce = vold.ce
                    /\ super'.de = (super.de \/ (key /\ ~vold.de)) /\ vold'.de = (vold.de \/ key)
  OBVIOUS
<1> QED
  BY <1>1 DEF DecryptDE, Supers, Policies

LEMMA DecryptDeviceFacts ==
    ASSUME TypeOK, NEW u \in Users, NEW p \in Passwords \cup {NoPassword}
    PROVE  \A dirs, bound \in BOOLEAN : DecryptDevice(u, p, dirs, bound) =>
             /\ super' \in Supers /\ vold' \in Policies /\ manager' \in Managers
             /\ binds' \in 0..1 /\ UNCHANGED history
             /\ super'.mounted = super.mounted /\ super'.de = super.de /\ vold'.de = vold.de
             /\ super'.ce = super.ce \cup (OpenedBy(u, p) \ vold.ce)
             /\ vold'.ce = vold.ce \cup OpenedBy(u, p)
             /\ manager'.decrypted = manager.decrypted \cup OpenedBy(u, p)
             /\ manager'.rekey = manager.rekey
<1> SUFFICES ASSUME NEW bound \in BOOLEAN,
                    super' = [super EXCEPT !.ce = @ \cup (OpenedBy(u, p) \ vold.ce)],
                    vold' = [vold EXCEPT !.ce = @ \cup OpenedBy(u, p)],
                    manager' = [manager EXCEPT !.decrypted = @ \cup OpenedBy(u, p), !.password = p],
                    binds' = (IF u = Owner THEN BindMount(binds, bound) ELSE binds)
             PROVE  /\ super' \in Supers /\ vold' \in Policies /\ manager' \in Managers
                    /\ binds' \in 0..1
                    /\ super'.mounted = super.mounted /\ super'.de = super.de /\ vold'.de = vold.de
                    /\ super'.ce = super.ce \cup (OpenedBy(u, p) \ vold.ce)
                    /\ vold'.ce = vold.ce \cup OpenedBy(u, p)
                    /\ manager'.decrypted = manager.decrypted \cup OpenedBy(u, p)
                    /\ manager'.rekey = manager.rekey
  BY DEF DecryptDevice, CePrepared
<1> DEFINE opened == OpenedBy(u, p)
<1>1. opened \subseteq Users
  BY OpenedUsers
<1>2. /\ super \in Supers /\ vold \in Policies /\ manager \in Managers
  BY DEF TypeOK
<1>3. /\ super' = [super EXCEPT !.ce = @ \cup (opened \ vold.ce)]
      /\ vold' = [vold EXCEPT !.ce = @ \cup opened]
      /\ manager' = [manager EXCEPT !.decrypted = @ \cup opened, !.password = p]
  OBVIOUS
<1> HIDE DEF opened
<1>4. /\ super' \in Supers /\ super'.mounted = super.mounted /\ super'.de = super.de
      /\ super'.ce = super.ce \cup (opened \ vold.ce)
  BY <1>1, <1>2, <1>3 DEF Supers
<1>5. vold' \in Policies /\ vold'.de = vold.de /\ vold'.ce = vold.ce \cup opened
  BY <1>1, <1>2, <1>3 DEF Policies
<1>6. /\ manager' \in Managers /\ manager'.decrypted = manager.decrypted \cup opened
      /\ manager'.rekey = manager.rekey
  BY <1>1, <1>2, <1>3 DEF Managers
<1>7. binds' \in 0..1
  BY BindFacts DEF TypeOK, BindMount
<1> QED
  BY <1>4, <1>5, <1>6, <1>7 DEF opened

LEMMA LeaveFacts ==
    ASSUME TypeOK
    PROVE  \A layers, open : Leave(layers, open) =>
             /\ super' \in Supers /\ ~super'.mounted
             /\ disk' \in Disks /\ disk'.pending = disk.pending
             /\ disk'.unsaved => disk.unsaved
<1>1. super \in Supers /\ disk \in Disks
  BY DEF TypeOK
<1>2. ASSUME super' = [mounted |-> FALSE, de |-> FALSE, ce |-> {}], disk' = Synced(disk)
      PROVE  /\ super' \in Supers /\ ~super'.mounted
             /\ disk' \in Disks /\ disk'.pending = disk.pending
             /\ disk'.unsaved => disk.unsaved
  BY <1>1, <1>2 DEF Supers, Disks, Synced
<1>3. ASSUME super' = [super EXCEPT !.mounted = FALSE], UNCHANGED disk
      PROVE  /\ super' \in Supers /\ ~super'.mounted
             /\ disk' \in Disks /\ disk'.pending = disk.pending
             /\ disk'.unsaved => disk.unsaved
  BY <1>1, <1>3 DEF Supers
<1> QED
  BY <1>2, <1>3 DEF Leave

LEMMA ResetFacts ==
    ASSUME TypeOK, Reset
    PROVE  /\ vold' \in Policies /\ manager' \in Managers
           /\ part.decrypted => /\ vold'.ce = {} /\ ~vold'.de
                                /\ manager'.decrypted = {} /\ manager'.rekey
           /\ ~part.decrypted => vold' = vold /\ manager' = manager
<1>1. vold \in Policies /\ manager \in Managers
  BY DEF TypeOK
<1>2. Forgotten(vold) = [de |-> FALSE, ce |-> {}]
  BY DEF Forgotten
<1>3. Owing(manager) \in Managers /\ Owing(manager).decrypted = {} /\ Owing(manager).rekey
  BY <1>1 DEF Owing, Managers
<1>4. CASE part.decrypted
  <2>1. vold' = [de |-> FALSE, ce |-> {}] /\ manager' = Owing(manager)
    BY <1>2, <1>4 DEF Reset
  <2>2. vold' \in Policies /\ vold'.ce = {} /\ ~vold'.de
    BY <2>1 DEF Policies
  <2> QED
    BY <1>3, <1>4, <2>1, <2>2
<1>5. CASE ~part.decrypted
  BY <1>1, <1>5 DEF Reset
<1> QED
  BY <1>4, <1>5

-----------------------------------------------------------------------------
(***************************************************************************)
(* The steps of the recovery.                                              *)
(***************************************************************************)
\* The fields that the fstab leaves out have ciphers of their own.
LEMMA KnownCiphers == CiphersKnown /\ MetaContents # Omitted
<1>1. /\ "aes-256-xts" # Omitted
      /\ "aes-256-cts" # Omitted
  BY Zenon DEF Omitted
<1>2. FbeContents # Omitted /\ MetaContents # Omitted
  BY <1>1 DEF FbeContents, MetaContents, Default
<1>3. ASSUME Len(FileEncryption) > 1 PROVE FbeFilenames # Omitted
  <2>1. Len(FileEncryption) \in Nat
    BY DataPartitionAssumption
  <2> QED
    BY <1>1, <1>3, <2>1 DEF FbeFilenames, Default
<1> QED
  BY <1>2, <1>3 DEF CiphersKnown

LEMMA ReapStep ==
    ASSUME TypeOK, Reap
    PROVE  /\ call.pc = "wait" /\ child' = NoChild
           /\ UNCHANGED <<present, keymint, dm, disk, super, binds, holders, vold, manager>>
           /\ \/ /\ child.pc = "mounted" /\ UNCHANGED history
                 /\ part' \in Parts /\ part'.decrypted /\ part'.block = "mapper"
                 /\ call' \in Calls /\ call'.pc = "started"
              \/ /\ UNCHANGED part /\ call' = Idle
                 /\ history' \in Histories /\ history'.failed
                 /\ history'.gaveUp = history.gaveUp /\ history'.lost = history.lost
                 /\ history.hindered \/ child.pc # "failed" => history'.hindered
                 /\ history.excused \/ super.mounted => history'.excused
<1>1. /\ call.pc = "wait" /\ child' = NoChild
      /\ UNCHANGED <<present, keymint, dm, disk, super, binds, holders, vold, manager>>
  BY DEF Reap, mounts
<1>2. PICK killed \in {Late, FALSE} :
        /\ killed \/ child.pc \in {"mounted", "failed"}
        /\ IF Decrypted(killed)
           THEN /\ part' = [decrypted |-> TRUE, block |-> "mapper"]
                /\ call' = [call EXCEPT !.pc = "started"]
                /\ UNCHANGED history
           ELSE /\ call' = Idle
                /\ history' = [history EXCEPT !.hindered = @ \/ killed, !.failed = TRUE,
                                              !.excused = @ \/ super.mounted]
                /\ UNCHANGED part
  BY Zenon DEF Reap
<1>b. killed \in BOOLEAN
  <2>1. Late \in BOOLEAN
    BY DEF Late
  <2> QED
    BY <2>1
<1>3. CASE ~killed /\ child.pc = "mounted"
  <2>1. /\ part' = [decrypted |-> TRUE, block |-> "mapper"]
        /\ call' = [call EXCEPT !.pc = "started"]
        /\ UNCHANGED history
    BY <1>2, <1>3 DEF Decrypted
  <2>2. part' \in Parts /\ part'.decrypted /\ part'.block = "mapper"
    BY <2>1 DEF Parts
  <2>3. call' \in Calls /\ call'.pc = "started"
    BY <2>1 DEF Calls, TypeOK
  <2> QED
    BY <1>1, <1>3, <2>1, <2>2, <2>3
<1>4. CASE ~(~killed /\ child.pc = "mounted")
  <2>1. /\ call' = Idle
        /\ history' = [history EXCEPT !.hindered = @ \/ killed, !.failed = TRUE,
                                      !.excused = @ \/ super.mounted]
        /\ UNCHANGED part
    BY <1>2, <1>4 DEF Decrypted
  <2>2. super.mounted \in BOOLEAN
    BY DEF TypeOK, Supers
  <2>3. /\ history' \in Histories /\ history'.failed
        /\ history'.gaveUp = history.gaveUp /\ history'.lost = history.lost
        /\ history'.hindered = (history.hindered \/ killed)
        /\ history'.excused = (history.excused \/ super.mounted)
    BY <1>b, <2>1, <2>2 DEF TypeOK, Histories
  <2>4. history.hindered \/ child.pc # "failed" => history'.hindered
    BY <1>2, <1>4, <2>3
  <2>5. history.excused \/ super.mounted => history'.excused
    BY <2>2, <2>3
  <2> QED
    BY <1>1, <2>1, <2>3, <2>4, <2>5
<1> QED
  BY <1>3, <1>4

LEMMA StartStep ==
    ASSUME TypeOK, Start
    PROVE  /\ call.pc = "started" /\ call' \in Calls /\ call'.pc = "de"
           /\ UNCHANGED <<present, keymint, dm, child, super, binds, holders, part, vold, manager>>
           /\ disk' \in Disks /\ (~disk'.pending \/ history'.excused)
           /\ history' \in Histories
           /\ history'.hindered = history.hindered /\ (history.excused => history'.excused)
           /\ history'.gaveUp = history.gaveUp /\ history'.failed = history.failed
           /\ history'.lost = history.lost
<1>1. /\ call.pc = "started" /\ call' = [call EXCEPT !.pc = "de"]
      /\ UNCHANGED <<present, keymint, dm, child, super, binds, holders, part, vold, manager>>
  BY DEF Start, mounts
<1>2. call' \in Calls /\ call'.pc = "de"
  BY <1>1 DEF TypeOK, Calls
<1>3. PICK ok \in Outcomes("checkpoint") :
        /\ disk' = Committed(disk, ok)
        /\ history' = [history EXCEPT !.excused = @ \/ ~ok]
  BY Zenon DEF Start
<1>b. ok \in BOOLEAN
  BY OutcomeTypes
<1>4. disk' \in Disks /\ (ok => ~disk'.pending)
  BY <1>3, <1>b, CommittedFacts
<1>5. /\ history' \in Histories /\ history'.hindered = history.hindered
      /\ history'.gaveUp = history.gaveUp /\ history'.failed = history.failed
      /\ history'.lost = history.lost /\ history'.excused = (history.excused \/ ~ok)
  BY <1>3, <1>b DEF TypeOK, Histories
<1> QED
  BY <1>1, <1>2, <1>4, <1>5

LEMMA StartDEStep ==
    ASSUME TypeOK, StartDE
    PROVE  /\ call.pc = "de" /\ call' = Idle
           /\ UNCHANGED <<present, keymint, dm, child, disk, binds, part, manager>>
           /\ holders' \subseteq Holders
           /\ super' \in Supers /\ super'.mounted = super.mounted /\ super'.ce = super.ce
           /\ vold' \in Policies /\ vold'.ce = vold.ce
           /\ super'.de = (super.de \/ (vold'.de /\ ~vold.de)) /\ (vold.de => vold'.de)
           /\ history' \in Histories
           /\ (history.hindered => history'.hindered)
           /\ history'.excused = history.excused /\ history'.lost = history.lost
           /\ history'.failed => history.failed \/ history'.hindered
           /\ vold'.de \/ (history'.gaveUp /\ history'.hindered)
<1>1. /\ call.pc = "de" /\ call' = Idle
      /\ UNCHANGED <<present, keymint, dm, child, disk, binds, part, manager>>
      /\ holders' \subseteq Holders
  BY DEF StartDE, RestartMtp, TypeOK, Holders
<1>2. PICK key \in Outcomes("key"), dirs \in Outcomes("dirs") :
        /\ DecryptDE(key /\ CiphersKnown)
        /\ history' = [history EXCEPT !.gaveUp = ~(key /\ CiphersKnown),
                                      !.hindered = @ \/ ~key,
                                      !.failed = @ \/ ~(key /\ CiphersKnown) \/ ~User0Prepared(dirs)]
  BY Zenon DEF StartDE
<1>b. key \in BOOLEAN
  BY OutcomeTypes
<1> DEFINE done == key /\ CiphersKnown
<1>3. done \in BOOLEAN /\ done = key /\ DecryptDE(done)
  BY <1>2, <1>b, KnownCiphers
<1> HIDE DEF done
<1>4. history' = [history EXCEPT !.gaveUp = ~key, !.hindered = @ \/ ~key, !.failed = @ \/ ~key]
  BY <1>2, KnownCiphers DEF User0Prepared
<1>5. /\ history' \in Histories /\ history'.lost = history.lost
      /\ history'.hindered = (history.hindered \/ ~key) /\ history'.gaveUp = ~key
      /\ history'.excused = history.excused /\ history'.failed = (history.failed \/ ~key)
  BY <1>b, <1>4 DEF TypeOK, Histories
<1>7. /\ super' \in Supers /\ vold' \in Policies
      /\ super'.mounted = super.mounted /\ super'.ce = super.ce /\ vold'.ce = vold.ce
      /\ super'.de = (super.de \/ (key /\ ~vold.de)) /\ vold'.de = (vold.de \/ key)
  BY <1>3, DecryptDEFacts
<1> QED
  <2>2. vold' \in Policies /\ vold'.ce = vold.ce /\ (vold.de => vold'.de)
    BY <1>7
  <2>3. super'.de = (super.de \/ (vold'.de /\ ~vold.de))
    BY <1>b, <1>7
  <2>4. /\ history.hindered => history'.hindered
        /\ history'.failed => history.failed \/ history'.hindered
        /\ vold'.de \/ (history'.gaveUp /\ history'.hindered)
    BY <1>b, <1>5, <1>7
  <2> QED
    BY <1>1, <1>5, <1>7, <2>2, <2>3, <2>4

LEMMA MountStep ==
    ASSUME TypeOK, Mount
    PROVE  /\ call.pc = "mount" /\ call' \in Calls
           /\ UNCHANGED <<present, keymint, dm, child, holders, part, vold, manager>>
           /\ \/ /\ super.mounted /\ call'.pc = "user"
                 /\ UNCHANGED <<super, disk, binds, history>>
              \/ /\ call' = Idle /\ call'.pc = "idle"
                 /\ ~super.mounted /\ UNCHANGED <<super, disk, binds, history>>
              \/ /\ ~super.mounted
                 /\ super' \in Supers /\ super'.mounted
                 /\ super'.de = super.de /\ super'.ce = super.ce
                 /\ disk' \in Disks /\ (~disk'.pending \/ history'.excused)
                 /\ binds' \in 0..1
                 /\ history' \in Histories
                 /\ (history.hindered => history'.hindered) /\ (history.excused => history'.excused)
                 /\ history'.lost = history.lost /\ history'.gaveUp = history.gaveUp
                 /\ history'.failed = history.failed
                 /\ \/ call'.pc = "idle" /\ history'.hindered
                    \/ call'.pc = "rekey" /\ manager.rekey
                    \/ call'.pc = "user" /\ ~manager.rekey
<1>1. /\ call.pc = "mount"
      /\ UNCHANGED <<present, keymint, dm, child, holders, part, vold, manager>>
  BY DEF Mount
<1>2. CASE super.mounted
  <2>1. call' = [call EXCEPT !.pc = "user"] /\ UNCHANGED <<super, disk, binds, history>>
    BY <1>2 DEF Mount
  <2>2. call' \in Calls /\ call'.pc = "user"
    BY <2>1 DEF TypeOK, Calls
  <2> QED
    BY <1>1, <1>2, <2>1, <2>2
<1>4. CASE ~super.mounted /\ call' = Idle /\ UNCHANGED <<super, disk, binds, history>>
  <2>1. call' \in Calls /\ call'.pc = "idle"
    BY <1>4, ConstantTypes DEF Idle
  <2> QED
    BY <1>1, <1>4, <2>1
<1>3. CASE ~super.mounted /\ ~(call' = Idle /\ UNCHANGED <<super, disk, binds, history>>)
  <2>1. PICK ok \in Outcomes("checkpoint"), bound \in Outcomes("bind") :
          /\ super' = [super EXCEPT !.mounted = TRUE]
          /\ disk' = Committed(disk, ok)
          /\ binds' = BindMount(binds, bound)
          /\ history' = [history EXCEPT !.excused = @ \/ ~ok, !.hindered = @ \/ (binds' = 0)]
          /\ call' = IF binds' = 0 THEN Idle
                     ELSE [call EXCEPT !.pc = IF manager.rekey THEN "rekey" ELSE "user"]
    <3>1. ~super.mounted /\ ~(call' = Idle /\ UNCHANGED <<super, disk, binds, history>>)
      BY <1>3
    <3> QED
      BY <3>1, Zenon DEF Mount
  <2>b. ok \in BOOLEAN /\ bound \in BOOLEAN
    BY OutcomeTypes
  <2>2. /\ super' \in Supers /\ super'.mounted
        /\ super'.de = super.de /\ super'.ce = super.ce
    BY <2>1 DEF TypeOK, Supers
  <2>3. binds' \in 0..1
    BY <2>1, <2>b, BindFacts
  <2>4. /\ history' \in Histories /\ history'.lost = history.lost
        /\ history'.gaveUp = history.gaveUp /\ history'.failed = history.failed
        /\ history'.excused = (history.excused \/ ~ok)
        /\ history'.hindered = (history.hindered \/ (binds' = 0))
    BY <2>1, <2>b DEF TypeOK, Histories
  <2>5. disk' \in Disks /\ (ok => ~disk'.pending)
    BY <2>1, <2>b, CommittedFacts
  <2>6. CASE binds' = 0
    <3>1. call' = Idle
      BY <2>1, <2>6
    <3>2. call' \in Calls /\ call'.pc = "idle"
      BY <3>1, ConstantTypes DEF Idle
    <3> QED
      BY <1>1, <1>3, <2>2, <2>3, <2>4, <2>5, <2>6, <3>2
  <2>7. CASE binds' # 0
    <3>1. call' = [call EXCEPT !.pc = IF manager.rekey THEN "rekey" ELSE "user"]
      BY <2>1, <2>7
    <3>2. call' \in Calls /\ call'.pc = IF manager.rekey THEN "rekey" ELSE "user"
      BY <3>1 DEF TypeOK, Calls
    <3> QED
      BY <1>1, <1>3, <2>2, <2>3, <2>4, <2>5, <3>2
  <2> QED
    BY <2>6, <2>7
<1> QED
  BY <1>2, <1>3, <1>4

LEMMA RekeyStep ==
    ASSUME TypeOK, Rekey
    PROVE  /\ call.pc = "rekey" /\ call' \in Calls
           /\ UNCHANGED <<present, keymint, dm, child, disk, binds, holders, part>>
           /\ super' \in Supers /\ super'.mounted = super.mounted /\ super'.ce = super.ce
           /\ vold' \in Policies /\ vold'.ce = vold.ce
           /\ super'.de = (super.de \/ (vold'.de /\ ~vold.de)) /\ (vold.de => vold'.de)
           /\ manager' \in Managers /\ manager'.decrypted = manager.decrypted
           /\ history' \in Histories /\ (history.hindered => history'.hindered)
           /\ history'.excused = history.excused /\ history'.lost = history.lost
           /\ history'.failed => history.failed \/ history'.hindered
           /\ \/ call'.pc = "rekey" /\ manager'.rekey /\ history'.hindered
              \/ call'.pc \in {"auto", "user"} /\ vold'.de
              \/ call'.pc = "user" /\ history'.gaveUp /\ history'.hindered
           /\ history'.gaveUp => history'.hindered
<1>1. call.pc = "rekey" /\ UNCHANGED <<present, keymint, dm, child, disk, binds, holders, part>>
  BY DEF Rekey
<1>2. PICK key \in Outcomes("key"), dirs \in Outcomes("dirs") :
        LET last == call.tries = 2
            done == key /\ CiphersKnown /\ User0Prepared(dirs) IN
        /\ DecryptDE(key /\ CiphersKnown)
        /\ call' = IF ~done /\ ~last THEN [call EXCEPT !.tries = @ + 1]
                   ELSE [call EXCEPT !.tries = 0,
                                     !.pc = IF done /\ manager.password # NoPassword THEN "auto" ELSE "user"]
        /\ manager' = [manager EXCEPT !.rekey = (~done /\ ~last)]
        /\ history' = [history EXCEPT !.hindered = @ \/ ~key, !.gaveUp = (~done /\ last),
                                      !.failed = @ \/ ~done]
  BY Zenon DEF Rekey
<1>b. key \in BOOLEAN
  BY OutcomeTypes
<1> DEFINE done == key /\ CiphersKnown
<1> DEFINE last == call.tries = 2
<1>3. done \in BOOLEAN /\ done = key /\ last \in BOOLEAN
  BY <1>b, KnownCiphers
<1>4. /\ DecryptDE(done)
      /\ call' = IF ~done /\ ~last THEN [call EXCEPT !.tries = @ + 1]
                 ELSE [call EXCEPT !.tries = 0,
                                   !.pc = IF done /\ manager.password # NoPassword THEN "auto" ELSE "user"]
      /\ manager' = [manager EXCEPT !.rekey = (~done /\ ~last)]
      /\ history' = [history EXCEPT !.hindered = @ \/ ~key, !.gaveUp = (~done /\ last),
                                    !.failed = @ \/ ~done]
  BY <1>2 DEF User0Prepared
<1>5. call.tries \in 0..2 /\ (~last => call.tries + 1 \in 0..2)
  BY DEF TypeOK, Calls
<1>6. /\ call' \in Calls
      /\ call'.pc = IF ~done /\ ~last THEN call.pc
                    ELSE IF done /\ manager.password # NoPassword THEN "auto" ELSE "user"
  <2> HIDE DEF done, last
  <2>1. CASE ~done /\ ~last
    BY <1>4, <1>5, <2>1 DEF TypeOK, Calls
  <2>2. CASE ~(~done /\ ~last)
    <3> DEFINE next == IF done /\ manager.password # NoPassword THEN "auto" ELSE "user"
    <3>1. next \in {"auto", "user"} /\ call' = [call EXCEPT !.tries = 0, !.pc = next]
      BY <1>4, <2>2
    <3>2. call' \in Calls /\ call'.pc = next
      <4> HIDE DEF next
      <4>1. call \in Calls /\ 0 \in 0..2
        BY DEF TypeOK
      <4>2. [call EXCEPT !.tries = 0] \in Calls
        BY <4>1 DEF Calls
      <4>3. call' = [[call EXCEPT !.tries = 0] EXCEPT !.pc = next]
        BY <3>1
      <4> QED
        BY <3>1, <4>2, <4>3 DEF Calls
    <3> QED
      BY <2>2, <3>2
  <2> QED
    BY <2>1, <2>2
<1> HIDE DEF done, last
<1>7. /\ super' \in Supers /\ vold' \in Policies
      /\ super'.mounted = super.mounted /\ super'.ce = super.ce /\ vold'.ce = vold.ce
      /\ super'.de = (super.de \/ (done /\ ~vold.de)) /\ vold'.de = (vold.de \/ done)
  BY <1>3, <1>4, DecryptDEFacts
<1>8. /\ manager' \in Managers /\ manager'.decrypted = manager.decrypted
      /\ manager'.rekey = (~done /\ ~last)
  BY <1>3, <1>4 DEF TypeOK, Managers
<1>9. /\ history' \in Histories /\ history'.excused = history.excused /\ history'.lost = history.lost
      /\ history'.hindered = (history.hindered \/ ~key) /\ history'.gaveUp = (~done /\ last)
      /\ history'.failed = (history.failed \/ ~done)
  BY <1>b, <1>3, <1>4 DEF TypeOK, Histories
<1>10. super'.de = (super.de \/ (vold'.de /\ ~vold.de)) /\ (vold.de => vold'.de)
  BY <1>3, <1>7
<1>11. /\ history.hindered => history'.hindered
       /\ history'.failed => history.failed \/ history'.hindered
       /\ history'.gaveUp => history'.hindered
  BY <1>3, <1>9
<1>12. \/ call'.pc = "rekey" /\ manager'.rekey /\ history'.hindered
       \/ call'.pc \in {"auto", "user"} /\ vold'.de
       \/ call'.pc = "user" /\ history'.gaveUp /\ history'.hindered
  <2>1. CASE done
    BY <1>6, <1>7, <2>1
  <2>2. CASE ~done /\ ~last
    BY <1>1, <1>3, <1>6, <1>8, <1>9, <2>2
  <2>3. CASE ~done /\ last
    BY <1>3, <1>6, <1>9, <2>3
  <2> QED
    BY <2>1, <2>2, <2>3
<1> QED
  BY <1>1, <1>6, <1>7, <1>8, <1>9, <1>10, <1>11, <1>12

\* Decrypt_Device, for the owner or for the user of the call.
DeviceKept ==
    /\ super' \in Supers /\ super'.mounted = super.mounted /\ super'.de = super.de
    /\ vold' \in Policies /\ vold'.de = vold.de
    /\ manager' \in Managers /\ manager'.rekey = manager.rekey
    /\ binds' \in 0..1 /\ holders' \subseteq Holders
    /\ manager.decrypted \cup vold.ce \subseteq super.ce =>
           manager'.decrypted \cup vold'.ce \subseteq super'.ce

LEMMA DecryptDeviceKeeps ==
    ASSUME TypeOK, NEW u \in Users, NEW p \in Passwords \cup {NoPassword},
           NEW dirs \in BOOLEAN, NEW bound \in BOOLEAN, DecryptDevice(u, p, dirs, bound), RestartMtp
    PROVE  DeviceKept /\ UNCHANGED history
<1>1. holders' \subseteq Holders
  BY DEF TypeOK, RestartMtp, Holders
<1> QED
  BY <1>1, DecryptDeviceFacts DEF DeviceKept

LEMMA AutoDecryptStep ==
    ASSUME TypeOK, AutoDecrypt
    PROVE  /\ call.pc = "auto" /\ call' \in Calls /\ call'.pc = "user"
           /\ UNCHANGED <<present, keymint, dm, child, disk, part, history>>
           /\ DeviceKept
<1>1. /\ call.pc = "auto" /\ call' = [call EXCEPT !.pc = "user"]
      /\ UNCHANGED <<present, keymint, dm, child, disk, part>>
  BY DEF AutoDecrypt
<1>2. call' \in Calls /\ call'.pc = "user"
  BY <1>1 DEF TypeOK, Calls
<1>3. Owner \in Users /\ manager.password \in Passwords \cup {NoPassword}
  BY DataPartitionAssumption DEF TypeOK, Managers
<1>4. PICK key \in Outcomes("key"), dirs \in Outcomes("dirs"), bound \in Outcomes("bind") :
        IF Opens(Owner, manager.password, key)
        THEN DecryptDevice(Owner, manager.password, dirs, bound) /\ RestartMtp
        ELSE /\ manager' = [manager EXCEPT !.password = NoPassword]
             /\ UNCHANGED <<super, vold, binds, holders, history>>
  BY Zenon DEF AutoDecrypt
<1>b. dirs \in BOOLEAN /\ bound \in BOOLEAN
  BY OutcomeTypes
<1>5. CASE DecryptDevice(Owner, manager.password, dirs, bound) /\ RestartMtp
  BY <1>1, <1>2, <1>3, <1>b, <1>5, DecryptDeviceKeeps
<1>6. CASE /\ manager' = [manager EXCEPT !.password = NoPassword]
           /\ UNCHANGED <<super, vold, binds, holders, history>>
  <2>1. /\ manager' \in Managers /\ manager'.rekey = manager.rekey
        /\ manager'.decrypted = manager.decrypted
    BY <1>6 DEF TypeOK, Managers
  <2> QED
    BY <1>1, <1>2, <1>6, <2>1 DEF TypeOK, DeviceKept, Holders
<1> QED
  BY <1>4, <1>5, <1>6

LEMMA DecryptUserStep ==
    ASSUME TypeOK, DecryptUser
    PROVE  /\ call.pc = "user" /\ call' = Idle
           /\ UNCHANGED <<present, keymint, dm, child, disk, part>>
           /\ DeviceKept
           /\ history' \in Histories
           /\ history.hindered => history'.hindered
           /\ history'.gaveUp = history.gaveUp /\ history'.excused = history.excused
           /\ history'.lost = history.lost
           /\ history'.failed => history.failed \/ history'.hindered \/ ~super.de
<1>1. /\ call.pc = "user" /\ call' = Idle
      /\ UNCHANGED <<present, keymint, dm, child, disk, part>>
  BY DEF DecryptUser
<1>2. PICK key \in Outcomes("key"), dirs \in Outcomes("dirs"), bound \in Outcomes("bind") :
        IF call.user = "none" \/ call.user \in manager.decrypted
        THEN UNCHANGED <<super, vold, binds, holders, manager, history>>
        ELSE IF Opens(call.user, call.password, key)
        THEN DecryptDevice(call.user, call.password, dirs, bound) /\ RestartMtp
        ELSE /\ history' = [history EXCEPT !.failed = @ \/ (call.password = Secret[call.user]),
                                           !.hindered = @ \/ ~key]
             /\ UNCHANGED <<super, vold, binds, holders, manager>>
  BY Zenon DEF DecryptUser
<1>b. key \in BOOLEAN /\ dirs \in BOOLEAN /\ bound \in BOOLEAN
  BY OutcomeTypes
<1>t. history \in Histories
  BY DEF TypeOK
<1>3. CASE UNCHANGED <<super, vold, binds, holders, manager, history>>
  BY <1>1, <1>3, <1>t DEF TypeOK, DeviceKept, Holders
<1>4. CASE /\ call.user # "none"
           /\ DecryptDevice(call.user, call.password, dirs, bound) /\ RestartMtp
  <2>1. call.user \in Users /\ call.password \in Passwords \cup {NoPassword}
    BY <1>4 DEF TypeOK, Calls
  <2>2. DeviceKept /\ UNCHANGED history
    BY <1>b, <1>4, <2>1, DecryptDeviceKeeps
  <2> QED
    BY <1>1, <1>t, <2>2
<1>5. CASE /\ ~Opens(call.user, call.password, key)
           /\ history' = [history EXCEPT !.failed = @ \/ (call.password = Secret[call.user]),
                                         !.hindered = @ \/ ~key]
           /\ UNCHANGED <<super, vold, binds, holders, manager>>
  <2> DEFINE his == call.password = Secret[call.user]
  <2>1. his \in BOOLEAN /\ (his => ~super.de \/ ~key)
    BY <1>5 DEF Opens
  <2>2. history' = [history EXCEPT !.failed = @ \/ his, !.hindered = @ \/ ~key]
    BY <1>5
  <2> HIDE DEF his
  <2>3. /\ history' \in Histories /\ history'.failed = (history.failed \/ his)
        /\ history'.hindered = (history.hindered \/ ~key)
        /\ history'.gaveUp = history.gaveUp /\ history'.excused = history.excused
        /\ history'.lost = history.lost
    BY <1>b, <1>t, <2>1, <2>2 DEF Histories
  <2>4. DeviceKept
    BY <1>5 DEF TypeOK, DeviceKept, Holders
  <2>5. history'.failed => history.failed \/ history'.hindered \/ ~super.de
    BY <1>b, <2>1, <2>3
  <2>6. history.hindered => history'.hindered
    BY <2>3
  <2> QED
    BY <1>1, <2>3, <2>4, <2>5, <2>6
<1> QED
  BY <1>2, <1>3, <1>4, <1>5

\* What is left when the superblock was let go, and the caches reset.
Released ==
    /\ super' \in Supers /\ ~super'.mounted
    /\ disk' \in Disks /\ disk'.pending = disk.pending /\ (disk'.unsaved => disk.unsaved)
    /\ vold' \in Policies /\ manager' \in Managers
    /\ part.decrypted => /\ vold'.ce = {} /\ ~vold'.de
                         /\ manager'.decrypted = {} /\ manager'.rekey
    /\ ~part.decrypted => vold' = vold /\ manager' = manager

LEMMA UnMountStep ==
    ASSUME TypeOK, UnMount
    PROVE  /\ call.pc = "idle" /\ super.mounted
           /\ UNCHANGED <<present, keymint, dm, child, holders, part, call>>
           /\ binds' \in 0..1
           /\ \/ /\ Released
                 /\ history' \in Histories /\ ~history'.gaveUp
                 /\ history'.hindered = history.hindered /\ history'.failed = history.failed
                 /\ history'.excused = history.excused /\ history'.lost = history.lost
              \/ UNCHANGED <<super, disk, vold, manager, history>>
<1>1. /\ call.pc = "idle" /\ super.mounted
      /\ UNCHANGED <<present, keymint, dm, child, holders, part, call>>
      /\ binds' \in 0..1
  BY DEF UnMount, TypeOK
<1>2. \/ Leave(binds', holders) /\ Reset /\ history' = [history EXCEPT !.gaveUp = FALSE]
      \/ UNCHANGED <<super, disk, vold, manager, history>>
  BY Zenon DEF UnMount
<1>3. ASSUME Leave(binds', holders), Reset PROVE Released
  BY <1>3, LeaveFacts, ResetFacts DEF Released
<1>4. ASSUME history' = [history EXCEPT !.gaveUp = FALSE]
      PROVE  /\ history' \in Histories /\ ~history'.gaveUp
             /\ history'.hindered = history.hindered /\ history'.failed = history.failed
             /\ history'.excused = history.excused /\ history'.lost = history.lost
  BY <1>4 DEF TypeOK, Histories
<1> QED
  BY <1>1, <1>2, <1>3, <1>4

LEMMA RebootStep ==
    ASSUME TypeOK, Reboot
    PROVE  /\ call.pc = "synced" /\ call' \in Calls /\ call'.pc = "off"
           /\ UNCHANGED <<present, keymint, dm, child, part>>
           /\ binds' \in 0..1 /\ holders' \subseteq Holders
           /\ history' \in Histories /\ (history'.lost => disk'.unsaved)
           /\ history'.gaveUp = history.gaveUp
           /\ history'.hindered = history.hindered /\ history'.failed = history.failed
           /\ history'.excused = history.excused
           /\ \/ super.mounted /\ Released
              \/ UNCHANGED <<super, binds, holders, disk, vold, manager>>
<1>1. /\ call.pc = "synced" /\ call' = [call EXCEPT !.pc = "off"]
      /\ UNCHANGED <<present, keymint, dm, child, part>>
      /\ history' = [history EXCEPT !.lost = disk'.unsaved]
  BY DEF Reboot
<1>2. call' \in Calls /\ call'.pc = "off"
  BY <1>1 DEF TypeOK, Calls
<1>3. \/ /\ holders' \subseteq Holders /\ binds' \in 0..1
         /\ super.mounted /\ Released
      \/ UNCHANGED <<super, binds, holders, disk, vold, manager>>
  <2>1. CASE super.mounted
    <3>1. holders' = holders \ {"mtp"} /\ binds' = 0 /\ Leave(0, holders') /\ Reset
      BY <2>1, Zenon DEF Reboot
    <3>2. holders' \subseteq Holders /\ binds' \in 0..1
      BY <3>1 DEF TypeOK, Holders
    <3> QED
      BY <2>1, <3>1, <3>2, LeaveFacts, ResetFacts DEF Released
  <2>2. CASE ~super.mounted
    BY <2>2 DEF Reboot, mounts
  <2> QED
    BY <2>1, <2>2
<1>4. disk'.unsaved \in BOOLEAN
  BY <1>3 DEF TypeOK, Released, Disks
<1>5. /\ history' \in Histories /\ history'.lost = disk'.unsaved
      /\ history'.gaveUp = history.gaveUp
      /\ history'.hindered = history.hindered /\ history'.failed = history.failed
      /\ history'.excused = history.excused
  BY <1>1, <1>4 DEF TypeOK, Histories
<1> QED
  BY <1>1, <1>2, <1>3, <1>5 DEF TypeOK, Holders

LEMMA DecryptDataStep ==
    ASSUME TypeOK, DecryptData
    PROVE  /\ call.pc = "idle" /\ ~part.decrypted /\ call'.pc = "wait"
           /\ child'.pc = "maps" /\ child'.mapped = {}
           /\ UNCHANGED <<present, keymint, dm, disk, super, binds, holders, part, vold, manager, history>>
  BY DEF DecryptData, mounts, TypeOK, Calls

LEMMA MapDeviceStep ==
    ASSUME TypeOK, NEW d \in Members, MapDevice(d)
    PROVE  /\ child.pc = "maps" /\ child'.pc = "maps"
           /\ dm' = dm \cup {d} /\ child'.mapped = child.mapped \cup {d}
           /\ UNCHANGED <<present, keymint, disk, super, binds, holders, part, vold, manager, call, history>>
  BY DEF MapDevice, mounts, TypeOK, Children

\* The directory of each key is where Android keeps it.
LEMMA KeysAreFound == \A d \in Members : Mappable(d) <=> d \notin dm
<1>1. Zoned # "userdata" /\ "userdata" \notin Expansions
  BY DataPartitionAssumption
<1>2. ASSUME NEW d \in Members PROVE (IF d = "userdata" THEN KeyDir ELSE d) = StoredIn(d)
  <2>1. CASE d # "userdata"
    BY <2>1 DEF StoredIn
  <2>2. CASE d = "userdata"
    <3>1. Members = {"userdata"} <=> ZonedDevice = {} /\ UserDevices = {}
      BY <1>1 DEF Members, ZonedDevice, UserDevices
    <3> QED
      BY <2>2, <3>1 DEF StoredIn, KeyDir
  <2> QED
    BY <2>1, <2>2
<1> QED
  BY <1>2, KnownCiphers DEF Mappable

\* Without a refusal the child fails on a name that is taken only.
LEMMA ChildFailsStep ==
    ASSUME TypeOK, ChildFails
    PROVE  /\ child.pc = "maps" /\ child'.pc = "failed" /\ child'.mapped = child.mapped
           /\ UNCHANGED <<present, keymint, dm, disk, super, binds, holders, part, vold, manager, call>>
           /\ history' \in Histories /\ (history.hindered => history'.hindered)
           /\ history'.failed = history.failed /\ history'.gaveUp = history.gaveUp
           /\ history'.excused = history.excused /\ history'.lost = history.lost
           /\ history'.hindered \/ dm # child.mapped
<1>1. /\ child.pc = "maps" /\ child' = [child EXCEPT !.pc = "failed"]
      /\ history' = [history EXCEPT !.hindered = @ \/ Refused \/ DiskFails]
      /\ UNCHANGED <<present, keymint, dm, disk, super, binds, holders, part, vold, manager, call>>
  BY DEF ChildFails, mounts
<1>2. Refused \in BOOLEAN /\ DiskFails \in BOOLEAN
  BY DEF Refused, DiskFails, TypeOK
<1>3. Refused \/ DiskFails \/ dm # child.mapped
  BY KeysAreFound DEF ChildFails
<1>4. child'.pc = "failed" /\ child'.mapped = child.mapped
  BY <1>1 DEF TypeOK, Children
<1>5. /\ history' \in Histories
      /\ history'.hindered = (history.hindered \/ Refused \/ DiskFails)
      /\ history'.failed = history.failed /\ history'.gaveUp = history.gaveUp
      /\ history'.excused = history.excused /\ history'.lost = history.lost
  BY <1>1, <1>2 DEF TypeOK, Histories
<1>6. (history.hindered => history'.hindered) /\ (history'.hindered \/ dm # child.mapped)
  BY <1>2, <1>3, <1>5
<1> QED
  BY <1>1, <1>4, <1>5, <1>6

LEMMA ChildMountsStep ==
    ASSUME TypeOK, ChildMounts
    PROVE  /\ child.pc = "maps" /\ child.mapped = Members
           /\ child'.pc = "mounted" /\ child'.mapped = child.mapped
           /\ super'.mounted /\ super'.de = super.de /\ super'.ce = super.ce
           /\ UNCHANGED <<present, keymint, dm, disk, binds, holders, part, vold, manager, call, history>>
  BY DEF ChildMounts, TypeOK, Children, Supers

LEMMA RequestStep ==
    ASSUME TypeOK, NEW u \in Users \cup {"none"}, NEW p \in Passwords \cup {NoPassword}, Request(u, p)
    PROVE  /\ call.pc = "idle" /\ part.decrypted /\ call'.pc = "mount"
           /\ UNCHANGED <<present, keymint, dm, child, disk, super, binds, holders,
                          part, vold, manager, history>>
  BY DEF Request, mounts

LEMMA SyncStep ==
    ASSUME TypeOK, Sync
    PROVE  /\ call.pc = "idle" /\ call'.pc = "synced"
           /\ disk'.pending = disk.pending /\ disk'.unsaved = (disk.unsaved /\ disk.pending)
           /\ UNCHANGED <<present, keymint, dm, child, super, binds, holders, part, vold, manager, history>>
  BY DEF Sync, Flushed, Synced, mounts, TypeOK, Calls, Disks

LEMMA WriteStep ==
    ASSUME TypeOK, Write
    PROVE  /\ super.mounted \/ holders # {}
           /\ disk'.pending = disk.pending
           /\ UNCHANGED <<present, keymint, dm, child, super, binds, holders, part, vold, manager, call>>
           /\ (history.excused \/ call.pc = "synced") => history'.excused
           /\ history'.hindered = history.hindered /\ history'.failed = history.failed
           /\ history'.gaveUp = history.gaveUp /\ history'.lost = history.lost
<1>1. /\ super.mounted \/ holders # {}
      /\ disk' = [disk EXCEPT !.unsaved = TRUE]
      /\ UNCHANGED <<present, keymint, dm, child, super, binds, holders, part, vold, manager, call>>
      /\ history' = [history EXCEPT !.excused = @ \/ call.pc = "synced"]
  BY DEF Write, mounts
<1> QED
  BY <1>1 DEF TypeOK, Disks, Histories

LEMMA OpenStep ==
    ASSUME TypeOK, NEW h, Open(h)
    PROVE  /\ super.mounted \/ binds > 0
           /\ UNCHANGED <<present, keymint, dm, child, disk, super, binds, part, vold, manager, call, history>>
  BY DEF Open

LEMMA CloseStep ==
    ASSUME TypeOK, NEW h, Close(h)
    PROVE  /\ holders' \subseteq holders /\ super'.mounted = super.mounted
           /\ super.mounted => super' = super
           /\ disk'.pending = disk.pending /\ (disk'.unsaved => disk.unsaved)
           /\ UNCHANGED <<present, keymint, dm, child, binds, part, vold, manager, call, history>>
<1>1. /\ holders' = holders \ {h}
      /\ IF super.mounted THEN UNCHANGED <<super, disk>> ELSE Leave(binds, holders')
      /\ UNCHANGED <<present, keymint, dm, child, binds, part, vold, manager, call, history>>
  BY DEF Close
<1>2. CASE super.mounted
  BY <1>1, <1>2
<1>3. CASE ~super.mounted
  <2>1. super.mounted \in BOOLEAN /\ super'.mounted \in BOOLEAN
    BY <1>1, <1>3, LeaveFacts DEF TypeOK, Supers
  <2> QED
    BY <1>1, <1>3, <2>1, LeaveFacts
<1> QED
  BY <1>2, <1>3

-----------------------------------------------------------------------------
(***************************************************************************)
(* Type correctness.                                                       *)
(***************************************************************************)
LEMMA NextType ==
    ASSUME TypeOK, [Next]_vars
    PROVE  TypeOK'
<1> USE DEF TypeOK
<1>1. CASE UNCHANGED vars
  BY <1>1 DEF vars, mounts
<1>2. CASE DecryptData
  BY <1>2 DEF DecryptData, Children, Calls, mounts
<1>3. ASSUME NEW d \in Members, MapDevice(d) PROVE TypeOK'
  BY <1>3 DEF MapDevice, Children, mounts, Members, AllDevices, UserDevices, ZonedDevice
<1>4. CASE ChildFails
  BY <1>4 DEF ChildFails, Children, Histories, mounts, Refused, DiskFails
<1>5. CASE ChildMounts
  BY <1>5 DEF ChildMounts, Children, Supers
<1>6. CASE Reap
  BY <1>6, ConstantTypes, ReapStep
<1>7. CASE Start
  BY <1>7, ConstantTypes, StartStep DEF Holders
<1>20. CASE StartDE
  BY <1>20, ConstantTypes, StartDEStep DEF Holders
<1>8. ASSUME NEW u \in Users \cup {"none"}, NEW p \in Passwords \cup {NoPassword}, Request(u, p)
      PROVE  TypeOK'
  BY <1>8 DEF Request, Calls, mounts
<1>9. CASE Mount
  BY <1>9, MountStep
<1>10. CASE Rekey
  BY <1>10, RekeyStep
<1>11. CASE AutoDecrypt
  BY <1>11, AutoDecryptStep DEF DeviceKept, Holders
<1>12. CASE DecryptUser
  BY <1>12, ConstantTypes, DecryptUserStep DEF DeviceKept, Holders
<1>13. CASE UnMount
  BY <1>13, UnMountStep DEF Released
<1>14. CASE Sync
  BY <1>14 DEF Sync, Disks, Calls, mounts, Flushed, Synced
<1>15. CASE Reboot
  BY <1>15, RebootStep DEF Released, Holders
<1>16. CASE KeymintTurns
  BY <1>16 DEF KeymintTurns, mounts
<1>17. CASE Write
  BY <1>17 DEF Write, Disks, Histories, mounts
<1>18. ASSUME NEW h \in Holders, Open(h) PROVE TypeOK'
  BY <1>18 DEF Open, Holders
<1>19. ASSUME NEW h \in Holders, Close(h) PROVE TypeOK'
  BY <1>19, LeaveFacts DEF Close
<1> QED
  BY <1>1, <1>2, <1>3, <1>4, <1>5, <1>6, <1>7, <1>8, <1>9, <1>10, <1>11, <1>12, <1>13, <1>14,
     <1>15, <1>16, <1>17, <1>18, <1>19, <1>20 DEF Next, Child, Recovery, Environment, Holders

-----------------------------------------------------------------------------
(***************************************************************************)
(* Every part of the invariant is kept.                                    *)
(***************************************************************************)
LEMMA NextCall ==
    ASSUME TypeOK, CallInv, [Next]_vars
    PROVE  CallInv'
<1> USE DEF CallInv
<1>1. CASE UNCHANGED vars
  BY <1>1 DEF vars, mounts, Members, ZonedDevice, UserDevices
<1>2. CASE DecryptData
  BY <1>2, DecryptDataStep
<1>3. ASSUME NEW d \in Members, MapDevice(d) PROVE CallInv'
  BY <1>3, MapDeviceStep
<1>4. CASE ChildFails
  BY <1>4, ChildFailsStep
<1>5. CASE ChildMounts
  BY <1>5, ChildMountsStep
<1>6. CASE Reap
  BY <1>6, ReapStep DEF NoChild, Idle
<1>7. CASE Start
  BY <1>7, StartStep DEF Idle
<1>20. CASE StartDE
  BY <1>20, StartDEStep DEF Idle
<1>8. ASSUME NEW u \in Users \cup {"none"}, NEW p \in Passwords \cup {NoPassword}, Request(u, p) PROVE CallInv'
  BY <1>8, RequestStep
<1>9. CASE Mount
  BY <1>9, MountStep
<1>10. CASE Rekey
  BY <1>10, RekeyStep
<1>11. CASE AutoDecrypt
  BY <1>11, AutoDecryptStep DEF DeviceKept
<1>12. CASE DecryptUser
  BY <1>12, DecryptUserStep DEF DeviceKept, Idle
<1>13. CASE UnMount
  BY <1>13, UnMountStep DEF Released
<1>14. CASE Sync
  BY <1>14, SyncStep
<1>15. CASE Reboot
  BY <1>15, RebootStep DEF Released
<1>16. CASE KeymintTurns
  BY <1>16 DEF KeymintTurns, mounts
<1>17. CASE Write
  BY <1>17, WriteStep
<1>18. ASSUME NEW h \in Holders, Open(h) PROVE CallInv'
  BY <1>18, OpenStep
<1>19. ASSUME NEW h \in Holders, Close(h) PROVE CallInv'
  BY <1>19, CloseStep
<1> QED
  BY <1>1, <1>2, <1>3, <1>4, <1>5, <1>6, <1>7, <1>8, <1>9, <1>10, <1>11, <1>12, <1>13, <1>14, <1>15, <1>16, <1>17, <1>18, <1>19, <1>20
     DEF Next, Child, Recovery, Environment, Holders

LEMMA NextDevices ==
    ASSUME TypeOK, CallInv, DevicesInv, [Next]_vars
    PROVE  DevicesInv'
<1> USE DEF CallInv, DevicesInv, DecryptedMeansMapped
<1>1. CASE UNCHANGED vars
  BY <1>1 DEF vars, mounts, Members, ZonedDevice, UserDevices
<1>2. CASE DecryptData
  BY <1>2, DecryptDataStep DEF Members, ZonedDevice, UserDevices
<1>3. ASSUME NEW d \in Members, MapDevice(d) PROVE DevicesInv'
  BY <1>3, MapDeviceStep DEF Members, ZonedDevice, UserDevices
<1>4. CASE ChildFails
  BY <1>4, ChildFailsStep DEF Members, ZonedDevice, UserDevices
<1>5. CASE ChildMounts
  BY <1>5, ChildMountsStep DEF Members, ZonedDevice, UserDevices
<1>6. CASE Reap
  BY <1>6, ReapStep DEF NoChild, Idle, Members, ZonedDevice, UserDevices
<1>7. CASE Start
  BY <1>7, StartStep DEF Idle, Members, ZonedDevice, UserDevices
<1>20. CASE StartDE
  BY <1>20, StartDEStep DEF Idle, Members, ZonedDevice, UserDevices
<1>8. ASSUME NEW u \in Users \cup {"none"}, NEW p \in Passwords \cup {NoPassword}, Request(u, p) PROVE DevicesInv'
  BY <1>8, RequestStep DEF Members, ZonedDevice, UserDevices
<1>9. CASE Mount
  BY <1>9, MountStep DEF Members, ZonedDevice, UserDevices
<1>10. CASE Rekey
  BY <1>10, RekeyStep DEF Members, ZonedDevice, UserDevices
<1>11. CASE AutoDecrypt
  BY <1>11, AutoDecryptStep DEF DeviceKept, Members, ZonedDevice, UserDevices
<1>12. CASE DecryptUser
  BY <1>12, DecryptUserStep DEF DeviceKept, Idle, Members, ZonedDevice, UserDevices
<1>13. CASE UnMount
  BY <1>13, UnMountStep DEF Released, Members, ZonedDevice, UserDevices
<1>14. CASE Sync
  BY <1>14, SyncStep DEF Members, ZonedDevice, UserDevices
<1>15. CASE Reboot
  BY <1>15, RebootStep DEF Released, Members, ZonedDevice, UserDevices
<1>16. CASE KeymintTurns
  BY <1>16 DEF KeymintTurns, mounts, Members, ZonedDevice, UserDevices
<1>17. CASE Write
  BY <1>17, WriteStep DEF Members, ZonedDevice, UserDevices
<1>18. ASSUME NEW h \in Holders, Open(h) PROVE DevicesInv'
  BY <1>18, OpenStep DEF Members, ZonedDevice, UserDevices
<1>19. ASSUME NEW h \in Holders, Close(h) PROVE DevicesInv'
  BY <1>19, CloseStep DEF Members, ZonedDevice, UserDevices
<1> QED
  BY <1>1, <1>2, <1>3, <1>4, <1>5, <1>6, <1>7, <1>8, <1>9, <1>10, <1>11, <1>12, <1>13, <1>14, <1>15, <1>16, <1>17, <1>18, <1>19, <1>20
     DEF Next, Child, Recovery, Environment, Holders

LEMMA NextKeys ==
    ASSUME TypeOK, CallInv, KeysInv, [Next]_vars
    PROVE  KeysInv'
<1> USE DEF CallInv, KeysInv, KeysAreReal
<1>1. CASE UNCHANGED vars
  BY <1>1 DEF vars, mounts, Members, ZonedDevice, UserDevices
<1>2. CASE DecryptData
  BY <1>2, DecryptDataStep
<1>3. ASSUME NEW d \in Members, MapDevice(d) PROVE KeysInv'
  BY <1>3, MapDeviceStep
<1>4. CASE ChildFails
  BY <1>4, ChildFailsStep
<1>5. CASE ChildMounts
  BY <1>5, ChildMountsStep
<1>6. CASE Reap
  BY <1>6, ReapStep DEF NoChild, Idle
<1>7. CASE Start
  BY <1>7, StartStep DEF Idle
<1>20. CASE StartDE
  BY <1>20, StartDEStep DEF Idle
<1>8. ASSUME NEW u \in Users \cup {"none"}, NEW p \in Passwords \cup {NoPassword}, Request(u, p) PROVE KeysInv'
  BY <1>8, RequestStep
<1>9. CASE Mount
  BY <1>9, MountStep
<1>10. CASE Rekey
  BY <1>10, RekeyStep
<1>11. CASE AutoDecrypt
  BY <1>11, AutoDecryptStep DEF DeviceKept
<1>12. CASE DecryptUser
  BY <1>12, DecryptUserStep DEF DeviceKept, Idle
<1>13. CASE UnMount
  BY <1>13, UnMountStep DEF Released
<1>14. CASE Sync
  BY <1>14, SyncStep
<1>15. CASE Reboot
  BY <1>15, RebootStep DEF Released
<1>16. CASE KeymintTurns
  BY <1>16 DEF KeymintTurns, mounts
<1>17. CASE Write
  BY <1>17, WriteStep
<1>18. ASSUME NEW h \in Holders, Open(h) PROVE KeysInv'
  BY <1>18, OpenStep
<1>19. ASSUME NEW h \in Holders, Close(h) PROVE KeysInv'
  BY <1>19, CloseStep
<1> QED
  BY <1>1, <1>2, <1>3, <1>4, <1>5, <1>6, <1>7, <1>8, <1>9, <1>10, <1>11, <1>12, <1>13, <1>14, <1>15, <1>16, <1>17, <1>18, <1>19, <1>20
     DEF Next, Child, Recovery, Environment, Holders

LEMMA NextFailure ==
    ASSUME TypeOK, CallInv, KeysInv, FailureInv, [Next]_vars
    PROVE  FailureInv'
<1> USE DEF CallInv, KeysInv, KeysAreReal, FailureInv, NoFalseFailure
<1>1. CASE UNCHANGED vars
  BY <1>1 DEF vars, mounts, Members, ZonedDevice, UserDevices
<1>2. CASE DecryptData
  BY <1>2, DecryptDataStep
<1>3. ASSUME NEW d \in Members, MapDevice(d) PROVE FailureInv'
  BY <1>3, MapDeviceStep
<1>4. CASE ChildFails
  BY <1>4, ChildFailsStep
<1>5. CASE ChildMounts
  BY <1>5, ChildMountsStep
<1>6. CASE Reap
  BY <1>6, ReapStep DEF NoChild, Idle
<1>7. CASE Start
  BY <1>7, StartStep DEF Idle
<1>20. CASE StartDE
  BY <1>20, StartDEStep DEF Idle
<1>8. ASSUME NEW u \in Users \cup {"none"}, NEW p \in Passwords \cup {NoPassword}, Request(u, p) PROVE FailureInv'
  BY <1>8, RequestStep
<1>9. CASE Mount
  BY <1>9, MountStep
<1>10. CASE Rekey
  BY <1>10, RekeyStep
<1>11. CASE AutoDecrypt
  BY <1>11, AutoDecryptStep DEF DeviceKept
<1>12. CASE DecryptUser
  BY <1>12, DecryptUserStep DEF DeviceKept, Idle
<1>13. CASE UnMount
  BY <1>13, UnMountStep DEF Released
<1>14. CASE Sync
  BY <1>14, SyncStep
<1>15. CASE Reboot
  BY <1>15, RebootStep DEF Released
<1>16. CASE KeymintTurns
  BY <1>16 DEF KeymintTurns, mounts
<1>17. CASE Write
  BY <1>17, WriteStep
<1>18. ASSUME NEW h \in Holders, Open(h) PROVE FailureInv'
  BY <1>18, OpenStep
<1>19. ASSUME NEW h \in Holders, Close(h) PROVE FailureInv'
  BY <1>19, CloseStep
<1> QED
  BY <1>1, <1>2, <1>3, <1>4, <1>5, <1>6, <1>7, <1>8, <1>9, <1>10, <1>11, <1>12, <1>13, <1>14, <1>15, <1>16, <1>17, <1>18, <1>19, <1>20
     DEF Next, Child, Recovery, Environment, Holders

LEMMA NextWrites ==
    ASSUME TypeOK, CallInv, WritesInv, [Next]_vars
    PROVE  WritesInv'
<1> USE DEF CallInv, WritesInv, WritesLast
<1>1. CASE UNCHANGED vars
  BY <1>1 DEF vars, mounts, Members, ZonedDevice, UserDevices
<1>2. CASE DecryptData
  BY <1>2, DecryptDataStep
<1>3. ASSUME NEW d \in Members, MapDevice(d) PROVE WritesInv'
  BY <1>3, MapDeviceStep
<1>4. CASE ChildFails
  BY <1>4, ChildFailsStep
<1>5. CASE ChildMounts
  BY <1>5, ChildMountsStep
<1>6. CASE Reap
  BY <1>6, ReapStep DEF NoChild, Idle
<1>7. CASE Start
  BY <1>7, StartStep DEF Idle
<1>20. CASE StartDE
  BY <1>20, StartDEStep DEF Idle
<1>8. ASSUME NEW u \in Users \cup {"none"}, NEW p \in Passwords \cup {NoPassword}, Request(u, p) PROVE WritesInv'
  BY <1>8, RequestStep
<1>9. CASE Mount
  BY <1>9, MountStep
<1>10. CASE Rekey
  BY <1>10, RekeyStep
<1>11. CASE AutoDecrypt
  BY <1>11, AutoDecryptStep DEF DeviceKept
<1>12. CASE DecryptUser
  BY <1>12, DecryptUserStep DEF DeviceKept, Idle
<1>13. CASE UnMount
  BY <1>13, UnMountStep DEF Released
<1>14. CASE Sync
  BY <1>14, SyncStep
<1>15. CASE Reboot
  BY <1>15, RebootStep DEF Released
<1>16. CASE KeymintTurns
  BY <1>16 DEF KeymintTurns, mounts
<1>17. CASE Write
  BY <1>17, WriteStep
<1>18. ASSUME NEW h \in Holders, Open(h) PROVE WritesInv'
  BY <1>18, OpenStep
<1>19. ASSUME NEW h \in Holders, Close(h) PROVE WritesInv'
  BY <1>19, CloseStep
<1> QED
  BY <1>1, <1>2, <1>3, <1>4, <1>5, <1>6, <1>7, <1>8, <1>9, <1>10, <1>11, <1>12, <1>13, <1>14, <1>15, <1>16, <1>17, <1>18, <1>19, <1>20
     DEF Next, Child, Recovery, Environment, Holders

-----------------------------------------------------------------------------
(***************************************************************************)
(* The inductive invariant holds.                                          *)
(***************************************************************************)
LEMMA InitIInv == Init => IInv
<1> SUFFICES ASSUME Init PROVE IInv
  OBVIOUS
<1>1. child = NoChild /\ call = Idle /\ dm = {} /\ binds = 0 /\ holders = {}
  BY DEF Init
<1>2. /\ super \in Supers /\ ~super.mounted
      /\ part \in Parts /\ ~part.decrypted
      /\ vold \in Policies /\ vold.ce = {} /\ ~vold.de
  BY DEF Init, Supers, Parts, Policies
<1>3. /\ manager \in Managers /\ manager.decrypted = {}
      /\ disk \in Disks /\ ~disk.unsaved
      /\ history \in Histories /\ ~history.failed /\ ~history.lost
  BY DEF Init, Managers, Disks, Histories
<1>4. present \subseteq AllDevices /\ keymint \in BOOLEAN
  BY DEF Init, AllDevices
<1>5. TypeOK
  BY <1>1, <1>2, <1>3, <1>4, ConstantTypes DEF TypeOK
<1>6. child.pc = "none" /\ child.mapped = {} /\ call.pc = "idle"
  BY <1>1 DEF NoChild, Idle
<1>7. CallInv
  BY <1>2, <1>6 DEF CallInv
<1>8. DevicesInv
  BY <1>2, <1>6 DEF DevicesInv, DecryptedMeansMapped
<1>9. KeysInv
  BY <1>2, <1>3 DEF KeysInv, KeysAreReal
<1>10. FailureInv
  BY <1>1, <1>2, <1>3, <1>6 DEF FailureInv, NoFalseFailure
<1>11. WritesInv
  BY <1>1, <1>2, <1>3, <1>6 DEF WritesInv, WritesLast
<1> QED
  BY <1>5, <1>7, <1>8, <1>9, <1>10, <1>11 DEF IInv

LEMMA NextIInv == IInv /\ [Next]_vars => IInv'
  BY NextType, NextCall, NextDevices, NextKeys, NextFailure, NextWrites DEF IInv

\* The type invariant, and what ties the recovery's knowledge to the kernel's.
THEOREM Invariance == Spec => []IInv
  BY InitIInv, NextIInv, PTL DEF Spec

-----------------------------------------------------------------------------
(***************************************************************************)
(* What the recovery promises of /data.                                    *)
(***************************************************************************)
\* Every variable keeps its type, however the child, keymint and the files that
\* are open behave.
THEOREM TypeCorrect == Spec => []TypeOK
<1>1. IInv => TypeOK
  BY DEF IInv
<1> QED
  BY <1>1, Invariance, PTL

\* Whatever is unmounted, detached and mounted again, neither the users shown as
\* decrypted nor the policies of vold name a key that the superblock has not.
THEOREM KeysRemainReal == Spec => []KeysAreReal
<1>1. IInv => KeysAreReal
  BY DEF IInv, KeysInv
<1> QED
  BY <1>1, Invariance, PTL

\* Is_Decrypted is set only when every device of /data is mapped, also when a
\* child was killed and another took its place.
THEOREM DecryptedIsMapped == Spec => []DecryptedMeansMapped
<1>1. IInv => DecryptedMeansMapped
  BY DEF IInv, DevicesInv
<1> QED
  BY <1>1, Invariance, PTL

\* The keys of a mounted /data are installed, or owed, or were just refused.
THEOREM RekeyIsOwed == Spec => []RekeyOwed
<1>1. IInv => RekeyOwed
  BY DEF IInv, KeysInv, RekeyOwed
<1> QED
  BY <1>1, Invariance, PTL

\* For every fstab whose fields are there and every set of companions, nothing
\* fails that the kernel, the disk or a time limit did not refuse.
THEOREM FailuresAreTrue == Spec => []NoFalseFailure
<1>1. IInv => NoFalseFailure
  BY DEF IInv, FailureInv
<1> QED
  BY <1>1, Invariance, PTL

\* What was written is there after a reboot, unless it is excused.
THEOREM WritesAreKept == Spec => []WritesLast
<1>1. IInv => WritesLast
  BY DEF IInv, WritesInv
<1> QED
  BY <1>1, Invariance, PTL

=============================================================================
