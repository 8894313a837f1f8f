---------------------------- MODULE DataPartition ----------------------------
(***************************************************************************)
(* /data as subpatch/0009, 0010, 0012, 0018, 0020, 0028, 0029 and 0035      *)
(* make the recovery handle it: a child process opens the metadata         *)
(* encryption of all its devices within a time limit, mounting commits a   *)
(* checkpoint of f2fs and installs keys again, unmounting forgets what was *)
(* known of the keys, a reboot unmounts.  The kernel keeps the keys with   *)
(* the superblock, which outlives a mount that was detached in use.        *)
(***************************************************************************)
EXTENDS Naturals, Sequences

CONSTANTS
    Users,      \* Users_List
    Owner,      \* user 0
    Secret,     \* the password of each user, "!" if there is none
    Zoned,      \* the zoned device that the fstab names
    Expansions, \* the expansion devices that the fstab names
    FileEncryption,     \* the fields of fileencryption= in the fstab
    MetadataEncryption, \* those of metadata_encryption=
    Faults      \* what may fail

NoPassword == ""  \* no credential
Omitted    == ""  \* a field of the fstab that is left out

ASSUME DataPartitionAssumption ==
    /\ Owner \in Users
    /\ NoPassword \notin {Secret[u] : u \in Users}
    /\ Zoned \notin Expansions /\ "userdata" \notin Expansions \cup {Zoned}
    /\ FileEncryption \in Seq(STRING) \ {<<>>} /\ MetadataEncryption \in Seq(STRING) \ {<<>>}
    /\ Faults \subseteq {"key", "mount", "checkpoint", "bind", "dirs", "detach"}

VARIABLES
    present, \* the companions of userdata that this phone has
    keymint, \* whether init.svc.vendor.keymint.rust-trusty runs, and answers
    dm,      \* the dm-default-key devices
    child,   \* the process that decrypts, and the devices it has mapped
    disk,    \* whether Android left a checkpoint open, and whether writes are in none
    super,   \* whether /data is mounted, and the keys its superblock has
    binds,   \* the layers of /sdcard
    holders, \* who has files of /data or /sdcard open
    part,    \* Is_Decrypted (Is_FBE goes with it) and Decrypted_Block_Device
    vold,    \* s_de_policies (fscrypt_init_user0_done goes with it) and s_ce_policies
    manager, \* isDecrypted of Users_List, tw_fbe_cached_password, tw_fbe_rekey_needed
    call,    \* where the recovery is, its tries, and whom it is to decrypt
    history  \* what the properties ask of the past

mounts == <<super, binds, holders>>
vars == <<present, keymint, dm, child, disk, mounts, part, vold, manager, call, history>>

Passwords == {Secret[u] : u \in Users}
Idle      == [pc |-> "idle", tries |-> 0, user |-> "none", password |-> NoPassword]
NoChild   == [pc |-> "none", mapped |-> {}]

\* The fstab entry of /data names its companions that exist.
UserDevices  == present \cap Expansions
ZonedDevice  == present \cap {Zoned}
Members      == {"userdata"} \cup ZonedDevice \cup UserDevices
AllDevices   == {"userdata", Zoned} \cup Expansions

Children  == [pc : {"none", "maps", "mounted", "failed"}, mapped : SUBSET AllDevices]
Disks     == [pending : BOOLEAN, unsaved : BOOLEAN]
Supers    == [mounted : BOOLEAN, de : BOOLEAN, ce : SUBSET Users]
Parts     == [decrypted : BOOLEAN, block : {"raw", "mapper"}]
Policies  == [de : BOOLEAN, ce : SUBSET Users]
Managers  == [decrypted : SUBSET Users, password : Passwords \cup {NoPassword}, rekey : BOOLEAN]
Calls     == [pc : {"idle", "wait", "started", "de", "mount", "rekey", "auto", "user", "synced", "off"},
              tries : 0..2, user : Users \cup {"none"}, password : Passwords \cup {NoPassword}]
Histories == [hindered : BOOLEAN, failed : BOOLEAN, gaveUp : BOOLEAN,
              excused : BOOLEAN, lost : BOOLEAN]

TypeOK ==
    /\ present \subseteq AllDevices /\ keymint \in BOOLEAN
    /\ dm \subseteq AllDevices
    /\ child \in Children
    /\ disk \in Disks
    /\ super \in Supers
    /\ binds \in 0..1
    /\ holders \subseteq {"mtp", "shell", "app"}
    /\ part \in Parts
    /\ vold \in Policies
    /\ manager \in Managers
    /\ call \in Calls
    /\ history \in Histories

Init ==
    /\ present \in SUBSET (Expansions \cup {Zoned}) /\ keymint \in BOOLEAN
    /\ dm = {} /\ child = NoChild
    /\ disk \in [pending : BOOLEAN, unsaved : {FALSE}]
    /\ super = [mounted |-> FALSE, de |-> FALSE, ce |-> {}]
    /\ binds = 0 /\ holders = {}
    /\ part = [decrypted |-> FALSE, block |-> "raw"]
    /\ vold = [de |-> FALSE, ce |-> {}]
    /\ manager = [decrypted |-> {}, password |-> NoPassword, rekey |-> FALSE]
    /\ call = Idle
    /\ history = [hindered |-> FALSE, failed |-> FALSE, gaveUp |-> FALSE,
                  excused |-> FALSE, lost |-> FALSE]

\* A step that fault f can make fail does, or not.
Outcomes(f) == IF f \in Faults THEN BOOLEAN ELSE {TRUE}

Default(field, cipher) == IF field = Omitted THEN cipher ELSE field

\* fbe.contents and fbe.filenames, metadata.contents
FbeContents  == Default(FileEncryption[1], "aes-256-xts")
FbeFilenames == IF Len(FileEncryption) = 1 THEN Omitted ELSE Default(FileEncryption[2], "aes-256-cts")
MetaContents == Default(MetadataEncryption[1], "aes-256-xts")

\* vold finds a cipher for contents, and for names where the flag has a place for them.
CiphersKnown == FbeContents # Omitted /\ (Len(FileEncryption) > 1 => FbeFilenames # Omitted)

-----------------------------------------------------------------------------
(***************************************************************************)
(* Decrypt_Data and its child.                                             *)
(***************************************************************************)
\* A keymint that does not run is not waited for.
DecryptData ==
    /\ call.pc = "idle" /\ ~part.decrypted
    /\ keymint
    /\ child' = [pc |-> "maps", mapped |-> {}]
    /\ call' = [call EXCEPT !.pc = "wait"]
    /\ UNCHANGED <<present, keymint, dm, disk, mounts, part, vold, manager, history>>

KeyDirZonedOnly ==  \* mutant: a phone with expansion devices only keeps the key in the directory itself
    IF ZonedDevice # {} THEN "default" ELSE "."
\* The directory of the key of userdata.
KeyDir ==
    IF ZonedDevice # {} \/ UserDevices # {} THEN "default" ELSE "."

\* Where the vold of Android keeps the key of a device.
StoredIn(d) ==
    CASE d # "userdata"          -> d
      [] Members = {"userdata"}  -> "."
      [] OTHER                   -> "default"

\* A key is found under the basename of its device, and a name is given to one device.
Mappable(d) ==
    /\ d \notin dm /\ MetaContents # Omitted
    /\ (IF d = "userdata" THEN KeyDir ELSE d) = StoredIn(d)

MapDevice(d) ==
    /\ child.pc = "maps" /\ d \in Members \ child.mapped
    /\ keymint /\ Mappable(d)
    /\ dm' = dm \cup {d}
    /\ child' = [child EXCEPT !.mapped = @ \cup {d}]
    /\ UNCHANGED <<present, keymint, disk, mounts, part, vold, manager, call, history>>

Refused == "key" \in Faults /\ keymint
DiskFails == "mount" \in Faults /\ child.mapped = Members

\* A name that an earlier attempt left, or a key that is not there, ends the attempt.
ChildFails ==
    /\ child.pc = "maps"
    /\ Refused \/ DiskFails \/ \E d \in Members \ child.mapped : ~Mappable(d)
    /\ child' = [child EXCEPT !.pc = "failed"]
    /\ history' = [history EXCEPT !.hindered = @ \/ Refused \/ DiskFails]
    /\ UNCHANGED <<present, keymint, dm, disk, mounts, part, vold, manager, call>>

\* fs_mgr_do_mount in the child: the mount is the recovery's as well.
ChildMounts ==
    /\ child.pc = "maps" /\ child.mapped = Members
    /\ super' = [super EXCEPT !.mounted = TRUE]
    /\ child' = [child EXCEPT !.pc = "mounted"]
    /\ UNCHANGED <<present, keymint, dm, disk, binds, holders, part, vold, manager, call, history>>

LateNever == FALSE  \* mutant: the recovery waits for its child as long as it takes
\* 120 seconds have passed.
Late == child.pc \in {"maps", "mounted"}

DecryptedUnlessFailed(killed) == child.pc # "failed"  \* mutant: only an exit with an error counts
Decrypted(killed) == ~killed /\ child.pc = "mounted"

\* The recovery has its child's exit status, or kills it.
Reap ==
    /\ call.pc = "wait"
    /\ \E killed \in {Late, FALSE} :
        /\ killed \/ child.pc \in {"mounted", "failed"}
        /\ IF Decrypted(killed)
           THEN /\ part' = [decrypted |-> TRUE, block |-> "mapper"]
                /\ call' = [call EXCEPT !.pc = "started"]
                /\ UNCHANGED history
           ELSE /\ call' = Idle
                /\ history' = [history EXCEPT !.hindered = @ \/ killed, !.failed = TRUE,
                                              !.excused = @ \/ super.mounted]
                /\ UNCHANGED part
    /\ child' = NoChild
    /\ UNCHANGED <<present, keymint, dm, disk, mounts, vold, manager>>

-----------------------------------------------------------------------------
(***************************************************************************)
(* Keys, the checkpoint and /sdcard.                                       *)
(***************************************************************************)
CommittedNever(d, ok) == d  \* mutant: /data is used as it was mounted
\* The remount with checkpoint=enable: what was written so far stays.
Committed(d, ok) == IF ok THEN [pending |-> FALSE, unsaved |-> FALSE] ELSE d

\* What Android's own directories come to is a warning, for user 0 and for a user who is unlocked.
User0Prepared(ok) == TRUE
CePrepared(ok)    == TRUE

BindMountAgain(b, ok) == IF ok THEN b + 1 ELSE b  \* mutant: a layer on the layer
BindMount(b, ok) == IF b > 0 \/ ~ok THEN b ELSE b + 1

\* Decrypt_DE: a policy that vold has is not installed again.
DecryptDE(key) ==
    /\ super' = [super EXCEPT !.de = @ \/ (key /\ ~vold.de)]
    /\ vold' = [vold EXCEPT !.de = @ \/ key]

\* Decrypt_User: the owner opens the others with the same password, or with none.
OpenedBy(u, p) == {u} \cup (IF u = Owner THEN {v \in Users : Secret[v] \in {p, "!"}} ELSE {})

Opens(u, p, key) == super.de /\ p = Secret[u] /\ key

\* Decrypt_Device, its Post_Decrypt and the credential it remembers.
DecryptDevice(u, p, dirs, bound) ==
    LET opened == OpenedBy(u, p) IN
    /\ super' = [super EXCEPT !.ce = @ \cup (opened \ vold.ce)]
    /\ vold' = [vold EXCEPT !.ce = @ \cup opened]
    /\ IF CePrepared(dirs)
       THEN /\ manager' = [manager EXCEPT !.decrypted = @ \cup opened, !.password = p]
            /\ binds' = IF u = Owner THEN BindMount(binds, bound) ELSE binds
            /\ UNCHANGED history
       ELSE /\ history' = [history EXCEPT !.failed = TRUE]
            /\ UNCHANGED <<manager, binds>>

\* MTP is restarted where it is enabled.
RestartMtp == holders' \in {holders \ {"mtp"}, holders \cup {"mtp"}}

-----------------------------------------------------------------------------
(***************************************************************************)
(* The recovery, one thread.                                               *)
(***************************************************************************)
\* The rest of Decrypt_Data: /data is mounted already ...
Start ==
    /\ call.pc = "started"
    /\ \E ok \in Outcomes("checkpoint") :
        /\ disk' = Committed(disk, ok)
        /\ history' = [history EXCEPT !.excused = @ \/ ~ok]
    /\ call' = [call EXCEPT !.pc = "de"]
    /\ UNCHANGED <<present, keymint, dm, child, mounts, part, vold, manager>>

\* The recovery asks for keys itself from here on, and nothing limits its wait for the answer.
Asks == {"de", "rekey", "auto", "user"}

\* ... and Decrypt_FBE_DE, which gets to keymint if vold has its ciphers.
StartDE ==
    /\ call.pc = "de"
    /\ CiphersKnown => keymint
    /\ \E key \in Outcomes("key"), dirs \in Outcomes("dirs") :
        LET done == key /\ CiphersKnown IN
        /\ DecryptDE(done)
        /\ history' = [history EXCEPT !.gaveUp = ~done, !.hindered = @ \/ ~key,
                                      !.failed = @ \/ ~done \/ ~User0Prepared(dirs)]
    /\ RestartMtp
    /\ call' = Idle
    /\ UNCHANGED <<present, keymint, dm, child, disk, binds, part, manager>>

\* /data is wanted, for itself or for a user who gives a password.
Request(u, p) ==
    /\ call.pc = "idle" /\ part.decrypted
    /\ u = "none" => (p = NoPassword /\ ~super.mounted)
    /\ call' = [pc |-> "mount", tries |-> 0, user |-> u, password |-> p]
    /\ UNCHANGED <<present, keymint, dm, child, disk, mounts, part, vold, manager, history>>

\* A /data that is mounted is left as it is; a /sdcard that cannot be made ends the call.
Mount ==
    /\ call.pc = "mount"
    /\ IF super.mounted
       THEN call' = [call EXCEPT !.pc = "user"] /\ UNCHANGED <<super, disk, binds, history>>
       ELSE \/ /\ "mount" \in Faults
               /\ call' = Idle
               /\ UNCHANGED <<super, disk, binds, history>>
            \/ \E ok \in Outcomes("checkpoint"), bound \in Outcomes("bind") :
                /\ super' = [super EXCEPT !.mounted = TRUE]
                /\ disk' = Committed(disk, ok)
                /\ binds' = BindMount(binds, bound)
                /\ history' = [history EXCEPT !.excused = @ \/ ~ok, !.hindered = @ \/ (binds' = 0)]
                /\ call' = IF binds' = 0 THEN Idle
                           ELSE [call EXCEPT !.pc = IF manager.rekey THEN "rekey" ELSE "user"]
    /\ UNCHANGED <<present, keymint, dm, child, holders, part, vold, manager>>

\* Three tries; the need is taken for served in the end.
Rekey ==
    /\ call.pc = "rekey"
    /\ CiphersKnown => keymint
    /\ \E key \in Outcomes("key"), dirs \in Outcomes("dirs") :
        LET last == call.tries = 2
            done == key /\ CiphersKnown /\ User0Prepared(dirs) IN
        /\ DecryptDE(key /\ CiphersKnown)
        /\ call' = IF ~done /\ ~last THEN [call EXCEPT !.tries = @ + 1]
                   ELSE [call EXCEPT !.tries = 0,
                                     !.pc = IF done /\ manager.password # NoPassword THEN "auto" ELSE "user"]
        /\ manager' = [manager EXCEPT !.rekey = (~done /\ ~last)]
        /\ history' = [history EXCEPT !.hindered = @ \/ ~key, !.gaveUp = (~done /\ last),
                                      !.failed = @ \/ ~done]
    /\ UNCHANGED <<present, keymint, dm, child, disk, binds, holders, part>>

\* Without the system's keys no file of a user is read, and keymint is not asked.
Answered == super.de => keymint

\* The cached credential is tried for the owner, whosever it is.
AutoDecrypt ==
    /\ call.pc = "auto"
    /\ Answered
    /\ \E key \in Outcomes("key"), dirs \in Outcomes("dirs"), bound \in Outcomes("bind") :
        IF Opens(Owner, manager.password, key)
        THEN DecryptDevice(Owner, manager.password, dirs, bound) /\ RestartMtp
        ELSE /\ manager' = [manager EXCEPT !.password = NoPassword]
             /\ UNCHANGED <<super, vold, binds, holders, history>>
    /\ call' = [call EXCEPT !.pc = "user"]
    /\ UNCHANGED <<present, keymint, dm, child, disk, part>>

\* The user for whom /data was wanted, if he needs it still.
DecryptUser ==
    /\ call.pc = "user"
    /\ Answered \/ call.user = "none" \/ call.user \in manager.decrypted
    /\ call' = Idle
    /\ \E key \in Outcomes("key"), dirs \in Outcomes("dirs"), bound \in Outcomes("bind") :
        IF call.user = "none" \/ call.user \in manager.decrypted
        THEN UNCHANGED <<super, vold, binds, holders, manager, history>>
        ELSE IF Opens(call.user, call.password, key)
        THEN DecryptDevice(call.user, call.password, dirs, bound) /\ RestartMtp
        ELSE /\ history' = [history EXCEPT !.failed = @ \/ (call.password = Secret[call.user]),
                                           !.hindered = @ \/ ~key]
             /\ UNCHANGED <<super, vold, binds, holders, manager>>
    /\ UNCHANGED <<present, keymint, dm, child, disk, part>>

Synced(d) == [d EXCEPT !.unsaved = @ /\ d.pending]

ForgottenUsersOnly(v) == v  \* mutant: vold keeps its policies
\* fscrypt_reset_key_caches
Forgotten(v) == [de |-> FALSE, ce |-> {}]

\* A superblock lives as long as it is mounted somewhere or has an open file; with it go its keys.
Leave(layers, open) ==
    IF layers = 0 /\ open = {}
    THEN /\ super' = [mounted |-> FALSE, de |-> FALSE, ce |-> {}]
         /\ disk' = Synced(disk)
    ELSE /\ super' = [super EXCEPT !.mounted = FALSE]
         /\ UNCHANGED disk

OwingNothing(m) == [m EXCEPT !.decrypted = {}]  \* mutant: a reset without the need to install keys again
\* Reset_Users_Decryption_Status, and tw_fbe_rekey_needed
Owing(m) == [m EXCEPT !.decrypted = {}, !.rekey = TRUE]

\* What was known of the keys is void; the mapper and Is_Decrypted stay.
Reset ==
    IF part.decrypted
    THEN vold' = Forgotten(vold) /\ manager' = Owing(manager)
    ELSE UNCHANGED <<vold, manager>>

\* TWPartition::UnMount: a /data in use is detached; where that fails /sdcard is gone all the same.
UnMount ==
    /\ call.pc = "idle" /\ super.mounted
    /\ binds' = IF "app" \in holders THEN binds ELSE 0
    /\ \E ok \in Outcomes("detach") :
        IF ok \/ holders \cap {"mtp", "shell"} = {}
        THEN Leave(binds', holders) /\ Reset /\ history' = [history EXCEPT !.gaveUp = FALSE]
        ELSE UNCHANGED <<super, disk, vold, manager, history>>
    /\ UNCHANGED <<present, keymint, dm, child, holders, part, call>>

\* sync
Flushed(d) == Synced(d)

\* A reboot writes everything before it takes anything away ...
Sync ==
    /\ call.pc = "idle"
    /\ disk' = Flushed(disk)
    /\ call' = [call EXCEPT !.pc = "synced"]
    /\ UNCHANGED <<present, keymint, dm, child, mounts, part, vold, manager, history>>

\* ... and unmounts, by force at last; what is in no checkpoint then is lost.
Reboot ==
    /\ call.pc = "synced"
    /\ IF super.mounted
       THEN holders' = holders \ {"mtp"} /\ binds' = 0 /\ Leave(0, holders') /\ Reset
       ELSE UNCHANGED <<mounts, disk, vold, manager>>
    /\ history' = [history EXCEPT !.lost = disk'.unsaved]
    /\ call' = [call EXCEPT !.pc = "off"]
    /\ UNCHANGED <<present, keymint, dm, child, part>>

-----------------------------------------------------------------------------
(***************************************************************************)
(* What else runs: init's keymint, MTP, a shell, programs on /sdcard.      *)
(***************************************************************************)
Running == call.pc # "off"

\* It stops, hangs or comes back; of interest until /data is decrypted, and to who asks it.
KeymintTurns ==
    /\ Running
    /\ ~part.decrypted \/ call.pc \in Asks
    /\ keymint' = ~keymint
    /\ UNCHANGED <<present, dm, child, disk, mounts, part, vold, manager, call, history>>

Open(h) ==
    /\ Running /\ h \notin holders
    /\ IF h = "app" THEN binds > 0 ELSE super.mounted
    /\ holders' = holders \cup {h}
    /\ UNCHANGED <<present, keymint, dm, child, disk, super, binds, part, vold, manager, call, history>>

Close(h) ==
    /\ Running /\ h \in holders
    /\ holders' = holders \ {h}
    /\ IF super.mounted THEN UNCHANGED <<super, disk>> ELSE Leave(binds, holders')
    /\ UNCHANGED <<present, keymint, dm, child, binds, part, vold, manager, call, history>>

\* A file written after the sync of a reboot is its writer's risk.
Write ==
    /\ Running
    /\ super.mounted \/ holders # {}
    /\ disk' = [disk EXCEPT !.unsaved = TRUE]
    /\ history' = [history EXCEPT !.excused = @ \/ call.pc = "synced"]
    /\ UNCHANGED <<present, keymint, dm, child, mounts, part, vold, manager, call>>

-----------------------------------------------------------------------------
Child == (\E d \in Members : MapDevice(d)) \/ ChildFails \/ ChildMounts

Recovery == Reap \/ Start \/ StartDE \/ Mount \/ Rekey \/ AutoDecrypt \/ DecryptUser \/ Reboot

Environment ==
    \/ KeymintTurns \/ Write
    \/ \E h \in {"mtp", "shell", "app"} : Open(h) \/ Close(h)

Next ==
    \/ DecryptData \/ UnMount \/ Sync \/ Request("none", NoPassword)
    \/ \E u \in Users, p \in Passwords : Request(u, p)
    \/ Child \/ Recovery \/ Environment

\* The recovery's thread runs; nothing is assumed of its child, of keymint or of who has files open.
Spec == Init /\ [][Next]_vars /\ WF_vars(Recovery)

-----------------------------------------------------------------------------
\* A user who is shown as decrypted on a mounted /data has his keys in the kernel, and vold takes
\* no key for installed that is not: after an unmount Reset_FBE_Caches and
\* Reset_Users_Decryption_Status leave nothing of an earlier superblock to be believed.
KeysAreReal ==
    /\ super.mounted => /\ manager.decrypted \cup vold.ce \subseteq super.ce
                        /\ vold.de => super.de
    /\ ~super.mounted => manager.decrypted = {} /\ vold.ce = {} /\ ~vold.de

\* Is_Decrypted is set for good, so it is set only when all the devices of /data are mapped, and
\* Mount uses the mapper from then on, however the child ended.
DecryptedMeansMapped ==
    part.decrypted => Members \subseteq dm /\ part.block = "mapper"

\* No attempt to decrypt /data or to open a user with his own password fails unless a key or the
\* disk was refused, /sdcard could not be made or a child was killed: neither the layout of the
\* phone's devices nor the directories of Android are a reason.
NoFalseFailure == history.failed => history.hindered

\* On a /data that is mounted and decrypted the system's keys are installed, or tw_fbe_rekey_needed
\* says that they are owed, or the recovery has just tried and failed.
RekeyOwed ==
    (call.pc = "idle" /\ part.decrypted /\ super.mounted /\ ~super.de)
        => manager.rekey \/ history.gaveUp

\* What is written in the recovery is there after the reboot, also when Android left a checkpoint
\* open or a program keeps /data busy, unless the kernel refused to commit the checkpoint, the child
\* was killed after its mount, or it was written while /data was being taken away.
WritesLast == history.lost => history.excused

\* However the child, and keymint under it, hang, the recovery comes back to its user.  Where it asks
\* for keys in its own thread (Decrypt_DE, Decrypt_User) it comes back unless keymint is silent:
\* that wait has no end of its own.
ComesToAnEnd ==
    (call.pc \notin {"idle", "off"})
        ~> (call.pc \in {"idle", "off"} \/ (call.pc \in Asks /\ ~keymint))

=============================================================================
