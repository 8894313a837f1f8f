------------------------------ MODULE DataWipes ------------------------------
(***************************************************************************)
(* Everything else that might wipe /data, around Format Data: the boot     *)
(* message that Android leaves for the recovery, the powerwash of an       *)
(* update that the recovery installs, the script the recovery runs when    *)
(* it starts, and the other paths of TWRP into a mkfs.  The patches 0016,  *)
(* 0017, 0042 and 0047 close them one by one.                              *)
(***************************************************************************)
EXTENDS FormatData

CONSTANT Others  \* the other partitions that TWRP may format

ASSUME DataWipesAssumption == "/data" \notin Others

VARIABLES
    message,   \* the command of the boot message in misc
    started,   \* whether the recovery has read it since it started
    script,    \* the commands of the script that wait to be run
    byHand,    \* whether someone at the phone began the last Format Data
    formatted  \* the other partitions that were formatted

wipes    == <<message, started, script, byHand, formatted>>
allVars  == <<vars, wipes>>

InitWipes ==
    /\ Init
    /\ message \in {"none", "wipe_data", "wipe_cache"}
    /\ started = FALSE /\ script = {} /\ byHand = FALSE /\ formatted = {}

WipesTypeOK ==
    /\ TypeOK
    /\ message \in {"none", "wipe_data", "wipe_cache"} /\ script \subseteq {"format data", "wipe cache"}
    /\ started \in BOOLEAN /\ byHand \in BOOLEAN /\ formatted \subseteq Others

-----------------------------------------------------------------------------
CommandsOfOld(m) ==  \* mutant: as without 0047
    CASE m = "wipe_cache" -> {"wipe cache"} [] m = "wipe_data" -> {"format data"} [] OTHER -> {}
CommandsOf(m) == IF m = "wipe_cache" THEN {"wipe cache"} ELSE {}

\* startupArgs::processRecoveryArgs
ReadMessage ==
    /\ ~started
    /\ started' = TRUE
    /\ script' = script \cup CommandsOf(message)
    /\ message' = "none"
    /\ UNCHANGED <<vars, byHand, formatted>>

\* The action thread takes the commands of the script, or of someone at the phone.
RunScript(c) ==
    /\ started /\ c \in script
    /\ script' = script \ {c}
    /\ IF c = "format data"
       THEN Begin /\ byHand' = FALSE
       ELSE format.pc = "idle" /\ UNCHANGED <<vars, byHand>>
    /\ UNCHANGED <<message, started, formatted>>

Ask == started /\ Begin /\ byHand' = TRUE /\ UNCHANGED <<message, started, script, formatted>>

\* An update, also one that is older than what it replaces, or one that wants the data gone.
Powerwashed == message  \* HardwareAndroid::SchedulePowerwash
Required(older, wash) == wash  \* DeltaPerformer::CheckSPLDowngrade adds nothing for an older one

InstallUpdate ==
    /\ started /\ format.pc = "idle"
    /\ \E older, wash \in BOOLEAN : message' = IF Required(older, wash) THEN Powerwashed ELSE message
    /\ UNCHANGED <<vars, started, script, byHand, formatted>>

\* A format, a change of file system, a restore of another one: by hand, and refused for /data in
\* each of Wipe_Encryption, Wipe_EXT4 and Wipe_F2FS.
Refused(how, path) == path = "/data"

Mkfs(how, path) ==
    /\ started /\ format.pc = "idle"
    /\ ~Refused(how, path)
    /\ IF path = "/data"
       THEN /\ mounts = {} /\ userdata' = [start |-> "superblock", rest |-> "gone"]
            /\ UNCHANGED <<dataVars, keyVars, weaver, format, reply, formatted>>
       ELSE formatted' = formatted \cup {path} /\ UNCHANGED vars
    /\ UNCHANGED <<message, started, script, byHand>>

\* Android, or its init after boots that failed, may leave a message before the recovery starts again.
RebootWithMessage ==
    /\ Reboot
    /\ started' = FALSE /\ script' = {}
    /\ message' \in {message, "wipe_data", "wipe_cache"}
    /\ UNCHANGED <<byHand, formatted>>

Inside ==
    \/ MountData \/ UnmountData \/ FormatStep \/ ShellBinds \/ FsWrites \/ InitReapsWeaver
    \/ \E u \in Users : OpenFile(u) \/ CloseFile(u)

NextWipes ==
    \/ Inside /\ UNCHANGED wipes
    \/ ReadMessage \/ (\E c \in script : RunScript(c)) \/ Ask \/ InstallUpdate \/ RebootWithMessage
    \/ \E how \in {"Wipe_Encryption", "Wipe_EXT4", "Wipe_F2FS"}, path \in Others \cup {"/data"} : Mkfs(how, path)

\* As in Format Data, the action thread runs.
SpecWipes == InitWipes /\ [][NextWipes]_allVars /\ WF_allVars(FormatStep /\ UNCHANGED wipes)

-----------------------------------------------------------------------------
\* Whatever Android asks for, whatever an update wants, and whichever page of TWRP is used: the
\* data goes in a Format Data that someone at the phone began, and in no other way.
OnlyAskedFor ==
    [][userdata'.rest # userdata.rest => byHand /\ format.pc \in {"erase", "discard"}]_allVars
=============================================================================
