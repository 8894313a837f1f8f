------------------------------ MODULE EarlyInit ------------------------------
(***************************************************************************)
(* The first things the second stage of init does, before it reads its     *)
(* scripts: a child copies the ramdisk as it came from the image, for a    *)
(* later reflash, then a child unpacks the programs that the build has     *)
(* packed.  init waits for each child, and goes on however it ended.       *)
(***************************************************************************)
EXTENDS Naturals, FiniteSets

CONSTANTS
    Files,    \* the files of the ramdisk
    Packed    \* those that the build has packed, and listed in lgz_compressed_files.txt

ASSUME EarlyInitAssumption == Packed \subseteq Files

VARIABLES
    stage,   \* what init is at: "snapshot", "lgz", "services"
    child,   \* its child: "none", "running", "failed", or "ended" with status 0
    todo,    \* the files that the child has not come to
    file,    \* the form of each file: "packed", "plain", or "cut"
    copy,    \* and of its copy in /dev/ramdisk_snapshot, "none" while there is no whole one
    tmp,     \* the .lgz_tmp file that waits to be renamed, and its form
    bare,    \* the files that were put in their place and are not executable yet
    status,  \* how the child of each stage ended, as init saw it
    full     \* whether a write was ever cut short by a full file system

initvars == <<stage, child, todo, file, copy, tmp, bare, status, full>>

Image == [f \in Files |-> IF f \in Packed THEN "packed" ELSE "plain"]
NoTmp == [of |-> "none", form |-> "none"]

\* What the manifest of a stage lists; without a manifest there is no child.
Manifest(s) == IF s = "snapshot" THEN Files ELSE Packed

AfterUnpackFirst(s) ==  \* mutant: the copy is made of what is unpacked
    CASE s = "start" -> "lgz" [] s = "lgz" -> "snapshot" [] s = "snapshot" -> "services"
After(s) == CASE s = "start" -> "snapshot" [] s = "snapshot" -> "lgz" [] s = "lgz" -> "services"

InitEarly ==
    /\ stage = After("start")
    /\ child = "none" /\ todo = {} /\ tmp = NoTmp /\ bare = {}
    /\ file = Image /\ copy = [f \in Files |-> "none"]
    /\ status = [s \in {"snapshot", "lgz"} |-> "none"]
    /\ full = FALSE

EarlyTypeOK ==
    /\ stage \in {"snapshot", "lgz", "services"} /\ child \in {"none", "running", "failed", "ended"}
    /\ todo \subseteq Files /\ bare \subseteq Files
    /\ tmp \in [of : Files \cup {"none"}, form : {"none", "plain", "cut"}]
    /\ file \in [Files -> {"packed", "plain", "cut"}]
    /\ copy \in [Files -> {"none", "packed", "plain"}]
    /\ status \in [{"snapshot", "lgz"} -> {"none", "ok", "failed"}] /\ full \in BOOLEAN

-----------------------------------------------------------------------------
\* init, in SecondStageMain
Leave(result) ==
    /\ stage' = After(stage)
    /\ status' = [status EXCEPT ![stage] = result]
    /\ child' = "none" /\ todo' = {}

Fork ==
    /\ stage # "services" /\ child = "none"
    /\ IF Manifest(stage) = {}
       THEN Leave("none")
       ELSE \/ child' = "running" /\ todo' = Manifest(stage) /\ UNCHANGED <<stage, status>>
            \/ Leave("failed")
    /\ UNCHANGED <<file, copy, tmp, bare, full>>

WaitPid ==
    /\ child \in {"failed", "ended"}
    /\ Leave(IF child = "ended" THEN "ok" ELSE "failed")
    /\ UNCHANGED <<file, copy, tmp, bare, full>>

-----------------------------------------------------------------------------
\* ramdisk_snapshot: one file; a copy that fails is counted, and the next file follows.
CopyFile(f) ==
    /\ stage = "snapshot" /\ child = "running" /\ f \in todo
    /\ todo' = todo \ {f}
    /\ \/ copy' = [copy EXCEPT ![f] = file[f]]
       \/ UNCHANGED copy
    /\ UNCHANGED <<stage, child, file, tmp, bare, status, full>>

DecompressInPlace(f) ==  \* mutant: the packed form is written over
    /\ stage = "lgz" /\ child = "running" /\ f \in todo /\ tmp = NoTmp /\ bare = {}
    /\ todo' = todo \ {f} /\ tmp' = [of |-> f, form |-> "plain"]
    /\ file' = [file EXCEPT ![f] = "cut"]
    /\ UNCHANGED <<stage, child, copy, bare, status, full>>
\* lgz decompress_all: a file is unpacked beside its packed form; what does not unpack (the magic
\* number, memory) is left as it is.  The write itself is not checked.
Decompress(f) ==
    /\ stage = "lgz" /\ child = "running" /\ f \in todo /\ tmp = NoTmp /\ bare = {}
    /\ todo' = todo \ {f}
    /\ \/ /\ file[f] = "packed"
          /\ \/ tmp' = [of |-> f, form |-> "plain"] /\ UNCHANGED full
             \/ tmp' = [of |-> f, form |-> "cut"] /\ full' = TRUE
       \/ UNCHANGED <<tmp, full>>
    /\ UNCHANGED <<stage, child, file, copy, bare, status>>

\* ... and put in its place, or removed when that fails ...
Rename ==
    /\ child = "running" /\ tmp # NoTmp
    /\ \/ file' = [file EXCEPT ![tmp.of] = tmp.form] /\ bare' = {tmp.of}
       \/ UNCHANGED <<file, bare>>
    /\ tmp' = NoTmp
    /\ UNCHANGED <<stage, child, todo, copy, status, full>>

\* ... where it is given the permissions of the manifest.
Chmod ==
    /\ child = "running" /\ bare # {}
    /\ bare' = {}
    /\ UNCHANGED <<stage, child, todo, file, copy, tmp, status, full>>

\* The status of ramdisk_snapshot tells of failures, that of lgz never does.
Exit ==
    /\ child = "running" /\ todo = {} /\ tmp = NoTmp /\ bare = {}
    /\ child' = IF stage = "snapshot" /\ \E f \in Files : copy[f] = "none" THEN "failed" ELSE "ended"
    /\ UNCHANGED <<stage, todo, file, copy, tmp, bare, status, full>>

\* The program cannot be executed, or crashes.
Die ==
    /\ child = "running"
    /\ child' = "failed"
    /\ UNCHANGED <<stage, todo, file, copy, tmp, bare, status, full>>

NextEarly ==
    \/ Fork \/ WaitPid \/ Rename \/ Chmod \/ Exit \/ Die
    \/ \E f \in Files : CopyFile(f) \/ Decompress(f)

-----------------------------------------------------------------------------
\* A snapshot that init holds for good is the image, file by file, in the form in which the image
\* has it: a reflash made of it is the same image.
SnapshotIsTheImage == status["snapshot"] = "ok" => copy = Image

\* Wherever the unpacking is cut off, each file is its packed form or the whole program, unless the
\* file system was full, and all but the one it was at can be executed.
PackedOrWhole ==
    /\ (\E f \in Files : file[f] = "cut") => full
    /\ \A f \in bare : bare = {f} /\ status["lgz"] # "ok"
=============================================================================
