------------------------------ MODULE GptUtils ------------------------------
(***************************************************************************)
(* The partition table editor of the boot control HAL                      *)
(* (pixel-source/bootctrl/1.2/GptUtils.cpp) over a buffered block device.  *)
(*                                                                         *)
(* The device holds four regions: the primary header and entry array and   *)
(* the backup ones.  A header is abstracted to the entry array its crc     *)
(* was computed over, so that "the crc matches" is an equality.  write(2)  *)
(* reaches the page cache at once and the media when the kernel flushes    *)
(* it, region by region and in any order; a power cut keeps the media.     *)
(*                                                                         *)
(* A header that was not read is what the stack holds, and the places it   *)
(* names are any: of a write to such a place the model keeps what it does  *)
(* to the four regions.                                                    *)
(***************************************************************************)
CONSTANTS
    Slots,     \* the A/B slots: boot_a and boot_b have one entry each
    Attrs,     \* attribute words of an entry
    Blank,     \* an entry array of zeros, what resize() leaves
    Empty,     \* the array of no entries of an object whose Load came to none
    Junk,      \* entry arrays without boot entries, what a stray write leaves
    Reach,     \* the regions that a write to a place that was never read may hit
    Invalid    \* a header without its signature, or with a wrong place for its entries

VARIABLES
    cached,    \* the regions as read(2) sees them
    media,     \* the regions as a power cut leaves them
    gpt        \* the GptUtils object of the call being served

gptVars == <<cached, media, gpt>>

Table   == [Slots -> Attrs]
Arrays  == Table \cup {Blank, Empty} \cup Junk
Content == Arrays \cup {Invalid}

\* The regions, in the order Sync writes them.
Regions == {"header", "entries", "backupEntries", "backupHeader"}
Device  == [Regions -> Content]

Headers == {"header", "backupHeader"}

\* The two copies: each lies in one piece, at its own end of the device.
Copies == {{"header", "entries"}, {"backupEntries", "backupHeader"}}

Steps == {"closed", "loaded"} \cup Regions \cup {"fsync"}

Closed == [step |-> "closed", array |-> Blank, crc |-> Blank, backup |-> FALSE]

GptTypeOK ==
    /\ cached \in Device
    /\ media \in Device
    /\ gpt \in [step : Steps, array : Content, crc : Content, backup : BOOLEAN]

Formatted(t) == [r \in Regions |-> t]

-----------------------------------------------------------------------------
(***************************************************************************)
(* Load: the primary header's signature and sizes are checked, no crc is;  *)
(* of the backup header an invalid one is only warned about.  gpt.backup   *)
(* says whether the object holds the backup header of this device.         *)
(***************************************************************************)
Loaded(array, backup) ==
    /\ gpt.step = "closed"
    /\ cached["header"] # Invalid
    /\ gpt' = [step |-> "loaded", array |-> array, crc |-> cached["header"], backup |-> backup]
    /\ UNCHANGED <<cached, media>>

\* A Load whose caller then leaves array in the object.
LoadAs(array) == Loaded(array, cached["backupHeader"] # Invalid)

\* open() fails: the object keeps fd = -1 and its destructor's writes fail.
LoadCannotOpen ==
    /\ gpt.step = "closed"
    /\ UNCHANGED gptVars

\* What a write of entries, or of a header, at an address that was never read
\* does to the regions it happens to hit.
Stray(hit, header, array) ==
    cached' = [r \in Regions |->
        IF r \notin hit THEN cached[r] ELSE IF r \in Headers THEN header ELSE array]

\* The primary header is unreadable or invalid: the destructor syncs an empty
\* array, and so writes two headers, to the places that the object holds; those
\* may be an earlier object's, left on the stack, and the right ones.
LoadCannotReadHeader ==
    /\ gpt.step = "closed"
    /\ \/ UNCHANGED cached
       \/ \E r, s \in Reach, header \in {Empty, Invalid}, junk \in Junk : Stray({r, s}, header, junk)
    /\ UNCHANGED <<media, gpt>>

\* The entries are unreadable: the array holds the zeros of resize(), the backup
\* header is not read, and the object is still open, so its destructor will Sync.
LoadCannotReadEntries == \E leftover \in BOOLEAN : Loaded(Blank, leftover)

\* The backup header is unreadable: the entries were read, but are not looked up.
LoadCannotReadBackup == \E leftover \in BOOLEAN : Loaded(cached["entries"], leftover)

-----------------------------------------------------------------------------
(***************************************************************************)
(* Sync, one action per system call.  The first compares the new header    *)
(* crc with the loaded one; equal crcs end it.                             *)
(***************************************************************************)
SyncSkips ==
    /\ gpt.step = "loaded"
    /\ gpt.array = gpt.crc
    /\ gpt' = Closed
    /\ UNCHANGED <<cached, media>>

WriteRegion(r, next) ==
    /\ cached' = [cached EXCEPT ![r] = gpt.array]
    /\ gpt' = [gpt EXCEPT !.step = next, !.crc = gpt.array]
    /\ UNCHANGED media

SyncWritesBothHeaders ==  \* mutant: the headers first, then the arrays
    /\ gpt.step = "loaded"
    /\ gpt.array # gpt.crc
    /\ cached' = [cached EXCEPT !["header"] = gpt.array, !["backupHeader"] = gpt.array]
    /\ gpt' = [gpt EXCEPT !.step = "entries", !.crc = gpt.array]
    /\ UNCHANGED media

SyncWritesHeader ==
    /\ gpt.step = "loaded"
    /\ gpt.array # gpt.crc
    /\ WriteRegion("header", "entries")

SyncWritesEntries ==
    /\ gpt.step = "entries"
    /\ WriteRegion("entries", "backupEntries")

SyncWritesBackupEntries ==
    /\ gpt.step = "backupEntries"
    /\ gpt.backup
    /\ WriteRegion("backupEntries", "backupHeader")

\* Without a backup header the place of the backup entries is any.
SyncStrays ==
    /\ gpt.step = "backupEntries"
    /\ ~gpt.backup
    /\ \E copy \in Copies : \E hit \in SUBSET (copy \cap Reach), array \in Junk \cup {gpt.array} :
         Stray(hit, Invalid, array)
    /\ gpt' = [gpt EXCEPT !.step = "backupHeader"]
    /\ UNCHANGED media

\* The header goes to the place the primary header names, whatever it is.
SyncWritesBackupHeader ==
    /\ gpt.step = "backupHeader"
    /\ cached' = [cached EXCEPT !["backupHeader"] = IF gpt.backup THEN gpt.array ELSE Invalid]
    /\ gpt' = [gpt EXCEPT !.step = "fsync"]
    /\ UNCHANGED media

SyncFlushes ==
    /\ gpt.step = "fsync"
    /\ media' = cached
    /\ gpt' = Closed
    /\ UNCHANGED cached

\* A write fails and Sync returns -1, or the unchecked fsync fails.  The crc in
\* memory is already the new one, so the destructor's Sync finds no change.
SyncFails ==
    /\ gpt.step \in (Regions \cup {"fsync"}) \/ (gpt.step = "loaded" /\ gpt.array # gpt.crc)
    /\ gpt' = Closed
    /\ UNCHANGED <<cached, media>>

\* The place lies at the end of the device, where nothing can be written.
SyncStraysOff ==
    /\ gpt.step = "backupEntries"
    /\ ~gpt.backup
    /\ gpt' = Closed
    /\ UNCHANGED <<cached, media>>

SyncWrites ==
    \/ SyncWritesHeader
    \/ SyncWritesEntries
    \/ SyncWritesBackupEntries
    \/ SyncStrays
    \/ SyncWritesBackupHeader

-----------------------------------------------------------------------------
(***************************************************************************)
(* The kernel and the power supply.                                        *)
(***************************************************************************)
\* The two entries may lie in different blocks: an entry array is flushed one
\* entry at a time.
Merge(old, new, S) ==
    IF old \in Table /\ new \in Table
    THEN [s \in Slots |-> IF s \in S THEN new[s] ELSE old[s]]
    ELSE new

Writeback ==
    /\ \E r \in Regions, S \in SUBSET Slots :
         /\ S # {}
         /\ r \in {"header", "backupHeader"} => S = Slots
         /\ cached[r] # media[r]
         /\ media' = [media EXCEPT ![r] = Merge(@, cached[r], S)]
    /\ UNCHANGED <<cached, gpt>>

LosePower ==
    /\ cached' = media
    /\ gpt' = Closed
    /\ UNCHANGED media

LoseProcess ==
    /\ gpt' = Closed
    /\ UNCHANGED <<cached, media>>

=============================================================================
