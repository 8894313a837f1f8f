------------------------------- MODULE Services -------------------------------
(***************************************************************************)
(* The services of the vendor that the recovery lives with, or without:    *)
(* Weaver and KeyMint, which the decryption of a user's data asks for.     *)
(* Each may come late, or never; one is a program that early init has to   *)
(* unpack first.                                                           *)
(* One attempt of a user to open his data is followed to its end: how the  *)
(* patched vold looks for Weaver, sizes the key, finds the slot and        *)
(* derives the last key, and how keystore2 reaches a KeyMint.              *)
(***************************************************************************)
EXTENDS EarlyInit

CONSTANTS
    Phones,   \* [size, keySize, keymint, blob]: of the .weaver file, by the chip, KeyMint's version * 100, the spblob's
    HALs,     \* what may be registered, from {"weaver", "keymint", "compat"}
    Tries,    \* how often vold looks for Weaver, two seconds apart
    Mistakes  \* how many wrong keys in a row the chip takes before it refuses for a time

ASSUME ServicesAssumption == Tries \in Nat \ {0} /\ Mistakes \in Nat \ {0}

VARIABLES
    phone,
    gsc,     \* whether /dev/gsc0 is there
    weaver,  \* recovery_weaver: "wait", "running", or "dead", for it is oneshot
    up,      \* the registered services
    chip,    \* wrong keys in a row that the chip has seen
    vold,    \* the attempt: its step, the looks for Weaver, the key given, the KeyMint reached, its result
    excuse   \* what failed in this attempt that no client can make good

svcvars == <<phone, gsc, weaver, up, chip, vold, excuse>>
vars    == <<initvars, svcvars>>

NoAttempt == [at |-> "idle", looks |-> 0, key |-> "none", device |-> "none", result |-> "none"]

Init ==
    /\ InitEarly
    /\ phone \in Phones
    /\ gsc = FALSE /\ weaver = "wait" /\ up = {} /\ chip = 0
    /\ vold = NoAttempt /\ excuse = {}

Attempts == [at : {"idle", "weaver", "verify", "keystore", "derive"}, looks : 0..Tries - 1,
             key : {"none", "right", "wrong"}, device : {"none", "raw", "emulated"},
             result : {"none", "opened", "refused"}]

TypeOK ==
    /\ EarlyTypeOK
    /\ phone \in Phones /\ gsc \in BOOLEAN /\ weaver \in {"wait", "running", "dead"}
    /\ up \subseteq HALs /\ chip \in 0..Mistakes
    /\ vold \in Attempts
    /\ excuse \subseteq {"no weaver", "chip", "throttled", "no keymint", "keymint died"}

-----------------------------------------------------------------------------
\* init's script, once the stages before it are over: it waits for the node of the chip, but not for
\* ever, and starts recovery_weaver, which gives up for good if it cannot open the node.
GscAppears == ~gsc /\ gsc' = TRUE /\ UNCHANGED <<initvars, phone, weaver, up, chip, vold, excuse>>

StartWeaver ==
    /\ stage = "services" /\ weaver = "wait"
    /\ weaver' = IF gsc /\ file["recovery_weaver"] = "plain" /\ "recovery_weaver" \notin bare THEN "running" ELSE "dead"
    /\ UNCHANGED <<initvars, phone, gsc, up, chip, vold, excuse>>

\* A service registers, or an other than Weaver goes away.
Register(s) ==
    /\ stage = "services"
    /\ s = "weaver" => weaver = "running"
    /\ \/ s \notin up /\ up' = up \cup {s}
       \/ s \in up \ {"weaver"} /\ up' = up \ {s}
    /\ UNCHANGED <<initvars, phone, gsc, weaver, chip, vold, excuse>>

-----------------------------------------------------------------------------
\* One look for a service: what is done when it is not there is the client's part.  patience is
\* how often the client looks.
GivesUp(looks, patience) == looks + 1 >= patience

\* Weaver::GetKeySize, of what getConfig of the chip says
KeySizeOfChip == phone.keySize  \* mutant: no fallback
KeySize == IF phone.keySize = 0 THEN 16 ELSE phone.keySize

\* Where in a .weaver file vold reads the slot, and where Android has written it.
Slot        == IF phone.size = 5 THEN <<1, "big endian">> ELSE <<4, "little endian">>
AndroidSlot == CASE phone.size = 5 -> <<1, "big endian">> [] phone.size = 8 -> <<4, "little endian">>

\* The function that makes the last key of a spblob, by its version, here and in Android.
Secret == CASE phone.blob \in {3, 4} -> <<"SP800", IF phone.blob = 4 THEN "SHA512" ELSE "SHA256">>
            [] OTHER -> <<"SHA512">>
AndroidSecret == << <<"SHA512">>, <<"SHA512">>, <<"SP800", "SHA256">>, <<"SP800", "SHA512">> >>[phone.blob]

EndAttempt(result) ==
    vold' = [vold EXCEPT !.at = "idle", !.looks = 0, !.result = result]

Begin(key) ==
    /\ stage = "services" /\ vold.at = "idle"
    /\ vold' = [NoAttempt EXCEPT !.at = "weaver", !.key = key]
    /\ excuse' = {}
    /\ UNCHANGED <<initvars, phone, gsc, weaver, up, chip>>

WaitForWeaver ==  \* mutant: waitForService
    /\ vold.at = "weaver" /\ "weaver" \in up
    /\ vold' = [vold EXCEPT !.at = "verify"]
    /\ UNCHANGED <<initvars, phone, gsc, weaver, up, chip, excuse>>
\* Weaver::Weaver: without the AIDL service there is the HIDL one to ask, which this phone never has.
LookForWeaver ==
    /\ vold.at = "weaver"
    /\ CASE "weaver" \in up -> vold' = [vold EXCEPT !.at = "verify"] /\ UNCHANGED excuse
         [] "weaver" \notin up /\ ~GivesUp(vold.looks, Tries) ->
              vold' = [vold EXCEPT !.looks = @ + 1] /\ UNCHANGED excuse
         [] OTHER ->
              /\ EndAttempt("refused")
              /\ excuse' = excuse \cup (IF vold.looks + 1 = Tries THEN {"no weaver"} ELSE {})
    /\ UNCHANGED <<initvars, phone, gsc, weaver, up, chip>>

\* GetKeySize, then read: the chip answers what it thinks of the key, unless it has had too many
\* wrong ones.
Verify ==
    /\ vold.at = "verify"
    /\ \/ EndAttempt("refused") /\ excuse' = excuse \cup {"chip"} /\ UNCHANGED chip
       \/ KeySize # 16 /\ EndAttempt("refused") /\ UNCHANGED <<excuse, chip>>
       \/ /\ KeySize = 16 /\ chip = Mistakes
          /\ EndAttempt("refused") /\ excuse' = excuse \cup {"throttled"} /\ UNCHANGED chip
       \/ /\ KeySize = 16 /\ chip < Mistakes
          /\ IF vold.key = "right" /\ Slot = AndroidSlot
             THEN chip' = 0 /\ vold' = [vold EXCEPT !.at = "keystore"]
             ELSE chip' = chip + 1 /\ EndAttempt("refused")
          /\ UNCHANGED excuse
    /\ UNCHANGED <<initvars, phone, gsc, weaver, up>>

\* The chip lets a key be tried again.
Forgive ==
    /\ chip = Mistakes
    /\ chip' = Mistakes - 1
    /\ UNCHANGED <<initvars, phone, gsc, weaver, up, vold, excuse>>

\* connect_keymint: the one that is registered, as it is or behind what emulates what it lacks; if
\* it cannot be had, the one that km_compat has made of an older HAL.  It is an error when the first
\* does not tell its version, or the second does not hand out its device.
Wrap(version) == IF version >= 300 THEN "raw" ELSE "emulated"

Connect ==
    CASE "keymint" \in up -> Wrap(phone.keymint)
      [] "keymint" \notin up /\ "compat" \in up -> "emulated"
      [] OTHER -> "none"

ConnectKeyMint ==
    /\ vold.at = "keystore"
    /\ \/ /\ Connect # "none"
          /\ vold' = [vold EXCEPT !.at = "derive", !.device = Connect] /\ UNCHANGED excuse
       \/ /\ Connect = "none"
          /\ EndAttempt("refused")
          /\ excuse' = excuse \cup (IF {"keymint", "compat"} \cap up = {} THEN {"no keymint"} ELSE {})
       \/ /\ Connect # "none"
          /\ EndAttempt("refused") /\ excuse' = excuse \cup {"keymint died"}
    /\ UNCHANGED <<initvars, phone, gsc, weaver, up, chip>>

\* The blob is unwrapped; what comes of it opens the data if it is what Android has made of it.
Derive ==
    /\ vold.at = "derive"
    /\ EndAttempt(IF Secret = AndroidSecret THEN "opened" ELSE "refused")
    /\ UNCHANGED <<initvars, phone, gsc, weaver, up, chip, excuse>>

-----------------------------------------------------------------------------
InitStep == NextEarly /\ UNCHANGED svcvars
VoldStep == LookForWeaver \/ Verify \/ ConnectKeyMint \/ Derive
Next ==
    \/ InitStep \/ VoldStep
    \/ GscAppears \/ StartWeaver \/ Forgive
    \/ \E s \in HALs : Register(s)
    \/ \E key \in {"right", "wrong"} : Begin(key)

\* The thread that decrypts is scheduled; that a service comes, or a user, is no promise.
Spec == Init /\ [][Next]_vars /\ WF_vars(VoldStep)

-----------------------------------------------------------------------------
\* An attempt with the right key fails only for want of what no client can make: a Weaver that did
\* not come in all of the time there was for it, a chip that fails or punishes, no KeyMint at all.
RightKeyOpens ==
    (vold.at = "idle" /\ vold.key = "right" /\ vold.result = "refused") => excuse # {}

\* Nobody waits for ever for a service that does not come, or goes: an attempt ends.
NobodyWaitsForEver == vold.at # "idle" ~> vold.at = "idle"
=============================================================================
