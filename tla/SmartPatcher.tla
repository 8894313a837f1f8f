----------------------------- MODULE SmartPatcher -----------------------------
(***************************************************************************)
(* patch.py --mod, which every build runs on the tree it is about to       *)
(* build: each patch names files and, for each, the changes to make in it, *)
(* as the text to find and the text to put there.  A text is a sequence of *)
(* tokens, words or single marks: white space tells nothing to a search    *)
(* whose tokens are joined by \s*, and is left out.  Bytes that are no text *)
(* are in a file as marks of their own, and in no text.  A patch may not   *)
(* load; a run can be killed, also in the middle of a write; the tree can  *)
(* be synchronised again.                                                  *)
(***************************************************************************)
EXTENDS Naturals, Sequences, FiniteSets, SequencesExt

CONSTANTS
    Tokens,   \* words and marks
    Undecodable, \* bytes that do not decode
    Patches,  \* the patches in the order of their names, each a sequence of [file, changes]
    Upstreams \* the trees that a synchronisation may bring: what files there are, and their texts

\* The changes, by their places in the order in which a run comes to them.
Parts     == FlattenSeq(Patches)
Places    == UNION {{i} \X DOMAIN Parts[i].changes : i \in DOMAIN Parts}
File(a)   == Parts[a[1]].file
Change(a) == Parts[a[1]].changes[a[2]]
Changes   == {Change(a) : a \in Places}

\* The parts of the patch that is the p-th to be loaded.
PartsOf(p) ==
    LET upto(n) == Len(FlattenSeq(SubSeq(Patches, 1, n)))
    IN  {i \in DOMAIN Parts : upto(p - 1) < i /\ i <= upto(p)}

Before(a, b) == a[1] < b[1] \/ (a[1] = b[1] /\ a[2] < b[2])

Found(pattern, text) == pattern # <<>> /\ pattern \in SubSeqs(text)

\* A later change to the same file that is made inside of what the change at a has left there.
Reworks(b, a) == Before(a, b) /\ File(a) = File(b) /\ Found(Change(b).orig, Change(a).mod)
Reworked(a)   == \E b \in Places : Reworks(b, a)

Without(marks, text) ==
    LET without[n \in 0..Len(text)] ==
            IF n = 0 THEN <<>>
            ELSE IF text[n] \in marks THEN without[n - 1] ELSE Append(without[n - 1], text[n])
    IN  without[Len(text)]

\* read_text(errors='ignore')
Decoded(content) == Without(Undecodable, content)

-----------------------------------------------------------------------------
(* What the patches are taken to be like, which can be read off their texts. *)

Text    == Seq(Tokens)
Content == Seq(Tokens \cup Undecodable)
Pattern == Text \ {<<>>}
Files   == {Parts[i].file : i \in DOMAIN Parts}
ASSUME PatchesAssumption ==
    /\ Parts \in Seq([file : Files, changes : Seq([orig : Pattern, mod : Pattern])]) \ {<<>>}
    /\ \A base \in Upstreams : \A f \in DOMAIN base : base[f] \in Content
    /\ Tokens \cap Undecodable = {}

\* What is left of the places where p overlaps one of the edges of old, when new replaces old.
Starts(k, s) == SubSeq(s, 1, k)
Ends(k, s)   == SubSeq(s, Len(s) - k + 1, Len(s))
Overlaps(p, old, new) ==
    LET Edges == {k \in 1..Len(p) - 1 : k < Len(old)} IN
    {Starts(Len(p) - k, p) \o new : k \in {k \in Edges : Ends(k, p) = Starts(k, old)}} \cup
    {new \o Ends(Len(p) - k, p) : k \in {k \in Edges : Starts(k, p) = Ends(k, old)}}

\* Neither lies in the other; p is found afterwards wherever it was before; they cannot touch.
Clear(p, old)      == ~Found(p, old) /\ ~Found(old, p)
Stays(p, old, new) == Clear(p, old) /\ \A q \in Overlaps(p, old, new) : Found(p, q)
Apart(p, old)      == Clear(p, old) /\ Overlaps(p, old, old) = {}

Rivals(a, b) == File(a) = File(b) /\ Change(a) # Change(b)

\* What a change leaves stays, unless a later one reworks it; what that leaves stays for good.
ASSUME ModsStay ==
    \A a, b \in Places : Rivals(a, b) =>
        /\ Before(a, b) => Reworks(b, a) \/ Stays(Change(a).mod, Change(b).orig, Change(b).mod)
        /\ (\E z \in Places : Reworks(a, z)) => Stays(Change(a).mod, Change(b).orig, Change(b).mod)

\* A text that is not in the source, and that no change makes.
Never(f, q) ==
    /\ \A base \in Upstreams : f \in DOMAIN base => ~Found(q, Decoded(base[f]))
    /\ \A b \in Places : File(b) = f => Stays(q, Change(b).mod, Change(b).orig)

\* No change makes anew what an earlier one looks for.
ASSUME OrigsDoNotComeBack ==
    \A a, b \in Places : Rivals(a, b) /\ Before(a, b) =>
        /\ Clear(Change(a).orig, Change(b).mod)
        /\ \A q \in Overlaps(Change(a).orig, Change(b).mod, Change(b).orig) :
              Found(Change(a).orig, q) \/ Never(File(a), q)

\* What is reworked later has its place once in the source, and is made there and nowhere else.
Once(p, text) ==
    \A i, j \in 0..Len(text) - Len(p) :
        SubSeq(text, i + 1, i + Len(p)) = p /\ SubSeq(text, j + 1, j + Len(p)) = p => i = j
ASSUME ReworkedOnce ==
    \A a \in Places : Reworked(a) =>
        /\ \A base \in Upstreams : File(a) \in DOMAIN base =>
              /\ Once(Change(a).orig, Decoded(base[File(a)]))
              /\ ~Found(Change(a).mod, Decoded(base[File(a)]))
        /\ \A b \in Places : File(a) = File(b) => Apart(Change(a).orig, Change(b).mod)
        /\ \A b \in Places : Rivals(a, b) => Stays(Change(a).mod, Change(b).mod, Change(b).orig)

VARIABLES
    upstream, \* the tree that the last synchronisation brought
    tree,     \* the tree
    run,      \* its step, its part, the text in its memory, and the parts it could not load
    failed,   \* the changes that this run or the last one reported, as FAIL or by a patch that did not load
    torn,     \* the files that a run was killed in the middle of writing
    settled,  \* whether a run was completed since the tree last came from elsewhere
    whole     \* whether one that had loaded every patch was

vars == <<upstream, tree, run, failed, torn, settled, whole>>

Idle == [pc |-> "idle", part |-> 0, text |-> <<>>, skipped |-> {}]
Part == Parts[run.part]

TypeOK ==
    /\ upstream \in Upstreams
    /\ DOMAIN tree = DOMAIN upstream
    /\ \A f \in DOMAIN tree : tree[f] \in Content
    /\ run \in [pc : {"idle", "open", "write", "close"}, part : 0..Len(Parts), text : Text,
               skipped : SUBSET DOMAIN Parts]
    /\ failed \subseteq Changes /\ torn \subseteq DOMAIN tree
    /\ settled \in BOOLEAN /\ whole \in BOOLEAN

Init ==
    /\ upstream \in Upstreams
    /\ tree = upstream
    /\ run = Idle /\ failed = {} /\ torn = {} /\ settled = FALSE /\ whole = FALSE

-----------------------------------------------------------------------------
\* find_and_check_in_text
StatusOriginalFirst(text, c) ==  \* mutant: what is to be replaced is looked for first
    CASE Found(c.orig, text) -> "READY_TO_PATCH"
      [] Found(c.mod, text)  -> "ALREADY_APPLIED"
      [] OTHER               -> "NOT_FOUND_OR_CONFLICT"
Status(text, c) ==
    CASE Found(c.mod, text)  -> "ALREADY_APPLIED"
      [] ~Found(c.mod, text) /\ Found(c.orig, text) -> "READY_TO_PATCH"
      [] OTHER               -> "NOT_FOUND_OR_CONFLICT"

ReplacedToEnd(text, c) ==  \* mutant: what follows the match is dropped
    SubSeq(text, 1, IndexFirstSubSeq(c.orig, text) - 1) \o c.mod
\* The first place that matches is the one that is changed.
Replaced(text, c) == ReplaceFirstSubSeq(c.mod, c.orig, text)

\* One change after the other, each made in what the one before it has left.
Step(now, c) ==
    CASE Status(now.text, c) = "READY_TO_PATCH" ->
            [now EXCEPT !.text = Replaced(@, c), !.modified = TRUE]
      [] Status(now.text, c) = "NOT_FOUND_OR_CONFLICT" ->
            [now EXCEPT !.failed = @ \cup {c}]
      [] OTHER -> now

Unmodified(text) == [text |-> text, modified |-> FALSE, failed |-> {}]
ModifiedWhileFound(text, changes) ==  \* mutant: the first conflict ends it, as it ends check
    LET made[n \in 0..Len(changes)] ==
            IF n = 0 THEN Unmodified(text)
            ELSE IF made[n - 1].failed # {} THEN made[n - 1] ELSE Step(made[n - 1], changes[n])
    IN  made[Len(changes)]
Modified(text, changes) ==
    LET made[n \in 0..Len(changes)] ==
            IF n = 0 THEN Unmodified(text) ELSE Step(made[n - 1], changes[n])
    IN  made[Len(changes)]

-----------------------------------------------------------------------------
\* PatchManager.run: it goes on without the patches that do not load.
Start ==
    /\ run.pc = "idle"
    /\ \E missing \in SUBSET DOMAIN Patches :
        run' = [Idle EXCEPT !.pc = "open", !.part = 1, !.skipped = UNION {PartsOf(p) : p \in missing}]
    /\ failed' = {}
    /\ UNCHANGED <<upstream, tree, torn, settled, whole>>

\* The next part, or the end of the run, which is a success whatever was reported.
Leave ==
    IF run.part = Len(Parts)
    THEN run' = Idle /\ settled' = TRUE /\ whole' = (whole \/ run.skipped = {})
    ELSE run' = [run EXCEPT !.pc = "open", !.part = @ + 1, !.text = <<>>] /\ UNCHANGED <<settled, whole>>

\* mod: the file is read and its changes are made in memory.
Open ==
    /\ run.pc = "open"
    /\ IF run.part \in run.skipped \/ Part.file \notin DOMAIN tree
       THEN /\ failed' = failed \cup Range(Part.changes)
            /\ Leave
       ELSE LET done == Modified(Decoded(tree[Part.file]), Part.changes) IN
            /\ failed' = failed \cup done.failed
            /\ IF done.modified
               THEN /\ run' = [run EXCEPT !.pc = "write", !.text = done.text]
                    /\ UNCHANGED <<settled, whole>>
               ELSE Leave
    /\ UNCHANGED <<upstream, tree, torn>>

\* write_text: the file is emptied ...
Truncate ==
    /\ run.pc = "write"
    /\ tree' = [tree EXCEPT ![Part.file] = <<>>]
    /\ run' = [run EXCEPT !.pc = "close"]
    /\ UNCHANGED <<upstream, failed, torn, settled, whole>>

\* ... and then written.
Write ==
    /\ run.pc = "close"
    /\ tree' = [tree EXCEPT ![Part.file] = run.text]
    /\ Leave
    /\ UNCHANGED <<upstream, failed, torn>>

-----------------------------------------------------------------------------
\* The run is killed, with some of the file written.
Kill ==
    /\ run.pc # "idle"
    /\ run' = Idle
    /\ settled' = FALSE /\ whole' = FALSE
    /\ IF run.pc = "close"
       THEN /\ \E n \in 0..Len(run.text) : tree' = [tree EXCEPT ![Part.file] = SubSeq(run.text, 1, n)]
            /\ torn' = torn \cup {Part.file}
       ELSE UNCHANGED <<tree, torn>>
    /\ UNCHANGED <<upstream, failed>>

\* repo sync --force-sync, to the same version or another.
Sync ==
    /\ run.pc = "idle"
    /\ upstream' \in Upstreams
    /\ tree' = upstream'
    /\ torn' = {} /\ settled' = FALSE /\ whole' = FALSE /\ failed' = {}
    /\ UNCHANGED run

Next == Start \/ Open \/ Truncate \/ Write \/ Kill \/ Sync

Spec == Init /\ [][Next]_vars

-----------------------------------------------------------------------------
\* No change is left out in silence: after a run each one is in its file, or something was made of
\* it later, or the run said FAIL for it, or that its patch did not load; also in a file that an
\* earlier run was killed writing.
AppliedOrReported ==
    (run.pc = "idle" /\ settled) =>
        \A a \in Places :
            \/ Change(a) \in failed
            \/ Found(Change(a).mod, Decoded(tree[File(a)]))
            \/ \E b \in Places : Reworks(b, a) /\ Found(Change(b).mod, Decoded(tree[File(a)]))

\* Every build runs the patches again: on a tree that a run with all of them has been through,
\* whatever it reported and in whatever state it found it, a further run writes nothing.
RerunIsQuiet == [][(whole /\ whole') => tree' = tree]_vars

\* A file that no change fits stays as it came, to the byte; one that is changed keeps all of its
\* text that no change names, and loses what did not decode.  Only where a run was killed while it
\* wrote a file is nothing promised of it.
Named == UNION {Range(c.orig) \cup Range(c.mod) : c \in Changes}
Unnamed(text) == Without(Named, text)
NothingElseChanges ==
    \A f \in DOMAIN tree \ torn :
        \/ run.pc = "close" /\ f = Part.file
        \/ tree[f] = upstream[f]
        \/ /\ \E a \in Places : File(a) = f /\ Found(Change(a).orig, Decoded(upstream[f]))
           /\ Unnamed(tree[f]) = Unnamed(Decoded(upstream[f]))
=============================================================================
