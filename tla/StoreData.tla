------------------------------ MODULE StoreData ------------------------------
(***************************************************************************)
(* What the storage service of Trusty asks of the proxy, and what is kept: *)
(* files of a few blocks, and one value in the RPMB partition, which counts *)
(* its writes.                                                             *)
(***************************************************************************)
EXTENDS Integers

CONSTANTS
    Names,    \* of files
    Handles,  \* numbers of descriptors
    Values,   \* what a block holds
    Size,     \* bound: blocks of a file
    MaxCount  \* bound: writes to the RPMB partition

ASSUME StoreAssumption ==
    /\ Size \in Nat /\ MaxCount \in Nat /\ Handles \subseteq Nat
    /\ "none" \notin Names \cup Values /\ "zero" \notin Values

Counts   == 0..MaxCount
Contents == UNION {[1..n -> Values \cup {"zero"}] : n \in 0..Size}
Payloads == UNION {[1..n -> Values] : n \in 1..Size}
Blocks(c) == DOMAIN c
Length(c) == CHOOSE n \in 0..Size : Blocks(c) = 1..n
Empty    == [i \in {} |-> "zero"]
Secrets  == [count : Counts, value : Values \cup {"zero"}]

OpenFlags == SUBSET {"create", "exclusive", "truncate"}

Requests ==
    [kind : {"open"}, name : Names, flags : OpenFlags]
      \cup [kind : {"delete"}, name : Names]
      \cup [kind : {"close", "read"}, handle : Handles]
      \cup [kind : {"write"}, handle : Handles, from : 0..Size, data : Payloads]
      \cup [kind : {"resize"}, handle : Handles, size : 0..Size]
      \cup [kind : {"rpmbWrite"}, count : Counts, value : Values]
      \cup [kind : {"rpmbRead"}]

NoRequest == [kind |-> "none"]
OnHandle  == {"close", "read", "write", "resize"}

\* The file c with d written behind its first n blocks; a hole reads zero.
Patched(c, n, d) ==
    [j \in Blocks(c) \cup 1..(n + Length(d)) |->
       IF j - n \in Blocks(d) THEN d[j - n] ELSE IF j \in Blocks(c) THEN c[j] ELSE "zero"]

\* ftruncate
Resized(c, n) == [j \in 1..n |-> IF j \in Blocks(c) THEN c[j] ELSE "zero"]

\* The files with one more, or another content, and with one less.
With(files, n, c)  == [m \in DOMAIN files \cup {n} |-> IF m = n THEN c ELSE files[m]]
Without(files, n)  == [m \in DOMAIN files \ {n} |-> files[m]]

Created(r) == "create" \in r.flags
Refused(files, r) ==
    IF r.name \in DOMAIN files THEN {"create", "exclusive"} \subseteq r.flags ELSE ~Created(r)

\* What a file holds when it was opened.
Opened(files, r) ==
    IF r.name \in DOMAIN files /\ "truncate" \notin r.flags THEN files[r.name] ELSE Empty

NoAnswer == [result |-> "none", handle |-> 0, content |-> Empty, secret |-> [count |-> 0, value |-> "zero"]]

Answers ==
    [result : {"none", "ok", "error", "refused", "unknown"}, handle : {0} \cup Handles,
     content : Contents, secret : Secrets]

=============================================================================
