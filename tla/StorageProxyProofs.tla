------------------------- MODULE StorageProxyProofs -------------------------
(***************************************************************************)
(* Proofs about recovery_storageproxyd: it implements the store that Trusty *)
(* is promised, for any number of descriptors, names, values and blocks,   *)
(* any incidents of the device, and whether or not files can fail.         *)
(***************************************************************************)
EXTENDS StorageProxy, TLAPS, WellFoundedInduction

-----------------------------------------------------------------------------
(***************************************************************************)
(* The inductive invariant.                                                *)
(***************************************************************************)
Away == pc \in {"down", "connect"}

\* Trusty has handles only of the present session, and each is a descriptor of a file there is.
HandleInv ==
    /\ Away => ta = Gone
    /\ ~Away => Handles # {}
    /\ \A h \in ta.held : fds[h] \in DOMAIN files

\* A request is at a step of its own kind, and of what Trusty may ask.
RequestInv ==
    /\ Busy => req \in Requests
    /\ pc = "do" => req.kind \notin {"rpmbWrite", "rpmbRead"}
    /\ pc = "create" => /\ req.kind = "open" /\ req.name \notin DOMAIN files
                        /\ Created(req) /\ Free # {}
    /\ pc = "reliable" => req.kind = "rpmbWrite"
    /\ pc \in {"request", "fetch"} => req.kind \in {"rpmbWrite", "rpmbRead"}
    /\ pc = "do" /\ req.kind \in OnHandle => req.handle \in ta.held
    /\ pc = "do" /\ req.kind = "delete" => \A h \in ta.held : fds[h] # req.name
    /\ pc = "reply" /\ req.kind = "read" => req.handle \in ta.held

\* What write_full has written so far is in the file.
WriteInv ==
    Busy /\ req.kind = "write" =>
      /\ req.from + Length(req.data) <= Size
      /\ at <= Length(req.data)
      /\ pc = "do" =>
           \A j \in 1..at : /\ req.from + j \in Blocks(files[File])
                            /\ files[File][req.from + j] = req.data[j]

\* The answer that is under way is an error or says what was done.
OkReply(h, content) == [NoAnswer EXCEPT !.result = "ok", !.handle = h, !.content = content]
ErrorReply == [NoAnswer EXCEPT !.result = "error"]

ReplyInv ==
    pc = "reply" =>
      \/ reply = ErrorReply
      \/ /\ reply = OkReply(reply.handle, reply.content)
         /\ IF req.kind = "open"
              THEN /\ reply.handle \in Handles \ ta.held
                   /\ fds[reply.handle] = req.name /\ req.name \in DOMAIN files
              ELSE reply.handle = 0
         /\ reply.content = IF req.kind = "read" THEN files[File] ELSE Empty
         /\ req.kind = "write" => at = Length(req.data)

\* No frame counts writes that did not take place, and none refuses one: only a
\* command that was not obeyed is repeated.
FrameInv ==
    /\ register.kind \in {"junk", "written"}
    /\ \A f \in {register, response, buf} :
         /\ f.kind # "refused"
         /\ f.kind = "written" => f.count <= rpmb.count
    /\ Busy /\ req.kind = "rpmbRead" =>
         \A f \in {response, buf} :
           f.kind = "read" => f.count = rpmb.count /\ f.value = rpmb.value

\* Trusty knows the counter, but for a write that is under way.
CountInv ==
    /\ ta.sure /\ ~(Busy /\ req.kind = "rpmbWrite") => ta.count = rpmb.count
    /\ Busy /\ req.kind = "rpmbWrite" =>
         /\ req.count < MaxCount
         /\ rpmb.count \in {req.count, req.count + 1}
    /\ pc = "reliable" => rpmb.count = req.count

\* Where the exchange is in which the device said nothing of a reset but at its first command.
Right(f) ==
    IF req.kind = "rpmbWrite" THEN f.kind = "written" /\ f.count = req.count + 1 ELSE f.kind = "read"

CalmInv ==
    calm =>
      /\ pc \in {"reliable", "request", "fetch"} /\ attention => tries > 0 /\ pc = Dispatch(req.kind)
      /\ pc = "request" /\ req.kind = "rpmbWrite" => Right(register)
      /\ pc = "fetch" => Right(response)
      /\ pc = "reply" /\ req.kind \in {"rpmbWrite", "rpmbRead"} => reply.result = "ok" /\ Right(buf)

IInv == TypeOK /\ HandleInv /\ RequestInv /\ WriteInv /\ ReplyInv /\ FrameInv /\ CountInv /\ CalmInv

-----------------------------------------------------------------------------
(***************************************************************************)
(* Blocks.                                                                 *)
(***************************************************************************)
LEMMA Bounds == Size \in Nat /\ MaxCount \in Nat /\ Handles \subseteq Nat /\ MaxIncidents \in Nat
  BY StoreAssumption, ProxyAssumption

LEMMA LengthIs ==
    ASSUME NEW c, NEW n \in 0..Size, Blocks(c) = 1..n
    PROVE  Length(c) = n
<1>1. \A m \in 0..Size : 1..n = 1..m => m = n
  <2> SUFFICES ASSUME NEW m \in 0..Size, 1..n = 1..m, m # n
               PROVE  FALSE
    OBVIOUS
  <2>1. m \in Nat /\ n \in Nat
    BY Bounds
  <2>2. CASE m < n
    <3>1. m + 1 \in 1..n
      BY <2>1, <2>2
    <3>2. m + 1 \notin 1..m
      BY <2>1
    <3> QED
      BY <3>1, <3>2
  <2>3. CASE n < m
    <3>1. n + 1 \in 1..m
      BY <2>1, <2>3
    <3>2. n + 1 \notin 1..n
      BY <2>1
    <3> QED
      BY <3>1, <3>2
  <2> QED
    BY <2>1, <2>2, <2>3
<1> QED
  BY <1>1 DEF Length

LEMMA ContentIs ==
    ASSUME NEW c \in Contents
    PROVE  \E n \in 0..Size : c \in [1..n -> Values \cup {"zero"}]
  BY DEF Contents

LEMMA IsContent ==
    ASSUME NEW n \in 0..Size, NEW c \in [1..n -> Values \cup {"zero"}]
    PROVE  c \in Contents
  BY DEF Contents

LEMMA PayloadIs ==
    ASSUME NEW d \in Payloads
    PROVE  /\ Length(d) \in 1..Size
           /\ d \in [1..Length(d) -> Values]
           /\ Blocks(d) = 1..Length(d)
<1>1. PICK n \in 1..Size : d \in [1..n -> Values]
  BY DEF Payloads
<1>2. n \in 0..Size /\ Blocks(d) = 1..n
  BY <1>1, Bounds DEF Blocks
<1>3. Length(d) = n
  BY <1>2, LengthIs
<1> QED
  BY <1>1, <1>2, <1>3

LEMMA EmptyIsContent == Empty \in Contents
<1>1. 0 \in 0..Size /\ 1..0 = {}
  BY Bounds
<1>2. Empty \in [1..0 -> Values \cup {"zero"}]
  BY <1>1 DEF Empty
<1> QED
  BY <1>1, <1>2, IsContent

\* The blocks behind one place, and those before it, of a payload.
Part(d, k, n) == [i \in 1..n |-> d[k + i]]

LEMMA PartIs ==
    ASSUME NEW d \in Payloads, NEW k \in Nat, NEW n \in Nat, k + n <= Length(d)
    PROVE  /\ Length(Part(d, k, n)) = n
           /\ Blocks(Part(d, k, n)) = 1..n
           /\ Part(d, k, n) \in [1..n -> Values]
<1>1. n \in 0..Size
  BY PayloadIs, Bounds
<1>2. Blocks(Part(d, k, n)) = 1..n
  BY DEF Blocks, Part
<1>3. Part(d, k, n) \in [1..n -> Values]
  <2>1. \A i \in 1..n : k + i \in 1..Length(d)
    BY PayloadIs, Bounds
  <2> QED
    BY <2>1, PayloadIs DEF Part
<1> QED
  BY <1>1, <1>2, <1>3, LengthIs

LEMMA PatchedIs ==
    ASSUME NEW c \in Contents, NEW d, NEW k \in Nat, NEW n \in Nat,
           d \in [1..n -> Values], n \in 0..Size, k + n <= Size
    PROVE  /\ Patched(c, k, d) \in Contents
           /\ Blocks(Patched(c, k, d)) = Blocks(c) \cup 1..(k + n)
           /\ \A j \in Blocks(c) \cup 1..(k + n) :
                Patched(c, k, d)[j] =
                  IF j - k \in 1..n THEN d[j - k] ELSE IF j \in Blocks(c) THEN c[j] ELSE "zero"
<1>1. Blocks(d) = 1..n
  BY DEF Blocks
<1>2. Length(d) = n
  BY <1>1, LengthIs
<1>3. PICK m \in 0..Size : c \in [1..m -> Values \cup {"zero"}]
  BY ContentIs
<1>4. Blocks(c) = 1..m
  BY <1>3 DEF Blocks
<1>5. PICK q \in 0..Size : 1..m \cup 1..(k + n) = 1..q
  <2>1. CASE m <= k + n
    <3> WITNESS k + n \in 0..Size
    <3> QED
      BY <2>1, Bounds
  <2>2. CASE ~(m <= k + n)
    <3> WITNESS m \in 0..Size
    <3> QED
      BY <2>2, Bounds
  <2> QED
    BY <2>1, <2>2
<1>6. Patched(c, k, d) =
        [j \in 1..q |-> IF j - k \in 1..n THEN d[j - k] ELSE IF j \in 1..m THEN c[j] ELSE "zero"]
  BY <1>1, <1>2, <1>4, <1>5 DEF Patched
<1>7. Patched(c, k, d) \in [1..q -> Values \cup {"zero"}]
  <2>1. \A j \in 1..q : j - k \in 1..n => d[j - k] \in Values
    OBVIOUS
  <2>2. \A j \in 1..m : c[j] \in Values \cup {"zero"}
    BY <1>3
  <2> QED
    BY <1>6, <2>1, <2>2
<1> QED
  BY <1>4, <1>5, <1>6, <1>7, IsContent DEF Blocks

LEMMA ResizedIs ==
    ASSUME NEW c \in Contents, NEW n \in 0..Size
    PROVE  Resized(c, n) \in Contents
<1>1. \A j \in Blocks(c) : c[j] \in Values \cup {"zero"}
  BY ContentIs DEF Blocks
<1>2. Resized(c, n) \in [1..n -> Values \cup {"zero"}]
  BY <1>1 DEF Resized
<1> QED
  BY <1>2, IsContent

\* The first k blocks of d are in the file from block from on.
Begun(c, from, d, k) == \A j \in 1..k : from + j \in Blocks(c) /\ c[from + j] = d[j]

(***************************************************************************)
(* Blocks written behind the first ones of a payload, when those are in    *)
(* the file, leave it as if all had been written at once.                  *)
(***************************************************************************)
LEMMA WritesJoin ==
    ASSUME NEW c \in Contents, NEW d \in Payloads, NEW from \in Nat, NEW k \in Nat, NEW n \in Nat,
           from + Length(d) <= Size, k + n <= Length(d), Begun(c, from, d, k)
    PROVE  /\ Patched(c, from + k, Part(d, k, n)) = Patched(c, from, Part(d, 0, k + n))
           /\ Patched(c, from + k, Part(d, k, n)) \in Contents
           /\ Begun(Patched(c, from + k, Part(d, k, n)), from, d, k + n)
<1> DEFINE part == Part(d, k, n)
           all  == Part(d, 0, k + n)
           p    == Patched(c, from + k, part)
<1>1. /\ Length(part) = n /\ Blocks(part) = 1..n /\ part \in [1..n -> Values]
      /\ n \in 0..Size /\ (from + k) + n <= Size
  BY PartIs, PayloadIs, Bounds
<1>2. /\ Length(all) = k + n /\ Blocks(all) = 1..(k + n) /\ all \in [1..(k + n) -> Values]
      /\ k + n \in 0..Size /\ from + (k + n) <= Size
  BY PartIs, PayloadIs, Bounds
<1>3. /\ \A i \in 1..n : part[i] = d[k + i]
      /\ \A i \in 1..(k + n) : all[i] = d[i]
  BY DEF Part
<1> HIDE DEF part, all
<1>4. p = [j \in Blocks(c) \cup 1..(from + k + n) |->
             IF j - (from + k) \in 1..n THEN part[j - (from + k)]
             ELSE IF j \in Blocks(c) THEN c[j] ELSE "zero"]
  BY <1>1 DEF Patched
<1>5. Patched(c, from, all) =
          [j \in Blocks(c) \cup 1..(from + k + n) |->
             IF j - from \in 1..(k + n) THEN all[j - from]
             ELSE IF j \in Blocks(c) THEN c[j] ELSE "zero"]
  BY <1>2 DEF Patched
<1>6. ASSUME NEW j \in Blocks(c) \cup 1..(from + k + n)
      PROVE  (IF j - (from + k) \in 1..n THEN part[j - (from + k)]
              ELSE IF j \in Blocks(c) THEN c[j] ELSE "zero")
             = (IF j - from \in 1..(k + n) THEN all[j - from]
                ELSE IF j \in Blocks(c) THEN c[j] ELSE "zero")
  <2>0. j \in Int
    BY ContentIs, Bounds DEF Blocks
  <2>1. CASE j - (from + k) \in 1..n
    <3>1. j - from \in 1..(k + n) /\ k + (j - (from + k)) = j - from
      BY <2>0, <2>1
    <3> QED
      BY <2>1, <3>1, <1>3
  <2>2. CASE j - (from + k) \notin 1..n /\ j - from \in 1..(k + n)
    <3>1. j - from \in 1..k /\ from + (j - from) = j
      BY <2>0, <2>2
    <3>2. j \in Blocks(c) /\ c[j] = d[j - from]
      BY <3>1 DEF Begun
    <3> QED
      BY <2>2, <3>2, <1>3
  <2>3. CASE j - (from + k) \notin 1..n /\ j - from \notin 1..(k + n)
    BY <2>3
  <2> QED
    BY <2>1, <2>2, <2>3
<1>7. p = Patched(c, from, all)
  BY <1>4, <1>5, <1>6
<1>8. p \in Contents
  BY <1>1, PatchedIs
<1>9. ASSUME NEW j \in 1..(k + n)
      PROVE  from + j \in Blocks(p) /\ p[from + j] = d[j]
  <2>1. from + j \in 1..(from + k + n) /\ (from + j) - from = j
    OBVIOUS
  <2> QED
    BY <2>1, <1>3, <1>5, <1>7 DEF Blocks
<1> QED
  BY <1>7, <1>8, <1>9 DEF part, all, Begun

-----------------------------------------------------------------------------
(***************************************************************************)
(* Descriptors, requests, frames and answers.                              *)
(***************************************************************************)
LEMMA LowestIs ==
    ASSUME NEW H \in SUBSET Handles, H # {}
    PROVE  Lowest(H) \in H
<1>1. H \subseteq Nat
  BY Bounds
<1>2. PICK x \in H : \A y \in H : ~ (<<y, x>> \in OpToRel(<, Nat))
  BY <1>1, NatLessThanWellFounded, WFMin, Zenon
<1>3. ASSUME NEW y \in H
      PROVE  x <= y
  <2>1. x \in Nat /\ y \in Nat
    BY <1>1
  <2>2. ~(y < x)
    BY <1>2, <2>1 DEF OpToRel
  <2> QED
    BY <2>1, <2>2
<1> QED
  BY <1>3 DEF Lowest

LEMMA Reserved ==
    ASSUME NEW n \in Names
    PROVE  n \notin {"free", "rpmb", "tipc", "none"}
  BY StoreAssumption, ProxyAssumption

LEMMA RequestIs ==
    ASSUME NEW r \in Requests
    PROVE  /\ r.kind \in {"open", "delete", "close", "read", "write", "resize", "rpmbWrite", "rpmbRead"}
           /\ r.kind \in {"open", "delete"} => r.name \in Names
           /\ r.kind \in OnHandle => r.handle \in Handles
           /\ r.kind = "write" => r.from \in 0..Size /\ r.data \in Payloads
           /\ r.kind = "resize" => r.size \in 0..Size
           /\ r.kind = "rpmbWrite" => r.count \in Counts /\ r.value \in Values
  BY DEF Requests, OnHandle

LEMMA CountsAreNat == Counts \subseteq Nat /\ 0 \in Counts
  BY Bounds DEF Counts

LEMMA FrameIs ==
    ASSUME NEW f \in Frames
    PROVE  /\ f.count \in Counts /\ f.value \in Values \cup {"zero"}
           /\ f.kind \in {"junk", "written", "refused", "read", "stale"}
  BY CountsAreNat DEF Frames

LEMMA IsFrame ==
    /\ Junk \in Frames
    /\ \A c \in Counts :
         /\ [kind |-> "written", count |-> c, value |-> "zero"] \in Frames
         /\ [kind |-> "refused", count |-> c, value |-> "zero"] \in Frames
         /\ \A v \in Values \cup {"zero"} : [kind |-> "read", count |-> c, value |-> v] \in Frames
  BY CountsAreNat DEF Frames, Junk

LEMMA AgedIs ==
    ASSUME NEW f \in Frames
    PROVE  /\ Aged(f) \in Frames
           /\ Aged(f).kind # "read"
           /\ Aged(f).kind \in {f.kind, "stale"} /\ Aged(f).count = f.count
<1>1. CASE f.kind = "read"
  <2>1. f \in [kind : {"read", "stale"}, count : Counts, value : Values \cup {"zero"}]
    BY <1>1 DEF Frames
  <2> QED
    BY <1>1, <2>1 DEF Aged, Frames
<1>2. CASE f.kind # "read"
  BY <1>2 DEF Aged
<1> QED
  BY <1>1, <1>2

LEMMA AnswerIs ==
    /\ NoAnswer \in Answers
    /\ ErrorReply \in Answers /\ ErrorReply.result = "error"
    /\ \A h \in {0} \cup Handles, c \in Contents :
         /\ OkReply(h, c) \in Answers
         /\ OkReply(h, c).result = "ok" /\ OkReply(h, c).handle = h /\ OkReply(h, c).content = c
    /\ NoAnswer.handle = 0 /\ NoAnswer.content = Empty
<1>1. [count |-> 0, value |-> "zero"] \in Secrets
  BY CountsAreNat DEF Secrets
<1>2. NoAnswer \in Answers
  BY <1>1, EmptyIsContent DEF NoAnswer, Answers
<1> QED
  BY <1>1, <1>2, EmptyIsContent DEF NoAnswer, Answers, ErrorReply, OkReply

LEMMA OkIs ==
    /\ [NoAnswer EXCEPT !.result = "ok"] = OkReply(0, Empty)
    /\ \A h : [NoAnswer EXCEPT !.result = "ok", !.handle = h] = OkReply(h, Empty)
    /\ \A c : [NoAnswer EXCEPT !.result = "ok", !.content = c] = OkReply(0, c)
<1> DEFINE Shapes == [result : {"none", "ok"}, handle : {0}, content : {Empty}, secret : {NoAnswer.secret}]
<1>1. NoAnswer \in Shapes
  BY DEF NoAnswer
<1>2. ASSUME NEW a \in Shapes, NEW h, NEW c
      PROVE  /\ [a EXCEPT !.result = "ok"] = [a EXCEPT !.result = "ok", !.handle = 0, !.content = Empty]
             /\ [a EXCEPT !.result = "ok", !.handle = h]
                  = [a EXCEPT !.result = "ok", !.handle = h, !.content = Empty]
             /\ [a EXCEPT !.result = "ok", !.content = c]
                  = [a EXCEPT !.result = "ok", !.handle = 0, !.content = c]
  OBVIOUS
<1> QED
  BY <1>1, <1>2 DEF OkReply

LEMMA GoneIs ==
    /\ Gone \in [linked : BOOLEAN, held : SUBSET Handles, sure : BOOLEAN, count : Counts, answer : Answers]
    /\ Gone.held = {} /\ ~Gone.sure /\ Gone.answer = NoAnswer /\ ~Gone.linked
  BY AnswerIs, CountsAreNat DEF Gone

-----------------------------------------------------------------------------
(***************************************************************************)
(* The process and the channel keep the invariant.                         *)
(***************************************************************************)
TaStates == [linked : BOOLEAN, held : SUBSET Handles, sure : BOOLEAN, count : Counts, answer : Answers]

LEMMA Unasked ==
    ASSUME pc' \in {"down", "connect", "serve"}
    PROVE  RequestInv' /\ WriteInv' /\ ReplyInv' /\ CalmInv'
  BY DEF RequestInv, WriteInv, ReplyInv, CalmInv, Busy

LEMMA IdleType ==
    ASSUME Idle
    PROVE  /\ req' \in Requests \cup {NoRequest} /\ at' \in 0..Size /\ tries' \in 0..3
           /\ reply' \in Answers /\ calm' \in BOOLEAN
  BY Bounds, AnswerIs DEF Idle

LEMMA InitInv == Init => IInv
<1> SUFFICES ASSUME Init
             PROVE  IInv
  OBVIOUS
<1>1. TypeOK
  <2>1. [count |-> 0, value |-> "zero"] \in Secrets
    BY CountsAreNat DEF Secrets
  <2>2. files \in [DOMAIN files -> Contents] /\ DOMAIN files \subseteq Names
    BY DEF Init
  <2>3. fds \in [Handles -> Names \cup {"free", "rpmb", "tipc"}]
    BY DEF Init, NoFds
  <2>4. at \in 0..Size /\ incidents \in 0..MaxIncidents /\ tries \in 0..3
    BY Bounds DEF Init
  <2>5. /\ register \in Frames /\ response \in Frames /\ buf \in Frames
        /\ reply \in Answers /\ ta \in TaStates /\ rpmb \in Secrets
    BY <2>1, GoneIs, AnswerIs, IsFrame DEF Init, TaStates
  <2> QED
    BY <2>2, <2>3, <2>4, <2>5 DEF Init, TypeOK, TaStates
<1>2. HandleInv
  BY GoneIs DEF Init, HandleInv, Away
<1>3. RequestInv /\ WriteInv /\ ReplyInv /\ CalmInv
  BY DEF Init, RequestInv, WriteInv, ReplyInv, CalmInv, Busy
<1>4. FrameInv
  BY DEF Init, FrameInv, Busy, Junk
<1>5. CountInv
  BY GoneIs DEF Init, CountInv, Busy
<1> QED
  BY <1>1, <1>2, <1>3, <1>4, <1>5 DEF IInv

LEMMA StartKeeps == IInv /\ Start => IInv'
<1> SUFFICES ASSUME IInv, Start
             PROVE  IInv'
  OBVIOUS
<1>1. TypeOK'
  BY DEF Start, IInv, TypeOK, device
<1>2. HandleInv'
  BY GoneIs DEF Start, IInv, HandleInv, Away
<1>3. RequestInv' /\ WriteInv' /\ ReplyInv' /\ CalmInv'
  BY Unasked DEF Start
<1>4. FrameInv' /\ CountInv'
  BY DEF Start, IInv, FrameInv, CountInv, Busy, device
<1> QED
  BY <1>1, <1>2, <1>3, <1>4 DEF IInv

LEMMA DieKeeps == IInv /\ Die => IInv'
<1> SUFFICES ASSUME IInv, Die
             PROVE  IInv'
  OBVIOUS
<1>1. TypeOK'
  BY IdleType, GoneIs, IsFrame DEF Die, NoFds, IInv, TypeOK, device
<1>2. HandleInv'
  BY GoneIs DEF Die, HandleInv, Away
<1>3. RequestInv' /\ WriteInv' /\ ReplyInv' /\ CalmInv'
  BY Unasked DEF Die
<1>4. FrameInv'
  BY DEF Die, IInv, FrameInv, Busy, device, Junk
<1>5. CountInv'
  BY GoneIs DEF Die, CountInv, Busy
<1> QED
  BY <1>1, <1>2, <1>3, <1>4, <1>5 DEF IInv

LEMMA HangUpKeeps == IInv /\ HangUp => IInv'
<1> SUFFICES ASSUME IInv, HangUp
             PROVE  IInv'
  OBVIOUS
<1>1. TypeOK'
  <2>1. fds' \in [Handles -> Names \cup {"free", "rpmb", "tipc"}]
    BY DEF HangUp, Closed, IInv, TypeOK
  <2> QED
    BY <2>1, IdleType, GoneIs DEF HangUp, IInv, TypeOK, device
<1>2. HandleInv'
  BY GoneIs DEF HangUp, HandleInv, Away
<1>3. RequestInv' /\ WriteInv' /\ ReplyInv' /\ CalmInv'
  BY Unasked DEF HangUp
<1>4. FrameInv'
  BY DEF HangUp, IInv, FrameInv, Busy, device
<1>5. CountInv'
  BY GoneIs DEF HangUp, CountInv, Busy
<1> QED
  BY <1>1, <1>2, <1>3, <1>4, <1>5 DEF IInv

LEMMA LinkedIs ==
    LET linked == [Gone EXCEPT !.linked = TRUE]
    IN /\ linked \in TaStates
       /\ linked.held = {} /\ ~linked.sure /\ linked.answer = NoAnswer
  BY GoneIs DEF TaStates

LEMMA ConnectKeeps == IInv /\ Connect => IInv'
<1> SUFFICES ASSUME IInv, Connect
             PROVE  IInv'
  OBVIOUS
<1>1. TypeOK'
  BY LinkedIs DEF Connect, IInv, TypeOK, device, TaStates
<1>2. HandleInv'
  BY LinkedIs DEF Connect, HandleInv, Away, Free
<1>3. RequestInv' /\ WriteInv' /\ ReplyInv' /\ CalmInv'
  BY Unasked DEF Connect
<1>4. FrameInv'
  BY DEF Connect, IInv, FrameInv, Busy, device
<1>5. CountInv'
  BY LinkedIs DEF Connect, CountInv, Busy
<1> QED
  BY <1>1, <1>2, <1>3, <1>4, <1>5 DEF IInv

LEMMA TaLeavesKeeps == IInv /\ TaLeaves => IInv'
<1> SUFFICES ASSUME IInv, TaLeaves
             PROVE  IInv'
  OBVIOUS
<1>0. /\ ta' \in TaStates
      /\ ta'.held = ta.held /\ ta'.sure = ta.sure /\ ta'.count = ta.count
      /\ ~Away
  BY GoneIs DEF TaLeaves, IInv, TypeOK, TaStates, HandleInv
<1>1. TypeOK'
  BY <1>0 DEF TaLeaves, IInv, TypeOK, device, TaStates
<1>2. HandleInv'
  BY <1>0 DEF TaLeaves, IInv, HandleInv, Away
<1>3. RequestInv'
  BY <1>0 DEF TaLeaves, IInv, RequestInv, Busy, Free
<1>4. WriteInv' /\ ReplyInv'
  BY <1>0 DEF TaLeaves, IInv, WriteInv, ReplyInv, Busy, File
<1>5. FrameInv' /\ CountInv' /\ CalmInv'
  BY <1>0 DEF TaLeaves, IInv, FrameInv, CountInv, CalmInv, Busy, device, Right
<1> QED
  BY <1>1, <1>2, <1>3, <1>4, <1>5 DEF IInv

-----------------------------------------------------------------------------
(***************************************************************************)
(* A request that comes and an answer that goes keep the invariant.        *)
(***************************************************************************)
LEMMA DispatchIs ==
    ASSUME NEW kind
    PROVE  /\ Dispatch(kind) = IF kind = "rpmbWrite" THEN "reliable"
                               ELSE IF kind = "rpmbRead" THEN "request" ELSE "do"
           /\ Retries(kind) = IF kind = "rpmbWrite" THEN 1 ELSE IF kind = "rpmbRead" THEN 3 ELSE 0
<1>1. CASE kind = "rpmbWrite"
  BY <1>1 DEF Dispatch, Retries
<1>2. CASE kind = "rpmbRead"
  BY <1>2 DEF Dispatch, Retries
<1>3. CASE kind \notin {"rpmbWrite", "rpmbRead"}
  BY <1>3 DEF Dispatch, Retries
<1> QED
  BY <1>1, <1>2, <1>3

LEMMA AsksIs ==
    ASSUME NEW r \in Requests, Asks(r)
    PROVE  /\ r.kind \in OnHandle => r.handle \in ta.held
           /\ r.kind = "write" => r.from + Length(r.data) <= Size
           /\ r.kind = "delete" => \A h \in ta.held : fds[h] # r.name
           /\ r.kind = "rpmbWrite" => ta.sure /\ r.count = ta.count /\ r.count < MaxCount
<1>1. CASE r.kind = "write"
  BY <1>1 DEF Asks, OnHandle
<1>2. CASE r.kind \in {"close", "read", "resize"}
  BY <1>2 DEF Asks, OnHandle
<1>3. CASE r.kind = "delete"
  BY <1>3 DEF Asks, OnHandle
<1>4. CASE r.kind = "rpmbWrite"
  BY <1>4 DEF Asks, OnHandle
<1>5. CASE r.kind \in {"open", "rpmbRead"}
  BY <1>5 DEF OnHandle
<1> QED
  BY <1>1, <1>2, <1>3, <1>4, <1>5, RequestIs

LEMMA ReceiveKeeps == ASSUME NEW r \in Requests PROVE IInv /\ Receive(r) => IInv'
<1> SUFFICES ASSUME IInv, Receive(r)
             PROVE  IInv'
  OBVIOUS
<1>0. /\ ta' \in TaStates
      /\ ta'.held = ta.held /\ ta'.sure = ta.sure /\ ta'.count = ta.count
  BY AnswerIs DEF Receive, IInv, TypeOK, TaStates
<1>1. /\ pc = "serve" /\ ta.linked /\ Asks(r)
      /\ req' = r /\ at' = 0 /\ calm' = TRUE /\ reply' = NoAnswer
      /\ tries' = Retries(r.kind) /\ pc' = Dispatch(r.kind)
      /\ buf' = Aged(buf) /\ response' = Aged(response)
      /\ UNCHANGED <<fds, files, rpmb, register, attention, incidents>>
  BY DEF Receive
<1>2. pc' \in {"reliable", "request", "do"}
  BY <1>1, DispatchIs
<1>3. TypeOK'
  <2>1. at' \in 0..Size /\ tries' \in 0..3
    BY <1>1, Bounds, DispatchIs
  <2>2. buf' \in Frames /\ response' \in Frames
    BY <1>1, AgedIs DEF IInv, TypeOK
  <2> QED
    BY <1>0, <1>1, <1>2, <2>1, <2>2, AnswerIs DEF IInv, TypeOK, TaStates
<1>4. HandleInv'
  BY <1>0, <1>1, <1>2 DEF IInv, HandleInv, Away
<1>5. RequestInv'
  BY <1>0, <1>1, DispatchIs, AsksIs DEF RequestInv
<1>6. WriteInv'
  <2>1. req'.kind = "write" => req'.from + Length(req'.data) <= Size /\ at' <= Length(req'.data)
    BY <1>1, AsksIs, RequestIs, PayloadIs, Bounds
  <2> QED
    BY <1>1, <2>1 DEF WriteInv
<1>7. ReplyInv'
  BY <1>2 DEF ReplyInv
<1>8. FrameInv'
  <2>1. register' \in Frames /\ buf \in Frames /\ response \in Frames
    BY <1>1 DEF IInv, TypeOK
  <2>2. /\ buf'.kind \in {buf.kind, "stale"} /\ buf'.count = buf.count /\ buf'.kind # "read"
        /\ response'.kind \in {response.kind, "stale"} /\ response'.count = response.count
        /\ response'.kind # "read"
    BY <1>1, <2>1, AgedIs
  <2> QED
    BY <1>1, <2>2 DEF IInv, FrameInv
<1>9. CountInv'
  <2>1. ta.sure => ta.count = rpmb.count
    BY <1>1 DEF IInv, CountInv, Busy
  <2>2. r.kind = "rpmbWrite" => ta.sure /\ r.count = ta.count /\ r.count < MaxCount
    BY <1>1, AsksIs
  <2> QED
    BY <1>0, <1>1, <2>1, <2>2, DispatchIs DEF CountInv
<1>10. CalmInv'
  BY <1>1, DispatchIs DEF CalmInv
<1> QED
  BY <1>3, <1>4, <1>5, <1>6, <1>7, <1>8, <1>9, <1>10 DEF IInv

\* The answer that Trusty takes: as it was sent, but for the verdict on a frame.
UnknownReply == [NoAnswer EXCEPT !.result = "unknown"]
SecretReply(secret) == [NoAnswer EXCEPT !.result = "ok", !.secret = secret]

LEMMA RpmbAnswerIs ==
    /\ UnknownReply \in Answers /\ UnknownReply.result = "unknown"
    /\ \A s \in Secrets : SecretReply(s) \in Answers /\ SecretReply(s).result = "ok"
    /\ [OkReply(0, Empty) EXCEPT !.result = "unknown"] = UnknownReply
    /\ [OkReply(0, Empty) EXCEPT !.result = "ok"] = OkReply(0, Empty)
    /\ \A s : [OkReply(0, Empty) EXCEPT !.secret = s] = SecretReply(s)
<1> DEFINE Shapes == [result : {"none", "ok"}, handle : {0}, content : {Empty}, secret : {NoAnswer.secret}]
<1>1. NoAnswer \in Shapes
  BY DEF NoAnswer
<1>2. UnknownReply \in Answers /\ UnknownReply.result = "unknown"
  BY AnswerIs DEF UnknownReply, Answers
<1>3. \A s \in Secrets : SecretReply(s) \in Answers /\ SecretReply(s).result = "ok"
  BY AnswerIs DEF SecretReply, Answers
<1>4. ASSUME NEW a \in Shapes, NEW s
      PROVE  LET ok == [a EXCEPT !.result = "ok"]
             IN /\ [ok EXCEPT !.result = "unknown"] = [a EXCEPT !.result = "unknown"]
                /\ [ok EXCEPT !.result = "ok"] = ok
                /\ [ok EXCEPT !.secret = s] = [a EXCEPT !.result = "ok", !.secret = s]
  OBVIOUS
<1>5. OkReply(0, Empty) = [NoAnswer EXCEPT !.result = "ok"]
  BY OkIs
<1> QED
  BY <1>1, <1>2, <1>3, <1>4, <1>5 DEF UnknownReply, SecretReply

LEMMA VerdictIs ==
    ASSUME IInv, pc = "reply"
    PROVE  /\ Verdict \in Answers
           /\ \/ reply = ErrorReply /\ Verdict = ErrorReply
              \/ /\ reply.result = "ok" /\ reply = OkReply(reply.handle, reply.content)
                 /\ \/ req.kind \notin {"rpmbWrite", "rpmbRead"} /\ Verdict = reply
                    \/ /\ req.kind \in {"rpmbWrite", "rpmbRead"} /\ Verdict = UnknownReply
                       /\ ~(buf.kind = "written" /\ buf.count = req.count + 1 /\ req.kind = "rpmbWrite")
                       /\ ~(buf.kind = "read" /\ req.kind = "rpmbRead")
                    \/ /\ req.kind = "rpmbWrite" /\ Verdict = OkReply(0, Empty)
                       /\ buf.kind = "written" /\ buf.count = req.count + 1
                    \/ /\ req.kind = "rpmbRead"
                       /\ buf.kind = "read"
                       /\ Verdict = SecretReply([count |-> buf.count, value |-> buf.value])
<1>0. /\ reply \in Answers /\ buf \in Frames
      /\ \/ reply = ErrorReply
         \/ /\ reply = OkReply(reply.handle, reply.content)
            /\ req.kind # "open" => reply.handle = 0
            /\ req.kind # "read" => reply.content = Empty
  BY DEF IInv, TypeOK, ReplyInv
<1>1. CASE reply = ErrorReply
  <2>1. reply.result # "ok"
    BY <1>1, AnswerIs
  <2>2. Verdict = reply
    BY <2>1 DEF Verdict
  <2> QED
    BY <1>0, <1>1, <2>2
<1>2. CASE reply # ErrorReply
  <2>1. /\ reply = OkReply(reply.handle, reply.content)
        /\ reply.handle \in {0} \cup Handles /\ reply.content \in Contents
    BY <1>0, <1>2 DEF Answers
  <2>2. reply.result = "ok"
    <3>1. PICK h \in {0} \cup Handles, c \in Contents : reply = OkReply(h, c)
      BY <2>1, Zenon
    <3>2. OkReply(h, c).result = "ok"
      BY AnswerIs
    <3> QED
      BY <3>1, <3>2
  <2>3. CASE req.kind = "rpmbWrite"
    <3>1. reply = OkReply(0, Empty)
      BY <1>0, <1>2, <2>3
    <3>2. Verdict = [reply EXCEPT !.result = IF buf.kind = "written" /\ buf.count = req.count + 1 THEN "ok"
                                             ELSE IF buf.kind = "refused" THEN "refused" ELSE "unknown"]
      BY <2>2, <2>3 DEF Verdict
    <3>3. buf.kind # "refused"
      BY DEF IInv, FrameInv
    <3>4. CASE buf.kind = "written" /\ buf.count = req.count + 1
      BY <3>1, <3>2, <3>4, <2>1, <2>2, <2>3, RpmbAnswerIs, <1>0
    <3>5. CASE ~(buf.kind = "written" /\ buf.count = req.count + 1)
      BY <3>1, <3>2, <3>3, <3>5, <2>1, <2>2, <2>3, RpmbAnswerIs
    <3> QED
      BY <3>4, <3>5
  <2>4. CASE req.kind = "rpmbRead"
    <3>1. reply = OkReply(0, Empty)
      BY <1>0, <1>2, <2>4
    <3>2. CASE buf.kind = "read"
      <4>1. Verdict = [reply EXCEPT !.secret = [count |-> buf.count, value |-> buf.value]]
        BY <2>2, <2>4, <3>2 DEF Verdict
      <4>2. [count |-> buf.count, value |-> buf.value] \in Secrets
        BY <1>0, FrameIs DEF Secrets
      <4> QED
        BY <4>1, <4>2, <3>1, <3>2, <2>1, <2>2, <2>4, RpmbAnswerIs
    <3>3. CASE buf.kind # "read"
      <4>1. Verdict = [reply EXCEPT !.result = "unknown"]
        BY <2>2, <2>4, <3>3 DEF Verdict
      <4> QED
        BY <4>1, <3>1, <3>3, <2>1, <2>2, <2>4, RpmbAnswerIs
    <3> QED
      BY <3>2, <3>3
  <2>5. CASE req.kind \notin {"rpmbWrite", "rpmbRead"}
    <3>1. Verdict = reply
      BY <2>2, <2>5 DEF Verdict
    <3> QED
      BY <3>1, <2>1, <2>2, <2>5, <1>0
  <2> QED
    BY <2>3, <2>4, <2>5
<1> QED
  BY <1>1, <1>2

LEMMA ResultsDiffer ==
    /\ ErrorReply.result = "error" /\ UnknownReply.result = "unknown"
    /\ OkReply(0, Empty).result = "ok"
    /\ \A s \in Secrets : SecretReply(s).result = "ok"
<1>1. OkReply(0, Empty).result = "ok"
  BY AnswerIs, EmptyIsContent
<1> QED
  BY <1>1, AnswerIs, RpmbAnswerIs

LEMMA BufIsSecret == IInv => [count |-> buf.count, value |-> buf.value] \in Secrets
  BY FrameIs DEF IInv, TypeOK, Secrets

LEMMA RespondKeeps == IInv /\ Respond => IInv'
<1> SUFFICES ASSUME IInv, Respond
             PROVE  IInv'
  OBVIOUS
<1>1. pc = "reply" /\ pc' = "serve" /\ Idle /\ ta.linked /\ UNCHANGED <<fds, files, device, buf>>
  BY DEF Respond
<1>2. ta' = [ta EXCEPT
         !.answer = Verdict,
         !.held   = IF req.kind = "open" /\ reply.result = "ok" THEN @ \cup {reply.handle} ELSE @,
         !.sure   = CASE req.kind = "rpmbWrite" -> Verdict.result = "ok"
                      [] req.kind = "rpmbRead"  -> @ \/ Verdict.result = "ok"
                      [] OTHER -> @,
         !.count  = CASE req.kind = "rpmbWrite" /\ Verdict.result = "ok" -> buf.count
                      [] req.kind = "rpmbRead" /\ Verdict.result = "ok"  -> buf.count
                      [] OTHER -> @]
  BY DEF Respond
<1>3. /\ DOMAIN ta' = DOMAIN ta /\ ta' = [f \in DOMAIN ta |-> ta'[f]]
      /\ ta \in TaStates
      /\ ta'.linked = ta.linked /\ ta'.answer = Verdict
      /\ ta'.held = IF req.kind = "open" /\ reply.result = "ok" THEN ta.held \cup {reply.handle} ELSE ta.held
      /\ ta'.sure = CASE req.kind = "rpmbWrite" -> Verdict.result = "ok"
                      [] req.kind = "rpmbRead"  -> ta.sure \/ Verdict.result = "ok"
                      [] OTHER -> ta.sure
      /\ ta'.count = CASE req.kind = "rpmbWrite" /\ Verdict.result = "ok" -> buf.count
                       [] req.kind = "rpmbRead" /\ Verdict.result = "ok"  -> buf.count
                       [] OTHER -> ta.count
  BY <1>2 DEF IInv, TypeOK, TaStates
<1>4. /\ Verdict \in Answers
      /\ req.kind = "open" /\ reply.result = "ok" =>
           reply.handle \in Handles /\ fds[reply.handle] = req.name /\ req.name \in DOMAIN files
  BY <1>1, VerdictIs, ResultsDiffer DEF IInv, ReplyInv
<1>5. \/ ta'.sure \in BOOLEAN /\ ta'.count = buf.count /\ Verdict.result = "ok"
         /\ req.kind \in {"rpmbWrite", "rpmbRead"}
      \/ ta'.sure = FALSE /\ ta'.count = ta.count
      \/ ta'.sure = ta.sure /\ ta'.count = ta.count /\ req.kind # "rpmbWrite"
  <2>1. CASE req.kind = "rpmbWrite" /\ Verdict.result = "ok"
    <3>1. ta'.sure = TRUE /\ ta'.count = buf.count
      BY <1>3, <2>1
    <3> QED
      BY <2>1, <3>1
  <2>2. CASE req.kind = "rpmbWrite" /\ Verdict.result # "ok"
    <3>1. ta'.sure = FALSE
      BY <1>3, <2>2
    <3>2. ta'.count = ta.count
      BY <1>3, <2>2
    <3> QED
      BY <3>1, <3>2
  <2>3. CASE req.kind = "rpmbRead" /\ Verdict.result = "ok"
    <3>1. ta'.sure = TRUE /\ ta'.count = buf.count
      BY <1>3, <2>3
    <3> QED
      BY <2>3, <3>1
  <2>4. CASE req.kind = "rpmbRead" /\ Verdict.result # "ok"
    <3>1. ta'.sure = (ta.sure \/ Verdict.result = "ok")
      BY <1>3, <2>4
    <3>2. ta'.sure = ta.sure
      BY <3>1, <2>4, <1>3 DEF TaStates
    <3>3. ta'.count = ta.count
      BY <1>3, <2>4
    <3> QED
      BY <2>4, <3>2, <3>3
  <2>5. CASE req.kind \notin {"rpmbWrite", "rpmbRead"}
    <3>1. ta'.sure = ta.sure
      BY <1>3, <2>5
    <3>2. ta'.count = ta.count
      BY <1>3, <2>5
    <3> QED
      BY <2>5, <3>1, <3>2
  <2> QED
    BY <2>1, <2>2, <2>3, <2>4, <2>5
<1>6. TypeOK'
  <2>1. ta'.sure \in BOOLEAN /\ ta'.count \in Counts /\ ta'.held \in SUBSET Handles
    <3>1. buf.count \in Counts /\ ta.sure \in BOOLEAN /\ ta.count \in Counts /\ ta.held \subseteq Handles
      BY FrameIs, <1>3 DEF IInv, TypeOK, TaStates
    <3> QED
      BY <1>3, <1>4, <1>5, <3>1
  <2>2. ta' \in TaStates
    <3>1. ta' = [linked |-> ta.linked, held |-> ta'.held, sure |-> ta'.sure, count |-> ta'.count,
                 answer |-> Verdict]
      BY <1>3 DEF TaStates
    <3>2. ta.linked \in BOOLEAN
      BY <1>3 DEF TaStates
    <3> QED
      BY <2>1, <3>1, <3>2, <1>4 DEF TaStates
  <2> QED
    BY <1>1, <2>2, IdleType DEF IInv, TypeOK, TaStates, device
<1>7. HandleInv'
  BY <1>1, <1>3, <1>4 DEF IInv, HandleInv, Away
<1>8. RequestInv' /\ WriteInv' /\ ReplyInv' /\ CalmInv'
  BY <1>1, Unasked
<1>9. FrameInv'
  BY <1>1 DEF IInv, FrameInv, Busy, device
<1>10. CountInv'
  <2>1. SUFFICES ASSUME ta'.sure
                 PROVE  ta'.count = rpmb.count
    BY <1>1 DEF CountInv, Busy, device
  <2>2. CASE Verdict.result = "ok" /\ req.kind = "rpmbWrite" /\ ta'.count = buf.count
    <3>1. buf.kind = "written" /\ buf.count = req.count + 1
      BY <1>1, <2>2, VerdictIs, ResultsDiffer, BufIsSecret
    <3>2. buf.count <= rpmb.count /\ rpmb.count \in {req.count, req.count + 1}
      BY <1>1, <2>2, <3>1 DEF IInv, FrameInv, CountInv, Busy
    <3>3. req.count \in Nat
      BY <1>1, <2>2, RequestIs, CountsAreNat DEF IInv, RequestInv, Busy
    <3> QED
      BY <2>2, <3>1, <3>2, <3>3
  <2>3. CASE Verdict.result = "ok" /\ req.kind = "rpmbRead" /\ ta'.count = buf.count
    <3>1. buf.kind = "read"
      BY <1>1, <2>3, VerdictIs, ResultsDiffer, BufIsSecret
    <3> QED
      BY <1>1, <2>3, <3>1 DEF IInv, FrameInv, Busy
  <2>4. CASE ta'.sure = ta.sure /\ ta'.count = ta.count /\ req.kind # "rpmbWrite"
    BY <2>1, <2>4 DEF IInv, CountInv
  <2> QED
    BY <1>5, <2>1, <2>2, <2>3, <2>4
<1> QED
  BY <1>6, <1>7, <1>8, <1>9, <1>10 DEF IInv

-----------------------------------------------------------------------------
(***************************************************************************)
(* What is done with files keeps the invariant.                            *)
(***************************************************************************)
LEMMA RepliedIs ==
    /\ Replied("ok") => /\ pc' = "reply" /\ reply' \in Answers /\ reply'.result = "ok"
                        /\ reply' = OkReply(reply'.handle, reply'.content)
                        /\ reply'.handle = 0 /\ reply'.content = Empty
    /\ Replied("error") => /\ pc' = "reply" /\ reply' \in Answers /\ reply' = ErrorReply
                           /\ reply'.result = "error"
<1>1. ASSUME Replied("ok")
      PROVE  /\ pc' = "reply" /\ reply' \in Answers /\ reply'.result = "ok"
             /\ reply' = OkReply(reply'.handle, reply'.content)
             /\ reply'.handle = 0 /\ reply'.content = Empty
  <2>1. pc' = "reply" /\ reply' = OkReply(0, Empty)
    BY <1>1, OkIs DEF Replied
  <2>2. /\ OkReply(0, Empty) \in Answers /\ OkReply(0, Empty).result = "ok"
        /\ OkReply(0, Empty).handle = 0 /\ OkReply(0, Empty).content = Empty
    BY AnswerIs, EmptyIsContent
  <2> QED
    BY <2>1, <2>2
<1>2. ASSUME Replied("error")
      PROVE  /\ pc' = "reply" /\ reply' \in Answers /\ reply' = ErrorReply
             /\ reply'.result = "error"
  <2>1. pc' = "reply" /\ reply' = ErrorReply
    BY <1>2 DEF Replied, ErrorReply
  <2> QED
    BY <2>1, AnswerIs
<1> QED
  BY <1>1, <1>2

LEMMA WithIs ==
    ASSUME IInv, NEW n \in Names, NEW c \in Contents
    PROVE  /\ DOMAIN With(files, n, c) = DOMAIN files \cup {n}
           /\ With(files, n, c) \in [DOMAIN files \cup {n} -> Contents]
           /\ DOMAIN files \cup {n} \subseteq Names
           /\ With(files, n, c)[n] = c
  BY DEF IInv, TypeOK, With

LEMMA FileOfHandle ==
    ASSUME IInv, req.handle \in ta.held
    PROVE  /\ req.handle \in Handles
           /\ File \in DOMAIN files /\ File \in Names /\ files[File] \in Contents
<1>1. req.handle \in Handles /\ DOMAIN files \subseteq Names /\ files \in [DOMAIN files -> Contents]
  BY DEF IInv, TypeOK
<1>2. File \in DOMAIN files
  BY DEF IInv, HandleInv, File
<1> QED
  BY <1>1, <1>2

LEMMA NoFrames ==
    ASSUME IInv, pc \in {"do", "create"}, pc' \in {"do", "create", "reply"}, NoDevice,
           ta'.sure = ta.sure, ta'.count = ta.count
    PROVE  FrameInv' /\ CountInv' /\ CalmInv'
<1>1. req.kind \notin {"rpmbWrite", "rpmbRead"}
  BY DEF IInv, RequestInv
<1>2. UNCHANGED <<req, tries, rpmb, register, response, attention, buf, calm>>
  BY DEF NoDevice, device
<1>3. FrameInv'
  BY <1>1, <1>2 DEF IInv, FrameInv
<1>4. CountInv'
  BY <1>1, <1>2 DEF IInv, CountInv
<1>5. CalmInv'
  BY <1>1, <1>2 DEF IInv, CalmInv
<1> QED
  BY <1>3, <1>4, <1>5

LEMMA ErrorKeeps ==
    ASSUME IInv, pc \in {"do", "create"}, Replied("error"), UNCHANGED <<fds, files, at, ta>>, NoDevice
    PROVE  IInv'
<1>1. TypeOK'
  BY RepliedIs DEF IInv, TypeOK, NoDevice, device
<1>2. HandleInv'
  BY RepliedIs DEF IInv, HandleInv, Away
<1>3. RequestInv'
  BY RepliedIs DEF IInv, RequestInv, Busy, NoDevice, OnHandle
<1>4. WriteInv'
  BY RepliedIs DEF IInv, WriteInv, Busy, NoDevice
<1>5. ReplyInv'
  BY RepliedIs DEF ReplyInv
<1>6. FrameInv' /\ CountInv' /\ CalmInv'
  BY RepliedIs, NoFrames
<1> QED
  BY <1>1, <1>2, <1>3, <1>4, <1>5, <1>6 DEF IInv

LEMMA OpenAsKeeps ==
    ASSUME IInv, pc \in {"do", "create"}, req.kind = "open", Free # {},
           NEW content \in Contents, OpenAs(content), UNCHANGED <<at, ta>>, NoDevice
    PROVE  IInv'
<1>0. /\ req \in Requests /\ req.name \in Names
      /\ UNCHANGED <<req, tries, device, buf, calm>>
  BY RequestIs DEF IInv, RequestInv, Busy, NoDevice
<1> DEFINE new == Lowest(Free)
<1>1. new \in Handles /\ fds[new] = "free"
  <2>1. Free \in SUBSET Handles
    BY DEF Free
  <2>2. new \in Free
    BY <2>1, LowestIs
  <2> QED
    BY <2>2 DEF Free
<1>2. /\ fds' = [fds EXCEPT ![new] = req.name]
      /\ files' = With(files, req.name, content)
      /\ pc' = "reply" /\ reply' = OkReply(new, Empty)
  BY OkIs DEF OpenAs
<1> HIDE DEF new
<1>3. reply' \in Answers /\ reply'.result = "ok" /\ reply'.handle = new /\ reply'.content = Empty
  <2>1. /\ OkReply(new, Empty) \in Answers /\ OkReply(new, Empty).result = "ok"
        /\ OkReply(new, Empty).handle = new /\ OkReply(new, Empty).content = Empty
    <3>1. new \in {0} \cup Handles
      BY <1>1
    <3> QED
      BY <3>1, AnswerIs, EmptyIsContent
  <2> QED
    BY <1>2, <2>1
<1>4. /\ DOMAIN files' = DOMAIN files \cup {req.name} /\ files' \in [DOMAIN files' -> Contents]
      /\ DOMAIN files' \subseteq Names
  <2>1. /\ DOMAIN With(files, req.name, content) = DOMAIN files \cup {req.name}
        /\ With(files, req.name, content) \in [DOMAIN files \cup {req.name} -> Contents]
        /\ DOMAIN files \cup {req.name} \subseteq Names
    BY <1>0, WithIs
  <2> QED
    BY <1>2, <2>1
<1>5. TypeOK'
  BY <1>0, <1>1, <1>2, <1>3, <1>4 DEF IInv, TypeOK, device
<1>6. new \notin ta.held
  <2>1. fds[new] \notin Names
    BY <1>1, Reserved
  <2> QED
    BY <2>1 DEF IInv, HandleInv, TypeOK
<1>7. HandleInv'
  <2>1. \A h \in ta.held : fds'[h] = fds[h]
    BY <1>2, <1>6 DEF IInv, TypeOK
  <2> QED
    BY <1>2, <1>4, <2>1 DEF IInv, HandleInv, Away
<1>8. RequestInv' /\ WriteInv'
  BY <1>0, <1>2 DEF RequestInv, WriteInv
<1>9. ReplyInv'
  <2>1. fds'[new] = req.name
    BY <1>1, <1>2 DEF IInv, TypeOK
  <2> QED
    BY <1>0, <1>1, <1>2, <1>3, <1>4, <1>6, <2>1 DEF ReplyInv
<1>10. FrameInv' /\ CountInv' /\ CalmInv'
  BY <1>2, NoFrames
<1> QED
  BY <1>5, <1>7, <1>8, <1>9, <1>10 DEF IInv

LEMMA OpenKeeps == IInv /\ Open => IInv'
<1> SUFFICES ASSUME IInv, Open
             PROVE  IInv'
  OBVIOUS
<1>0. pc = "do" /\ req.kind = "open" /\ UNCHANGED <<at, ta>> /\ NoDevice
  BY DEF Open, Handling
<1>1. CASE OpenFails
  BY <1>0, <1>1, ErrorKeeps DEF OpenFails
<1>2. CASE /\ Free # {} /\ req.name \in DOMAIN files
           /\ OpenAs(IF "truncate" \in req.flags THEN Empty ELSE files[req.name])
  <2>1. (IF "truncate" \in req.flags THEN Empty ELSE files[req.name]) \in Contents
    BY <1>2, EmptyIsContent DEF IInv, TypeOK
  <2> QED
    BY <1>0, <1>2, <2>1, OpenAsKeeps
<1>3. CASE /\ Free # {} /\ req.name \notin DOMAIN files /\ "create" \in req.flags
           /\ pc' = "create" /\ UNCHANGED <<fds, files, reply>>
  <2>1. TypeOK'
    BY <1>0, <1>3 DEF IInv, TypeOK, NoDevice, device
  <2>2. HandleInv'
    BY <1>0, <1>3 DEF IInv, HandleInv, Away
  <2>3. RequestInv'
    BY <1>0, <1>3 DEF IInv, RequestInv, Busy, NoDevice, Free, Created
  <2>4. WriteInv' /\ ReplyInv'
    BY <1>0, <1>3 DEF WriteInv, ReplyInv, NoDevice
  <2>5. FrameInv' /\ CountInv' /\ CalmInv'
    BY <1>0, <1>3, NoFrames
  <2> QED
    BY <2>1, <2>2, <2>3, <2>4, <2>5 DEF IInv
<1>4. OpenFails \/ <1>2!1 \/ <1>3!1
  BY DEF Open
<1> QED
  BY <1>1, <1>2, <1>3, <1>4

LEMMA CreateKeeps == IInv /\ Create => IInv'
<1> SUFFICES ASSUME IInv, Create
             PROVE  IInv'
  OBVIOUS
<1>0. /\ pc = "create" /\ req.kind = "open" /\ Free # {}
      /\ UNCHANGED <<at, ta>> /\ NoDevice
  BY DEF Create, IInv, RequestInv
<1>1. CASE OpenAs(Empty)
  BY <1>0, <1>1, OpenAsKeeps, EmptyIsContent
<1>2. CASE OpenFails
  BY <1>0, <1>2, ErrorKeeps DEF OpenFails
<1> QED
  BY <1>1, <1>2 DEF Create

LEMMA CloseKeeps == IInv /\ Close => IInv'
<1> SUFFICES ASSUME IInv, Close
             PROVE  IInv'
  OBVIOUS
<1>0. /\ pc = "do" /\ req.kind = "close" /\ Replied("ok") /\ req.handle \in ta.held
      /\ fds' = [fds EXCEPT ![req.handle] = "free"]
      /\ ta' = [ta EXCEPT !.held = @ \ {req.handle}]
      /\ UNCHANGED <<at, files>> /\ NoDevice
  BY DEF Close, Handling, IInv, RequestInv, OnHandle
<1>1. /\ ta' \in TaStates /\ ta'.held = ta.held \ {req.handle}
      /\ ta'.sure = ta.sure /\ ta'.count = ta.count
  BY <1>0 DEF IInv, TypeOK, TaStates
<1>2. fds' \in [Handles -> Names \cup {"free", "rpmb", "tipc"}]
  BY <1>0 DEF IInv, TypeOK
<1>3. TypeOK'
  BY <1>0, <1>1, <1>2, RepliedIs DEF IInv, TypeOK, TaStates, NoDevice, device
<1>4. HandleInv'
  <2>1. \A h \in ta'.held : fds'[h] = fds[h] /\ h \in ta.held
    BY <1>0, <1>1 DEF IInv, TypeOK
  <2> QED
    BY <1>0, <2>1, RepliedIs DEF IInv, HandleInv, Away
<1>5. RequestInv' /\ WriteInv'
  BY <1>0, RepliedIs DEF IInv, RequestInv, WriteInv, Busy, NoDevice
<1>6. ReplyInv'
  BY <1>0, RepliedIs DEF ReplyInv, NoDevice
<1>7. FrameInv' /\ CountInv' /\ CalmInv'
  BY <1>0, <1>1, RepliedIs, NoFrames
<1> QED
  BY <1>3, <1>4, <1>5, <1>6, <1>7 DEF IInv

LEMMA DeleteKeeps == IInv /\ Delete => IInv'
<1> SUFFICES ASSUME IInv, Delete
             PROVE  IInv'
  OBVIOUS
<1>0. /\ pc = "do" /\ req.kind = "delete"
      /\ files' = Without(files, req.name)
      /\ Replied("ok") \/ Replied("error")
      /\ UNCHANGED <<fds, at, ta>> /\ NoDevice
  BY DEF Delete, Handling
<1>1. /\ DOMAIN files' = DOMAIN files \ {req.name} /\ files' \in [DOMAIN files' -> Contents]
      /\ DOMAIN files' \subseteq Names
  BY <1>0 DEF IInv, TypeOK, Without
<1>2. TypeOK'
  BY <1>0, <1>1, RepliedIs DEF IInv, TypeOK, NoDevice, device
<1>3. HandleInv'
  <2>1. \A h \in ta.held : fds[h] # req.name
    BY <1>0 DEF IInv, RequestInv
  <2> QED
    BY <1>0, <1>1, <2>1, RepliedIs DEF IInv, HandleInv, Away
<1>4. RequestInv' /\ WriteInv'
  BY <1>0, RepliedIs DEF IInv, RequestInv, WriteInv, Busy, NoDevice
<1>5. ReplyInv'
  BY <1>0, RepliedIs DEF ReplyInv, NoDevice
<1>6. FrameInv' /\ CountInv' /\ CalmInv'
  BY <1>0, RepliedIs, NoFrames
<1> QED
  BY <1>2, <1>3, <1>4, <1>5, <1>6 DEF IInv

LEMMA ReadReplies ==
    ASSUME IInv, Read
    PROVE  /\ pc = "do" /\ req.kind = "read" /\ req.handle \in ta.held
           /\ pc' = "reply" /\ reply' = OkReply(0, files[File])
           /\ reply' \in Answers /\ reply'.result = "ok"
           /\ reply'.handle = 0 /\ reply'.content = files[File]
           /\ UNCHANGED <<fds, at, files, ta>> /\ NoDevice
<1>0. /\ pc = "do" /\ req.kind = "read" /\ req.handle \in ta.held
      /\ pc' = "reply" /\ reply' = OkReply(0, files[File])
      /\ UNCHANGED <<fds, at, files, ta>> /\ NoDevice
  BY OkIs DEF Read, Handling, IInv, RequestInv, OnHandle
<1>1. files[File] \in Contents
  BY <1>0, FileOfHandle
<1>2. /\ OkReply(0, files[File]) \in Answers /\ OkReply(0, files[File]).result = "ok"
      /\ OkReply(0, files[File]).handle = 0 /\ OkReply(0, files[File]).content = files[File]
  BY <1>1, AnswerIs
<1> QED
  BY <1>0, <1>2

LEMMA ReadKeeps == IInv /\ Read => IInv'
<1> SUFFICES ASSUME IInv, Read
             PROVE  IInv'
  OBVIOUS
<1>1. TypeOK'
  BY ReadReplies DEF IInv, TypeOK, NoDevice, device
<1>2. HandleInv'
  BY ReadReplies DEF IInv, HandleInv, Away
<1>3. RequestInv' /\ WriteInv'
  BY ReadReplies DEF IInv, RequestInv, WriteInv, Busy, NoDevice
<1>4. ReplyInv'
  BY ReadReplies DEF ReplyInv, NoDevice, File
<1>5. FrameInv' /\ CountInv' /\ CalmInv'
  BY ReadReplies, NoFrames
<1> QED
  BY <1>1, <1>2, <1>3, <1>4, <1>5 DEF IInv

\* The content of the file of a handle is replaced.
LEMMA RewriteKeeps ==
    ASSUME IInv, req.handle \in ta.held, NEW c \in Contents, files' = With(files, File, c),
           pc = "do", pc' \in {"do", "reply"}, ta' = ta, fds' = fds
    PROVE  /\ DOMAIN files' = DOMAIN files /\ files' \in [DOMAIN files -> Contents]
           /\ files'[File] = c
           /\ HandleInv'
<1>1. File \in DOMAIN files /\ File \in Names
  BY FileOfHandle
<1>2. /\ DOMAIN With(files, File, c) = DOMAIN files \cup {File}
      /\ With(files, File, c) \in [DOMAIN files \cup {File} -> Contents]
      /\ With(files, File, c)[File] = c
  BY <1>1, WithIs
<1>3. DOMAIN files \cup {File} = DOMAIN files
  BY <1>1
<1>4. DOMAIN files' = DOMAIN files
  BY <1>2, <1>3
<1>5. HandleInv'
  BY <1>4 DEF IInv, HandleInv, Away
<1> QED
  BY <1>2, <1>3, <1>4, <1>5

LEMMA ResizeKeeps == IInv /\ Resize => IInv'
<1> SUFFICES ASSUME IInv, Resize
             PROVE  IInv'
  OBVIOUS
<1>0. /\ pc = "do" /\ req.kind = "resize" /\ req.handle \in ta.held /\ req \in Requests
      /\ files' = With(files, File, Resized(files[File], req.size)) /\ Replied("ok")
      /\ UNCHANGED <<fds, at, ta>> /\ NoDevice
  BY DEF Resize, Handling, IInv, RequestInv, OnHandle, Busy
<1>1. Resized(files[File], req.size) \in Contents
  BY <1>0, FileOfHandle, RequestIs, ResizedIs
<1>2. /\ DOMAIN files' = DOMAIN files /\ files' \in [DOMAIN files -> Contents] /\ HandleInv'
  BY <1>0, <1>1, RepliedIs, RewriteKeeps
<1>3. TypeOK'
  BY <1>0, <1>2, RepliedIs DEF IInv, TypeOK, NoDevice, device
<1>4. RequestInv' /\ WriteInv'
  BY <1>0, RepliedIs DEF IInv, RequestInv, WriteInv, Busy, NoDevice
<1>5. ReplyInv'
  BY <1>0, RepliedIs DEF ReplyInv, NoDevice
<1>6. FrameInv' /\ CountInv' /\ CalmInv'
  BY <1>0, RepliedIs, NoFrames
<1> QED
  BY <1>2, <1>3, <1>4, <1>5, <1>6 DEF IInv

\* One turn of write_full: what it leaves in the file is a payload of which more is written.
LEMMA WriteWrites ==
    ASSUME IInv, NEW n \in 1..Size, Write(n)
    PROVE  /\ pc = "do" /\ req.kind = "write" /\ req \in Requests /\ req.handle \in ta.held
           /\ at \in Nat /\ n \in Nat /\ at + n <= Length(req.data)
           /\ files[File] \in Contents
           /\ LET c == Patched(files[File], req.from + at, Part(req.data, at, n))
              IN /\ files' = With(files, File, c) /\ c \in Contents
                 /\ c = Patched(files[File], req.from, Part(req.data, 0, at + n))
                 /\ \A j \in 1..(at + n) : req.from + j \in Blocks(c) /\ c[req.from + j] = req.data[j]
           /\ at' = at + n
           /\ IF at + n = Length(req.data) THEN Replied("ok") ELSE UNCHANGED <<pc, reply>>
           /\ UNCHANGED <<fds, ta>> /\ NoDevice
<1>0. /\ pc = "do" /\ req.kind = "write" /\ req \in Requests /\ req.handle \in ta.held
      /\ files' = With(files, File, Patched(files[File], req.from + at, Part(req.data, at, n)))
      /\ at + n \in Blocks(req.data) /\ at' = at + n
      /\ IF at + n = Length(req.data) THEN Replied("ok") ELSE UNCHANGED <<pc, reply>>
      /\ UNCHANGED <<fds, ta>> /\ NoDevice
  BY DEF Write, Handling, Rest, Part, IInv, RequestInv, OnHandle, Busy
<1>1. req.data \in Payloads /\ req.from \in 0..Size
  BY <1>0, RequestIs
<1>2. Blocks(req.data) = 1..Length(req.data) /\ Length(req.data) \in 1..Size
  BY <1>1, PayloadIs
<1>3. at \in Nat /\ n \in Nat /\ req.from \in Nat
  BY <1>1, Bounds DEF IInv, TypeOK
<1>4. at + n <= Length(req.data)
  BY <1>0, <1>2, <1>3
<1>5. files[File] \in Contents
  BY <1>0, FileOfHandle
<1>6. req.from + Length(req.data) <= Size /\ Begun(files[File], req.from, req.data, at)
  BY <1>0 DEF IInv, WriteInv, Busy, Begun
<1> DEFINE c == Patched(files[File], req.from + at, Part(req.data, at, n))
<1>7. /\ c = Patched(files[File], req.from, Part(req.data, 0, at + n))
      /\ c \in Contents
      /\ Begun(c, req.from, req.data, at + n)
  BY <1>1, <1>3, <1>4, <1>5, <1>6, WritesJoin
<1> HIDE DEF c
<1>8. files' = With(files, File, c)
  BY <1>0 DEF c
<1> QED
  BY <1>0, <1>3, <1>4, <1>5, <1>7, <1>8 DEF c, Begun

LEMMA WriteKeeps == ASSUME NEW n \in 1..Size PROVE IInv /\ Write(n) => IInv'
<1> SUFFICES ASSUME IInv, Write(n)
             PROVE  IInv'
  OBVIOUS
<1> DEFINE c == Patched(files[File], req.from + at, Part(req.data, at, n))
<1>0. /\ pc = "do" /\ req.kind = "write" /\ req \in Requests /\ req.handle \in ta.held
      /\ at \in Nat /\ at + n <= Length(req.data) /\ at' = at + n
      /\ files' = With(files, File, c) /\ c \in Contents
      /\ \A j \in 1..(at + n) : req.from + j \in Blocks(c) /\ c[req.from + j] = req.data[j]
      /\ IF at + n = Length(req.data) THEN Replied("ok") ELSE UNCHANGED <<pc, reply>>
      /\ UNCHANGED <<fds, ta>> /\ NoDevice
  BY WriteWrites
<1> HIDE DEF c
<1>1. /\ pc' \in {"do", "reply"} /\ reply' \in Answers
      /\ pc' = "reply" => /\ reply' = OkReply(reply'.handle, reply'.content)
                          /\ reply'.handle = 0 /\ reply'.content = Empty /\ at' = Length(req.data)
  BY <1>0, RepliedIs DEF IInv, TypeOK
<1>2. /\ DOMAIN files' = DOMAIN files /\ files' \in [DOMAIN files -> Contents] /\ files'[File] = c
      /\ HandleInv'
  BY <1>0, <1>1, RewriteKeeps
<1>3. at' \in 0..Size
  <2>1. Length(req.data) \in 1..Size
    BY <1>0, RequestIs, PayloadIs
  <2> QED
    BY <1>0, <2>1, Bounds
<1>4. TypeOK'
  BY <1>0, <1>1, <1>2, <1>3 DEF IInv, TypeOK, NoDevice, device
<1>5. RequestInv'
  BY <1>0, <1>1 DEF IInv, RequestInv, Busy, NoDevice
<1>6. WriteInv'
  <2>1. File' = File /\ req' = req
    BY <1>0 DEF File, NoDevice
  <2>2. req.from + Length(req.data) <= Size
    BY <1>0 DEF IInv, WriteInv, Busy
  <2> QED
    BY <1>0, <1>2, <2>1, <2>2 DEF WriteInv
<1>7. ReplyInv'
  BY <1>0, <1>1 DEF ReplyInv, NoDevice
<1>8. FrameInv' /\ CountInv' /\ CalmInv'
  BY <1>0, <1>1, NoFrames
<1> QED
  BY <1>2, <1>4, <1>5, <1>6, <1>7, <1>8 DEF IInv

LEMMA WriteFailsKeeps == IInv /\ WriteFails => IInv'
  BY ErrorKeeps DEF WriteFails, Handling

-----------------------------------------------------------------------------
(***************************************************************************)
(* The RPMB channel keeps the invariant.                                   *)
(***************************************************************************)
Ignored == UNCHANGED <<rpmb, register, response, buf>>

\* What the three commands share: obeyed at once, refused after a reset, or in doubt.
GoodIo(obeyed)   == ~attention /\ obeyed /\ UNCHANGED <<attention, incidents, calm>>
LateIo           == attention /\ Ignored /\ attention' = FALSE /\ UNCHANGED <<incidents, calm>>
Doubtful(obeyed) == Incident /\ (Ignored \/ (~attention /\ obeyed)) /\ UNCHANGED attention

LEMMA ProgrammedIo ==
    ASSUME NEW result \in SgResults, SgIo(Programmed, result)
    PROVE  \/ result = "good" /\ GoodIo(Programmed)
           \/ result = "attention" /\ LateIo
           \/ result \in {"bad", "failed"} /\ Doubtful(Programmed)
<1>1. CASE result = "good"
  BY <1>1 DEF SgIo, GoodIo
<1>2. CASE result = "attention"
  BY <1>2 DEF SgIo, LateIo, Ignored
<1>3. CASE result \in {"bad", "failed"}
  BY <1>3 DEF SgIo, Doubtful, Ignored
<1> QED
  BY <1>1, <1>2, <1>3 DEF SgResults

LEMMA RequestedIo ==
    ASSUME NEW result \in SgResults, SgIo(Requested, result)
    PROVE  \/ result = "good" /\ GoodIo(Requested)
           \/ result = "attention" /\ LateIo
           \/ result \in {"bad", "failed"} /\ Doubtful(Requested)
<1>1. CASE result = "good"
  BY <1>1 DEF SgIo, GoodIo
<1>2. CASE result = "attention"
  BY <1>2 DEF SgIo, LateIo, Ignored
<1>3. CASE result \in {"bad", "failed"}
  BY <1>3 DEF SgIo, Doubtful, Ignored
<1> QED
  BY <1>1, <1>2, <1>3 DEF SgResults

LEMMA FetchedIo ==
    ASSUME NEW result \in SgResults, SgIo(Fetched, result)
    PROVE  \/ result = "good" /\ GoodIo(Fetched)
           \/ result = "attention" /\ LateIo
           \/ result \in {"bad", "failed"} /\ Doubtful(Fetched)
<1>1. CASE result = "good"
  BY <1>1 DEF SgIo, GoodIo
<1>2. CASE result = "attention"
  BY <1>2 DEF SgIo, LateIo, Ignored
<1>3. CASE result \in {"bad", "failed"}
  BY <1>3 DEF SgIo, Doubtful, Ignored
<1> QED
  BY <1>1, <1>2, <1>3 DEF SgResults

\* How the daemon goes on: it stays only to repeat what was not obeyed.
Stays(result) == result = "attention" /\ pc' = pc /\ reply' = reply /\ tries > 0 /\ tries' = tries - 1
Passes(result, next) ==
    /\ result # "failed" /\ tries' = 0
    /\ result = "attention" => ~(tries > 0)
    /\ IF next = "reply" THEN Replied("ok") ELSE pc' = next /\ reply' = reply
GivesUp(result) == result = "failed" /\ tries' = 0 /\ Replied("error")

LEMMA GoesOn ==
    ASSUME NEW result \in SgResults, NEW next \in {"request", "fetch", "reply"}, Proceed(result, next)
    PROVE  /\ Stays(result) \/ Passes(result, next) \/ GivesUp(result)
           /\ UNCHANGED <<fds, req, at, files, ta>>
<1>1. CASE result = "failed"
  BY <1>1 DEF Proceed, Again, GivesUp
<1>2. CASE result # "failed" /\ Again(result)
  BY <1>2 DEF Proceed, Again, Stays
<1>3. CASE result # "failed" /\ ~Again(result) /\ next = "reply"
  BY <1>3 DEF Proceed, Again, Passes
<1>4. CASE result # "failed" /\ ~Again(result) /\ next # "reply"
  BY <1>4 DEF Proceed, Again, Passes
<1> QED
  BY <1>1, <1>2, <1>3, <1>4

\* Where a step of an exchange leads, and what it leaves alone.
LEMMA ExchangeGoesOn ==
    ASSUME IInv, pc \in {"reliable", "request", "fetch"},
           NEW result \in SgResults, NEW next \in {"request", "fetch", "reply"}, Proceed(result, next),
           rpmb' \in Secrets, register' \in Frames, response' \in Frames, buf' \in Frames,
           attention' \in BOOLEAN, calm' \in BOOLEAN, incidents' \in 0..MaxIncidents
    PROVE  TypeOK' /\ HandleInv' /\ RequestInv' /\ WriteInv' /\ ReplyInv'
<1>0. /\ UNCHANGED <<fds, req, at, files, ta>>
      /\ req.kind \in {"rpmbWrite", "rpmbRead"} /\ req \in Requests
  BY GoesOn DEF IInv, RequestInv, Busy
<1>1. /\ pc' \in {pc, next, "reply"} /\ tries' \in 0..3 /\ reply' \in Answers
      /\ pc' = "reply" =>
           \/ reply' = ErrorReply
           \/ /\ reply' = OkReply(reply'.handle, reply'.content)
              /\ reply'.handle = 0 /\ reply'.content = Empty
      /\ pc' \in {"reliable", "request", "fetch", "reply"}
      /\ pc' = "reliable" => pc = "reliable"
  <2>1. CASE Stays(result)
    BY <2>1 DEF Stays, IInv, TypeOK
  <2>2. CASE Passes(result, next)
    BY <2>2, RepliedIs DEF Passes, IInv, TypeOK
  <2>3. CASE GivesUp(result)
    BY <2>3, RepliedIs DEF GivesUp
  <2> QED
    BY <2>1, <2>2, <2>3, GoesOn
<1>2. TypeOK'
  BY <1>0, <1>1 DEF IInv, TypeOK
<1>3. HandleInv'
  BY <1>0, <1>1 DEF IInv, HandleInv, Away
<1>4. RequestInv'
  BY <1>0, <1>1 DEF IInv, RequestInv
<1>5. WriteInv' /\ ReplyInv'
  BY <1>0, <1>1 DEF WriteInv, ReplyInv
<1> QED
  BY <1>2, <1>3, <1>4, <1>5

LEMMA IncidentIs == TypeOK /\ Incident => incidents' \in 0..MaxIncidents /\ calm' = FALSE
  BY Bounds DEF TypeOK, Incident

LEMMA ReliableWriteKeeps == IInv /\ ReliableWrite => IInv'
<1> SUFFICES ASSUME IInv, ReliableWrite
             PROVE  IInv'
  OBVIOUS
<1>1. PICK result \in SgResults : SgIo(Programmed, result) /\ Proceed(result, "request")
  BY Zenon DEF ReliableWrite
<1>2. /\ pc = "reliable" /\ req.kind = "rpmbWrite" /\ req \in Requests
      /\ req.count \in Nat /\ req.count < MaxCount /\ req.value \in Values
      /\ rpmb.count = req.count
  BY RequestIs, CountsAreNat DEF ReliableWrite, IInv, RequestInv, CountInv, Busy
<1>3. /\ req' = req /\ ta' = ta
      /\ Stays(result) \/ Passes(result, "request") \/ GivesUp(result)
  BY <1>1, GoesOn
<1> DEFINE Obeyed ==
             /\ rpmb' = [count |-> req.count + 1, value |-> req.value]
             /\ register' = [kind |-> "written", count |-> req.count + 1, value |-> "zero"]
             /\ response' = Junk /\ buf' = buf
<1>4. Programmed => Obeyed
  BY <1>2 DEF Programmed
<1>5. \/ result = "good" /\ GoodIo(Obeyed)
      \/ result = "attention" /\ LateIo
      \/ result \in {"bad", "failed"} /\ Doubtful(Obeyed)
  BY <1>1, <1>4, ProgrammedIo DEF GoodIo, Doubtful
<1>6. Ignored \/ Obeyed
  BY <1>5 DEF GoodIo, LateIo, Doubtful
<1>7. /\ rpmb' \in Secrets /\ register' \in Frames /\ response' \in Frames /\ buf' \in Frames
      /\ attention' \in BOOLEAN /\ calm' \in BOOLEAN /\ incidents' \in 0..MaxIncidents
  <2>1. req.count + 1 \in Counts
    BY <1>2, Bounds DEF Counts
  <2>2. Obeyed => rpmb' \in Secrets /\ register' \in Frames /\ response' \in Frames /\ buf' \in Frames
    <3>1. [count |-> req.count + 1, value |-> req.value] \in Secrets
      BY <1>2, <2>1 DEF Secrets
    <3>2. [kind |-> "written", count |-> req.count + 1, value |-> "zero"] \in Frames /\ Junk \in Frames
      BY <2>1, IsFrame
    <3>3. buf \in Frames
      BY DEF IInv, TypeOK
    <3> QED
      BY <3>1, <3>2, <3>3
  <2>3. Ignored => rpmb' \in Secrets /\ register' \in Frames /\ response' \in Frames /\ buf' \in Frames
    BY DEF Ignored, IInv, TypeOK
  <2>4. attention' \in BOOLEAN /\ calm' \in BOOLEAN /\ incidents' \in 0..MaxIncidents
    BY <1>5, IncidentIs DEF GoodIo, LateIo, Doubtful, IInv, TypeOK
  <2> QED
    BY <1>6, <2>2, <2>3, <2>4
<1>8. TypeOK' /\ HandleInv' /\ RequestInv' /\ WriteInv' /\ ReplyInv'
  BY <1>1, <1>2, <1>7, ExchangeGoesOn
<1>9. FrameInv'
  <2>1. CASE Ignored
    BY <1>2, <1>3, <2>1 DEF Ignored, IInv, FrameInv
  <2>2. CASE Obeyed
    <3>1. register'.kind = "written" /\ register'.count = rpmb'.count /\ response'.kind = "junk"
      BY <2>2 DEF Junk
    <3>2. buf' = buf /\ rpmb'.count = rpmb.count + 1 /\ rpmb.count \in Nat /\ buf.count \in Nat
      BY <1>2, <2>2, FrameIs, CountsAreNat DEF IInv, TypeOK
    <3> HIDE DEF Obeyed
    <3>3. buf.kind # "refused" /\ (buf.kind = "written" => buf.count <= rpmb'.count)
      BY <3>2 DEF IInv, FrameInv
    <3>4. register'.count <= rpmb'.count
      BY <3>1, <3>2
    <3> QED
      BY <1>2, <1>3, <3>1, <3>2, <3>3, <3>4 DEF FrameInv
  <2> QED
    BY <1>6, <2>1, <2>2
<1>10. CountInv'
  <2>1. rpmb'.count \in {req.count, req.count + 1}
    BY <1>2, <1>6 DEF Ignored
  <2>2. pc' = "reliable" => rpmb' = rpmb
    <3>1. CASE Stays(result)
      BY <3>1, <1>5 DEF Stays, LateIo, Ignored
    <3>2. CASE Passes(result, "request") \/ GivesUp(result)
      BY <3>2, RepliedIs DEF Passes, GivesUp
    <3> QED
      BY <1>3, <3>1, <3>2
  <2>3. pc' \in {"reliable", "request", "reply"}
    BY <1>2, <1>3, RepliedIs DEF Stays, Passes, GivesUp
  <2> QED
    BY <1>2, <1>3, <2>1, <2>2, <2>3 DEF CountInv, Busy
<1>11. CalmInv'
  <2>1. CASE result = "good" /\ GoodIo(Obeyed)
    <3>1. pc' = "request" /\ ~attention'
      BY <1>3, <2>1 DEF Stays, Passes, GivesUp, GoodIo
    <3>2. register'.kind = "written" /\ register'.count = req'.count + 1
      BY <1>3, <2>1 DEF GoodIo
    <3> QED
      BY <1>2, <1>3, <3>1, <3>2 DEF CalmInv, Right
  <2>2. CASE result = "attention" /\ LateIo
    <3>1. calm' => pc' = "reliable" /\ ~attention'
      BY <1>2, <1>3, <2>2 DEF LateIo, IInv, CalmInv, Stays, Passes, GivesUp
    <3> QED
      BY <3>1 DEF CalmInv
  <2>3. CASE result \in {"bad", "failed"} /\ Doubtful(Obeyed)
    BY <2>3 DEF Doubtful, Incident, CalmInv
  <2> QED
    BY <1>5, <2>1, <2>2, <2>3
<1> QED
  BY <1>8, <1>9, <1>10, <1>11 DEF IInv

LEMMA RequestKeeps == IInv /\ Request => IInv'
<1> SUFFICES ASSUME IInv, Request
             PROVE  IInv'
  OBVIOUS
<1>1. PICK result \in SgResults : SgIo(Requested, result) /\ Proceed(result, "fetch")
  BY Zenon DEF Request
<1>2. pc = "request" /\ req.kind \in {"rpmbWrite", "rpmbRead"}
  BY DEF Request, IInv, RequestInv
<1>3. /\ req' = req /\ ta' = ta
      /\ Stays(result) \/ Passes(result, "fetch") \/ GivesUp(result)
  BY <1>1, GoesOn
<1> DEFINE Obeyed ==
             /\ UNCHANGED <<rpmb, register, buf>>
             /\ req.kind = "rpmbWrite" => response' = register
             /\ req.kind = "rpmbRead" =>
                  response' = [kind |-> "read", count |-> rpmb.count, value |-> rpmb.value]
<1>4. Requested => Obeyed
  BY DEF Requested
<1>5. \/ result = "good" /\ GoodIo(Obeyed)
      \/ result = "attention" /\ LateIo
      \/ result \in {"bad", "failed"} /\ Doubtful(Obeyed)
  BY <1>1, <1>4, RequestedIo DEF GoodIo, Doubtful
<1>6. Ignored \/ Obeyed
  BY <1>5 DEF GoodIo, LateIo, Doubtful
<1>7. UNCHANGED <<rpmb, register, buf>>
  BY <1>6 DEF Ignored
<1>8. /\ response' \in Frames /\ response'.kind \in {response.kind, register.kind, "read"}
      /\ \/ response' = response
         \/ response' = register /\ req.kind = "rpmbWrite"
         \/ /\ response'.kind = "read" /\ req.kind = "rpmbRead"
            /\ response'.count = rpmb.count /\ response'.value = rpmb.value
  <2>1. rpmb.count \in Counts /\ rpmb.value \in Values \cup {"zero"}
    BY DEF IInv, TypeOK, Secrets
  <2>2. [kind |-> "read", count |-> rpmb.count, value |-> rpmb.value] \in Frames
    BY <2>1, IsFrame
  <2>3. response \in Frames /\ register \in Frames
    BY DEF IInv, TypeOK
  <2>4. CASE Ignored
    BY <2>3, <2>4 DEF Ignored
  <2>5. CASE Obeyed /\ req.kind = "rpmbWrite"
    BY <2>3, <2>5
  <2>6. CASE Obeyed /\ req.kind = "rpmbRead"
    BY <2>2, <2>6
  <2> QED
    BY <1>2, <1>6, <2>4, <2>5, <2>6
<1>9. attention' \in BOOLEAN /\ calm' \in BOOLEAN /\ incidents' \in 0..MaxIncidents
  BY <1>5, IncidentIs DEF GoodIo, LateIo, Doubtful, IInv, TypeOK
<1>10. TypeOK' /\ HandleInv' /\ RequestInv' /\ WriteInv' /\ ReplyInv'
  <2>1. rpmb' \in Secrets /\ register' \in Frames /\ buf' \in Frames
    BY <1>7 DEF IInv, TypeOK
  <2> QED
    BY <1>1, <1>2, <1>8, <1>9, <2>1, ExchangeGoesOn
<1>11. FrameInv'
  BY <1>2, <1>3, <1>7, <1>8 DEF IInv, FrameInv, Busy
<1>12. pc' \in {"request", "fetch", "reply"}
  BY <1>2, <1>3, RepliedIs DEF Stays, Passes, GivesUp
<1>13. CountInv'
  BY <1>2, <1>3, <1>7, <1>12 DEF IInv, CountInv, Busy
<1>14. CalmInv'
  <2>1. CASE result = "good" /\ GoodIo(Obeyed)
    <3>1. pc' = "fetch" /\ ~attention' /\ calm' = calm
      BY <1>3, <2>1 DEF Stays, Passes, GivesUp, GoodIo
    <3>2. calm => Right(response)'
      <4>1. CASE req.kind = "rpmbWrite"
        <5>1. calm => register.kind = "written" /\ register.count = req.count + 1
          BY <1>2, <4>1 DEF IInv, CalmInv, Right
        <5>2. response' = register
          BY <2>1, <4>1 DEF GoodIo
        <5> QED
          BY <1>3, <4>1, <5>1, <5>2 DEF Right
      <4>2. CASE req.kind = "rpmbRead"
        <5>1. response'.kind = "read"
          BY <2>1, <4>2 DEF GoodIo
        <5> QED
          BY <1>3, <4>2, <5>1 DEF Right
      <4> QED
        BY <1>2, <4>1, <4>2
    <3> QED
      BY <3>1, <3>2 DEF CalmInv
  <2>2. CASE result = "attention" /\ LateIo
    <3>1. calm' => pc' = "request" /\ ~attention' /\ req.kind = "rpmbRead"
      BY <1>2, <1>3, <2>2, DispatchIs DEF LateIo, IInv, CalmInv, Stays, Passes, GivesUp
    <3> QED
      BY <1>3, <3>1 DEF CalmInv
  <2>3. CASE result \in {"bad", "failed"} /\ Doubtful(Obeyed)
    BY <2>3 DEF Doubtful, Incident, CalmInv
  <2> QED
    BY <1>5, <2>1, <2>2, <2>3
<1> QED
  BY <1>10, <1>11, <1>13, <1>14 DEF IInv

LEMMA FetchKeeps == IInv /\ Fetch => IInv'
<1> SUFFICES ASSUME IInv, Fetch
             PROVE  IInv'
  OBVIOUS
<1>1. PICK result \in SgResults : SgIo(Fetched, result) /\ Proceed(result, "reply")
  BY Zenon DEF Fetch
<1>2. pc = "fetch" /\ req.kind \in {"rpmbWrite", "rpmbRead"}
  BY DEF Fetch, IInv, RequestInv
<1>3. /\ req' = req /\ ta' = ta
      /\ Stays(result) \/ Passes(result, "reply") \/ GivesUp(result)
  BY <1>1, GoesOn
<1>4. \/ result = "good" /\ GoodIo(Fetched)
      \/ result = "attention" /\ LateIo
      \/ result \in {"bad", "failed"} /\ Doubtful(Fetched)
  BY <1>1, FetchedIo
<1>5. /\ UNCHANGED <<rpmb, register>>
      /\ \/ UNCHANGED <<response, buf>>
         \/ buf' = response /\ response' = Junk
  BY <1>4 DEF GoodIo, LateIo, Doubtful, Ignored, Fetched
<1>6. TypeOK' /\ HandleInv' /\ RequestInv' /\ WriteInv' /\ ReplyInv'
  <2>1. /\ rpmb' \in Secrets /\ register' \in Frames /\ response' \in Frames /\ buf' \in Frames
        /\ attention' \in BOOLEAN /\ calm' \in BOOLEAN /\ incidents' \in 0..MaxIncidents
    BY <1>4, <1>5, IncidentIs, IsFrame DEF GoodIo, LateIo, Doubtful, IInv, TypeOK
  <2> QED
    BY <1>1, <1>2, <2>1, ExchangeGoesOn
<1>7. FrameInv'
  <2>1. Junk.kind = "junk"
    BY DEF Junk
  <2> QED
    BY <1>2, <1>3, <1>5, <2>1 DEF IInv, FrameInv, Busy
<1>8. pc' \in {"fetch", "reply"}
  BY <1>2, <1>3, RepliedIs DEF Stays, Passes, GivesUp
<1>9. CountInv'
  BY <1>2, <1>3, <1>5, <1>8 DEF IInv, CountInv, Busy
<1>10. CalmInv'
  <2>1. CASE result = "good" /\ GoodIo(Fetched)
    <3>1. /\ pc' = "reply" /\ reply'.result = "ok" /\ ~attention' /\ calm' = calm /\ buf' = response
      BY <1>3, <2>1, RepliedIs DEF Stays, Passes, GivesUp, GoodIo, Fetched
    <3>2. calm => Right(buf)'
      BY <1>2, <1>3, <3>1 DEF IInv, CalmInv, Right
    <3> QED
      BY <3>1, <3>2 DEF CalmInv
  <2>2. CASE result = "attention" /\ LateIo
    <3>1. ~calm'
      BY <1>2, <2>2, DispatchIs DEF LateIo, IInv, CalmInv
    <3> QED
      BY <3>1 DEF CalmInv
  <2>3. CASE result \in {"bad", "failed"} /\ Doubtful(Fetched)
    BY <2>3 DEF Doubtful, Incident, CalmInv
  <2> QED
    BY <1>4, <2>1, <2>2, <2>3
<1> QED
  BY <1>6, <1>7, <1>9, <1>10 DEF IInv

LEMMA ResetKeeps == IInv /\ Reset => IInv'
<1> SUFFICES ASSUME IInv, Reset
             PROVE  IInv'
  OBVIOUS
<1>1. TypeOK'
  BY IncidentIs, IsFrame DEF Reset, IInv, TypeOK
<1>2. HandleInv'
  BY DEF Reset, IInv, HandleInv, Away
<1>3. RequestInv'
  BY DEF Reset, IInv, RequestInv, Busy, Free
<1>4. WriteInv' /\ ReplyInv'
  BY DEF Reset, IInv, WriteInv, ReplyInv, Busy, File
<1>5. FrameInv'
  BY DEF Reset, IInv, FrameInv, Busy, Junk
<1>6. CountInv'
  BY DEF Reset, IInv, CountInv, Busy
<1>7. CalmInv'
  BY DEF Reset, Incident, CalmInv
<1> QED
  BY <1>1, <1>2, <1>3, <1>4, <1>5, <1>6, <1>7 DEF IInv

-----------------------------------------------------------------------------
(***************************************************************************)
(* The inductive invariant holds, and what follows from it at once.        *)
(***************************************************************************)
LEMMA NextKeeps == IInv /\ [Next]_vars => IInv'
<1> SUFFICES ASSUME IInv, [Next]_vars
             PROVE  IInv'
  OBVIOUS
<1>1. CASE Start
  BY <1>1, StartKeeps
<1>2. CASE HangUp
  BY <1>2, HangUpKeeps
<1>3. CASE Respond
  BY <1>3, RespondKeeps
<1>4. CASE Open
  BY <1>4, OpenKeeps
<1>5. CASE Create
  BY <1>5, CreateKeeps
<1>6. CASE Close
  BY <1>6, CloseKeeps
<1>7. CASE Delete
  BY <1>7, DeleteKeeps
<1>8. CASE Read
  BY <1>8, ReadKeeps
<1>9. CASE Resize
  BY <1>9, ResizeKeeps
<1>10. CASE \E n \in 1..Size : Write(n)
  BY <1>10, WriteKeeps
<1>11. CASE WriteFails
  BY <1>11, WriteFailsKeeps
<1>12. CASE ReliableWrite
  BY <1>12, ReliableWriteKeeps
<1>13. CASE Request
  BY <1>13, RequestKeeps
<1>14. CASE Fetch
  BY <1>14, FetchKeeps
<1>15. CASE Connect
  BY <1>15, ConnectKeeps
<1>16. CASE Die
  BY <1>16, DieKeeps
<1>17. CASE Reset
  BY <1>17, ResetKeeps
<1>18. CASE TaLeaves
  BY <1>18, TaLeavesKeeps
<1>19. CASE \E r \in Requests : Receive(r)
  BY <1>19, ReceiveKeeps
<1>20. CASE UNCHANGED vars
  BY <1>20 DEF vars, device, IInv, TypeOK, HandleInv, RequestInv, WriteInv, ReplyInv, FrameInv, CountInv,
               CalmInv, Away, Busy, File, Free, Right
<1> QED
  BY <1>1, <1>2, <1>3, <1>4, <1>5, <1>6, <1>7, <1>8, <1>9, <1>10, <1>11, <1>12, <1>13, <1>14, <1>15,
     <1>16, <1>17, <1>18, <1>19, <1>20 DEF Next, Daemon

\* The invariant holds of every behaviour: for any number of files, descriptors,
\* blocks and incidents.
THEOREM Invariance == Spec => []IInv
  BY InitInv, NextKeeps, PTL DEF Spec

\* Every reachable state has its type.
THEOREM TypeCorrect == Spec => []TypeOK
<1>1. IInv => TypeOK
  BY DEF IInv
<1> QED
  BY <1>1, Invariance, PTL

(***************************************************************************)
(* A reset of the device between two exchanges is not seen by Trusty: the  *)
(* first command of the next is refused and repeated, as often as          *)
(* send_ufs_rpmb allows, and what comes back is what the exchange asked    *)
(* for.                                                                    *)
(***************************************************************************)
THEOREM ResetsAreNotSeen == Spec => []ResetCostsNothing
<1>1. IInv => ResetCostsNothing
  <2> SUFFICES ASSUME IInv, pc = "reply", req.kind \in {"rpmbWrite", "rpmbRead"}, calm
               PROVE  Verdict.result = "ok"
    BY DEF ResetCostsNothing
  <2>1. reply.result = "ok" /\ Right(buf)
    BY DEF IInv, CalmInv
  <2> QED
    BY <2>1, VerdictIs, ResultsDiffer, BufIsSecret DEF Right
<1> QED
  BY <1>1, Invariance, PTL

-----------------------------------------------------------------------------
(***************************************************************************)
(* The abstract store: its data is that of the daemon, its state is read   *)
(* off that of the daemon.                                                 *)
(***************************************************************************)
LEMMA SameData ==
    /\ Store!Requests = Requests /\ Store!OnHandle = OnHandle /\ Store!NoRequest = NoRequest
    /\ Store!NoAnswer = NoAnswer /\ Store!Empty = Empty
    /\ \A c : Store!Blocks(c) = Blocks(c) /\ Store!Length(c) = Length(c)
    /\ \A c, n : Store!Resized(c, n) = Resized(c, n)
    /\ \A f, n, c : Store!With(f, n, c) = With(f, n, c)
    /\ \A f, n : Store!Without(f, n) = Without(f, n)
    /\ \A d, n : Store!Prefix(d, n) = [i \in 1..n |-> d[i]]
<1>1. Store!Requests = Requests
  BY DEF Store!Requests, Requests, Store!OpenFlags, OpenFlags, Store!Payloads, Payloads,
         Store!Counts, Counts
<1>2. \A c : Store!Blocks(c) = Blocks(c)
  BY DEF Store!Blocks, Blocks
<1>3. \A c : Store!Length(c) = Length(c)
  BY <1>2 DEF Store!Length, Length, Store!Blocks, Blocks
<1>4. Store!Empty = Empty
  BY DEF Store!Empty, Empty
<1>5. Store!NoAnswer = NoAnswer
  BY <1>4 DEF Store!NoAnswer, NoAnswer
<1>6. \A c, n : Store!Resized(c, n) = Resized(c, n)
  BY DEF Store!Resized, Resized, Store!Blocks, Blocks
<1>7. \A f, n, c : Store!With(f, n, c) = With(f, n, c)
  BY DEF Store!With, With
<1>8. \A f, n : Store!Without(f, n) = Without(f, n)
  BY DEF Store!Without, Without
<1> QED
  BY <1>1, <1>2, <1>3, <1>4, <1>5, <1>6, <1>7, <1>8
     DEF Store!Prefix, Store!OnHandle, OnHandle, Store!NoRequest, NoRequest

LEMMA SamePatched == \A c, n, d : Store!Patched(c, n, d) = Patched(c, n, d)
  BY SameData DEF Store!Patched, Patched, Store!Blocks, Blocks

LEMMA SameOpened ==
    /\ \A f, r : Store!Refused(f, r) = Refused(f, r)
    /\ \A f, r : Store!Opened(f, r) = Opened(f, r)
  BY SameData DEF Store!Refused, Refused, Store!Created, Created, Store!Opened, Opened

LEMMA DoneIs ==
    DoneOfIt = IF ~Busy THEN 0
               ELSE IF req.kind = "write" THEN at
               ELSE IF req.kind = "rpmbWrite" THEN IF rpmb.count = req.count THEN 0 ELSE 1
               ELSE IF req.kind \in {"read", "rpmbRead"} THEN 0
               ELSE IF pc = "reply" /\ reply.result = "ok" THEN 1 ELSE 0
<1>1. CASE ~Busy
  BY <1>1 DEF DoneOfIt
<1>2. CASE Busy /\ req.kind = "write"
  BY <1>2 DEF DoneOfIt
<1>3. CASE Busy /\ req.kind = "rpmbWrite"
  BY <1>3 DEF DoneOfIt
<1>4. CASE Busy /\ req.kind \in {"read", "rpmbRead"}
  BY <1>4 DEF DoneOfIt
<1>5. CASE Busy /\ req.kind \notin {"write", "rpmbWrite", "read", "rpmbRead"}
  BY <1>5 DEF DoneOfIt
<1> QED
  BY <1>1, <1>2, <1>3, <1>4, <1>5

LEMMA DoneIsNext ==
    (DoneOfIt = IF ~Busy THEN 0
               ELSE IF req.kind = "write" THEN at
               ELSE IF req.kind = "rpmbWrite" THEN IF rpmb.count = req.count THEN 0 ELSE 1
               ELSE IF req.kind \in {"read", "rpmbRead"} THEN 0
               ELSE IF pc = "reply" /\ reply.result = "ok" THEN 1 ELSE 0)'
  BY DoneIs, PTL

LEMMA NotAsked == \A r \in Requests : r # NoRequest
  BY RequestIs DEF NoRequest

LEMMA Losing ==
    ASSUME pc' \in {"down", "connect", "serve"}, ta'.held = {}, ta'.answer = NoAnswer,
           UNCHANGED <<files, rpmb>>
    PROVE  Store!LoseSession
<1>1. ~Busy'
  BY DEF Busy
<1>2. Asked' = NoRequest /\ DoneOfIt' = 0
  BY <1>1, DoneIsNext DEF Asked
<1>3. Held' = [h \in Handles |-> "none"]
  BY DEF Held
<1> QED
  BY <1>2, <1>3, SameData DEF Store!LoseSession, Store!NoneHeld

LEMMA Stuttering ==
    ASSUME UNCHANGED <<files, rpmb>>, Held' = Held, Asked' = Asked, DoneOfIt' = DoneOfIt,
           ta'.answer = ta.answer
    PROVE  UNCHANGED Store!vars
  BY DEF Store!vars

LEMMA HeldIs ==
    /\ \A h \in Handles : Held[h] = IF h \in ta.held THEN fds[h] ELSE "none"
    /\ DOMAIN Held = Handles
  BY DEF Held

\* The descriptors that Trusty has stand for the same files.
LEMMA SameHeld ==
    ASSUME ta'.held = ta.held, \A h \in ta.held : fds'[h] = fds[h]
    PROVE  Held' = Held
  BY DEF Held

LEMMA SameAsked ==
    ASSUME Busy, Busy', req' = req
    PROVE  Asked' = Asked /\ Asked = req
  BY DEF Asked

-----------------------------------------------------------------------------
(***************************************************************************)
(* Each step is one of the store, or none.                                 *)
(***************************************************************************)
LEMMA StartRefines == IInv /\ Start => UNCHANGED Store!vars
<1> SUFFICES ASSUME IInv, Start
             PROVE  UNCHANGED Store!vars
  OBVIOUS
<1>1. ta' = ta /\ ta.held = {} /\ UNCHANGED <<files, rpmb>> /\ ~Busy /\ ~Busy'
  BY GoneIs DEF Start, IInv, HandleInv, Away, Busy, device
<1>2. Held' = Held
  BY <1>1 DEF Held
<1>3. Asked' = Asked /\ DoneOfIt' = DoneOfIt
  BY <1>1, DoneIs, DoneIsNext DEF Asked
<1> QED
  BY <1>1, <1>2, <1>3, Stuttering

LEMMA SessionRefines == IInv /\ (Die \/ HangUp \/ Connect) => Store!LoseSession
<1>1. ASSUME IInv, Die
      PROVE  Store!LoseSession
  BY <1>1, GoneIs, Losing DEF Die, device
<1>2. ASSUME IInv, HangUp
      PROVE  Store!LoseSession
  BY <1>2, GoneIs, Losing DEF HangUp, device
<1>3. ASSUME IInv, Connect
      PROVE  Store!LoseSession
  BY <1>3, LinkedIs, Losing DEF Connect, device
<1> QED
  BY <1>1, <1>2, <1>3

LEMMA TaLeavesRefines == IInv /\ TaLeaves => UNCHANGED Store!vars
<1> SUFFICES ASSUME IInv, TaLeaves
             PROVE  UNCHANGED Store!vars
  OBVIOUS
<1>1. ta'.held = ta.held /\ ta'.answer = ta.answer
  BY DEF TaLeaves, IInv, TypeOK
<1>2. UNCHANGED <<pc, fds, req, at, reply, files, rpmb>>
  BY DEF TaLeaves, device
<1>3. Held' = Held
  BY <1>1, <1>2, SameHeld
<1>4. Asked' = Asked /\ DoneOfIt' = DoneOfIt
  BY <1>2, DoneIs, DoneIsNext DEF Asked, Busy
<1> QED
  BY <1>1, <1>2, <1>3, <1>4, Stuttering

LEMMA ResetRefines == IInv /\ Reset => UNCHANGED Store!vars
<1> SUFFICES ASSUME IInv, Reset
             PROVE  UNCHANGED Store!vars
  OBVIOUS
<1>1. UNCHANGED <<pc, fds, req, at, reply, files, rpmb, ta>>
  BY DEF Reset
<1>2. Held' = Held
  BY <1>1, SameHeld
<1>3. Asked' = Asked /\ DoneOfIt' = DoneOfIt
  BY <1>1, DoneIs, DoneIsNext DEF Asked, Busy
<1> QED
  BY <1>1, <1>2, <1>3, Stuttering

LEMMA ReceiveRefines == ASSUME NEW r \in Requests PROVE IInv /\ Receive(r) => Store!Ask
<1> SUFFICES ASSUME IInv, Receive(r)
             PROVE  Store!Ask
  OBVIOUS
<1>1. /\ pc = "serve" /\ Asks(r) /\ req' = r /\ at' = 0 /\ reply' = NoAnswer
      /\ pc' = Dispatch(r.kind) /\ UNCHANGED <<fds, files, rpmb>>
  BY DEF Receive
<1>2. ta'.held = ta.held /\ ta'.answer = NoAnswer
  BY DEF Receive, IInv, TypeOK
<1>3. /\ pc' \in {"reliable", "request", "do"}
      /\ ~Busy /\ Busy'
  BY <1>1, DispatchIs DEF Busy
<1>4. Asked = NoRequest /\ Asked' = r
  BY <1>1, <1>3 DEF Asked
<1>5. Held' = Held
  BY <1>1, <1>2, SameHeld
<1>6. r.kind \in OnHandle => Held[r.handle] # "none"
  <2> SUFFICES ASSUME r.kind \in OnHandle
               PROVE  Held[r.handle] # "none"
    OBVIOUS
  <2>1. r.handle \in Handles /\ r.handle \in ta.held
    BY <1>1, RequestIs, AsksIs
  <2>2. fds[r.handle] \in Names
    BY <2>1 DEF IInv, HandleInv, TypeOK
  <2> QED
    BY <2>1, <2>2, Reserved, HeldIs
<1>7. r.kind = "delete" => \A h \in Handles : Held[h] # r.name
  <2> SUFFICES ASSUME r.kind = "delete", NEW h \in Handles
               PROVE  Held[h] # r.name
    OBVIOUS
  <2>1. r.name \in Names /\ r.name # "none"
    BY RequestIs, Reserved
  <2>2. h \in ta.held => fds[h] # r.name
    BY <1>1, AsksIs
  <2> QED
    BY <2>1, <2>2, HeldIs
<1>8. DoneOfIt' = 0
  <2>1. r.kind = "rpmbWrite" => rpmb.count = r.count
    BY <1>1, AsksIs DEF IInv, CountInv, Busy
  <2>2. pc' # "reply"
    BY <1>3
  <2> QED
    BY <1>1, <1>3, <2>1, <2>2, DoneIsNext
<1> QED
  BY <1>1, <1>2, <1>4, <1>5, <1>6, <1>7, <1>8, SameData DEF Store!Ask

\* A handler that only goes on, or ends with an error, is none of the store's business.
LEMMA HandlerStutters ==
    ASSUME IInv, pc \in {"do", "create"}, pc' \in {"create", "reply"}, NoDevice,
           UNCHANGED <<fds, files, at, ta>>,
           pc' = "reply" => reply'.result = "error" \/ req.kind = "read"
    PROVE  UNCHANGED Store!vars
<1>1. Busy /\ Busy' /\ UNCHANGED <<req, rpmb>>
  BY DEF Busy, NoDevice, device
<1>2. Held' = Held
  BY SameHeld
<1>3. Asked' = Asked
  BY <1>1, SameAsked
<1>4. DoneOfIt' = DoneOfIt
  BY <1>1, DoneIs, DoneIsNext
<1> QED
  BY <1>1, <1>2, <1>3, <1>4, Stuttering

LEMMA OpenAsRefines ==
    ASSUME IInv, pc \in {"do", "create"}, req.kind = "open", Free # {},
           ~Refused(files, req), OpenAs(Opened(files, req)), UNCHANGED <<at, ta>>, NoDevice
    PROVE  Store!Open
<1>1. Busy /\ Busy' /\ UNCHANGED <<req, rpmb>> /\ pc' = "reply"
  BY DEF Busy, NoDevice, device, OpenAs
<1>2. reply'.result = "ok"
  <2>1. reply' = OkReply(Lowest(Free), Empty)
    BY OkIs DEF OpenAs
  <2>2. Lowest(Free) \in {0} \cup Handles
    BY LowestIs DEF Free
  <2>3. OkReply(Lowest(Free), Empty).result = "ok"
    BY <2>2, AnswerIs, EmptyIsContent
  <2> QED
    BY <2>1, <2>3
<1>3. Held' = Held
  <2>1. Lowest(Free) \in Free
    BY LowestIs DEF Free
  <2>2. Lowest(Free) \notin ta.held
    BY <2>1, Reserved DEF Free, IInv, HandleInv, TypeOK
  <2>3. fds' = [fds EXCEPT ![Lowest(Free)] = req.name]
    BY DEF OpenAs
  <2>4. \A h \in ta.held : fds'[h] = fds[h]
    BY <2>2, <2>3 DEF IInv, TypeOK
  <2> QED
    BY <2>4, SameHeld
<1>4. Asked' = Asked /\ Asked = req
  BY <1>1, SameAsked
<1>5. DoneOfIt = 0 /\ DoneOfIt' = 1
  BY <1>1, <1>2, DoneIs, DoneIsNext
<1>6. files' = With(files, req.name, Opened(files, req))
  BY DEF OpenAs
<1> QED
  BY <1>1, <1>3, <1>4, <1>5, <1>6, SameData, SameOpened DEF Store!Open

LEMMA OpenRefines == IInv /\ Open => Store!Open \/ UNCHANGED Store!vars
<1> SUFFICES ASSUME IInv, Open
             PROVE  Store!Open \/ UNCHANGED Store!vars
  OBVIOUS
<1>0. pc = "do" /\ req.kind = "open" /\ UNCHANGED <<at, ta>> /\ NoDevice
  BY DEF Open, Handling
<1>1. CASE OpenFails
  BY <1>0, <1>1, RepliedIs, HandlerStutters DEF OpenFails
<1>2. CASE /\ Free # {} /\ req.name \in DOMAIN files /\ ~Exclusive
           /\ OpenAs(IF "truncate" \in req.flags THEN Empty ELSE files[req.name])
  <2>1. ~Refused(files, req)
    BY <1>2 DEF Refused, Exclusive
  <2>2. Opened(files, req) = IF "truncate" \in req.flags THEN Empty ELSE files[req.name]
    BY <1>2 DEF Opened
  <2> QED
    BY <1>0, <1>2, <2>1, <2>2, OpenAsRefines
<1>3. CASE /\ pc' = "create" /\ UNCHANGED <<fds, files, reply>>
  BY <1>0, <1>3, HandlerStutters
<1>4. OpenFails \/ <1>2!1 \/ <1>3!1
  BY DEF Open
<1> QED
  BY <1>1, <1>2, <1>3, <1>4

LEMMA CreateRefines == IInv /\ Create => Store!Open \/ UNCHANGED Store!vars
<1> SUFFICES ASSUME IInv, Create
             PROVE  Store!Open \/ UNCHANGED Store!vars
  OBVIOUS
<1>0. /\ pc = "create" /\ req.kind = "open" /\ Free # {}
      /\ req.name \notin DOMAIN files /\ Created(req)
      /\ UNCHANGED <<at, ta>> /\ NoDevice
  BY DEF Create, IInv, RequestInv
<1>1. CASE OpenAs(Empty)
  <2>1. ~Refused(files, req) /\ Opened(files, req) = Empty
    BY <1>0 DEF Refused, Opened
  <2> QED
    BY <1>0, <1>1, <2>1, OpenAsRefines
<1>2. CASE OpenFails
  BY <1>0, <1>2, RepliedIs, HandlerStutters DEF OpenFails
<1> QED
  BY <1>1, <1>2 DEF Create

LEMMA CloseRefines == IInv /\ Close => Store!Close
<1> SUFFICES ASSUME IInv, Close
             PROVE  Store!Close
  OBVIOUS
<1>0. /\ pc = "do" /\ req.kind = "close" /\ Replied("ok") /\ req.handle \in ta.held
      /\ fds' = [fds EXCEPT ![req.handle] = "free"]
      /\ ta' = [ta EXCEPT !.held = @ \ {req.handle}]
      /\ UNCHANGED <<at, files>> /\ NoDevice
  BY DEF Close, Handling, IInv, RequestInv, OnHandle
<1>1. Busy /\ Busy' /\ UNCHANGED <<req, rpmb>> /\ pc' = "reply" /\ reply'.result = "ok"
  BY <1>0, RepliedIs DEF Busy, NoDevice, device
<1>2. ta'.held = ta.held \ {req.handle} /\ ta'.answer = ta.answer /\ req.handle \in Handles
  BY <1>0 DEF IInv, TypeOK
<1>3. Held' = [Held EXCEPT ![req.handle] = "none"]
  <2>1. \A h \in ta'.held : fds'[h] = fds[h]
    BY <1>0, <1>2 DEF IInv, TypeOK
  <2> QED
    BY <1>2, <2>1 DEF Held
<1>4. Asked' = Asked /\ Asked = req
  BY <1>1, SameAsked
<1>5. DoneOfIt = 0 /\ DoneOfIt' = 1
  BY <1>0, <1>1, DoneIs, DoneIsNext
<1> QED
  BY <1>0, <1>1, <1>2, <1>3, <1>4, <1>5 DEF Store!Close

LEMMA DeleteRefines == IInv /\ Delete => Store!Delete \/ UNCHANGED Store!vars
<1> SUFFICES ASSUME IInv, Delete
             PROVE  Store!Delete \/ UNCHANGED Store!vars
  OBVIOUS
<1>0. /\ pc = "do" /\ req.kind = "delete"
      /\ files' = Without(files, req.name)
      /\ IF req.name \in DOMAIN files THEN Replied("ok") ELSE Replied("error")
      /\ UNCHANGED <<fds, at, ta>> /\ NoDevice
  BY DEF Delete, Handling
<1>1. CASE req.name \in DOMAIN files
  <2>1. Busy /\ Busy' /\ UNCHANGED <<req, rpmb>> /\ pc' = "reply" /\ reply'.result = "ok"
    BY <1>0, <1>1, RepliedIs DEF Busy, NoDevice, device
  <2>2. Held' = Held
    BY <1>0, SameHeld
  <2>3. Asked' = Asked /\ Asked = req
    BY <2>1, SameAsked
  <2>4. DoneOfIt = 0 /\ DoneOfIt' = 1
    BY <1>0, <2>1, DoneIs, DoneIsNext
  <2> QED
    BY <1>0, <1>1, <2>1, <2>2, <2>3, <2>4, SameData DEF Store!Delete
<1>2. CASE req.name \notin DOMAIN files
  <2>1. files' = files
    BY <1>0, <1>2 DEF Without, IInv, TypeOK
  <2>2. pc' = "reply" /\ reply'.result = "error"
    BY <1>0, <1>2, RepliedIs
  <2> QED
    BY <1>0, <2>1, <2>2, HandlerStutters
<1> QED
  BY <1>1, <1>2

LEMMA ReadRefines == IInv /\ Read => UNCHANGED Store!vars
  BY ReadReplies, HandlerStutters

LEMMA WriteFailsRefines == IInv /\ WriteFails => UNCHANGED Store!vars
  BY RepliedIs, HandlerStutters DEF WriteFails, Handling

LEMMA ResizeRefines == IInv /\ Resize => Store!Resize
<1> SUFFICES ASSUME IInv, Resize
             PROVE  Store!Resize
  OBVIOUS
<1>0. /\ pc = "do" /\ req.kind = "resize" /\ req.handle \in ta.held
      /\ files' = With(files, File, Resized(files[File], req.size)) /\ Replied("ok")
      /\ UNCHANGED <<fds, at, ta>> /\ NoDevice
  BY DEF Resize, Handling, IInv, RequestInv, OnHandle
<1>1. Busy /\ Busy' /\ UNCHANGED <<req, rpmb>> /\ pc' = "reply" /\ reply'.result = "ok"
  BY <1>0, RepliedIs DEF Busy, NoDevice, device
<1>2. Held' = Held /\ Held[req.handle] = File
  BY <1>0, SameHeld, HeldIs, FileOfHandle DEF File
<1>3. Asked' = Asked /\ Asked = req
  BY <1>1, SameAsked
<1>4. DoneOfIt = 0 /\ DoneOfIt' = 1
  BY <1>0, <1>1, DoneIs, DoneIsNext
<1> QED
  BY <1>0, <1>1, <1>2, <1>3, <1>4, SameData DEF Store!Resize

LEMMA WriteRefines == ASSUME NEW n \in 1..Size PROVE IInv /\ Write(n) => \E m \in 1..Size : Store!Write(m)
<1> SUFFICES ASSUME IInv, Write(n)
             PROVE  \E m \in 1..Size : Store!Write(m)
  OBVIOUS
<1> DEFINE c == Patched(files[File], req.from + at, Part(req.data, at, n))
<1>0. /\ pc = "do" /\ req.kind = "write" /\ req \in Requests /\ req.handle \in ta.held
      /\ at \in Nat /\ n \in Nat /\ at + n <= Length(req.data) /\ at' = at + n
      /\ files' = With(files, File, c)
      /\ c = Patched(files[File], req.from, Part(req.data, 0, at + n))
      /\ IF at + n = Length(req.data) THEN Replied("ok") ELSE UNCHANGED <<pc, reply>>
      /\ UNCHANGED <<fds, ta>> /\ NoDevice
  BY WriteWrites
<1> HIDE DEF c
<1>1. Busy /\ Busy' /\ UNCHANGED <<req, rpmb>>
  BY <1>0, RepliedIs DEF Busy, NoDevice, device
<1>2. Held' = Held /\ Held[req.handle] = File
  BY <1>0, SameHeld, HeldIs, FileOfHandle DEF File
<1>3. Asked' = Asked /\ Asked = req
  BY <1>1, SameAsked
<1>4. DoneOfIt = at /\ DoneOfIt' = at + n
  BY <1>0, <1>1, DoneIs, DoneIsNext
<1>5. at + n \in 1..Size /\ at + n \in Blocks(req.data) /\ at + n > at
  <2>1. Length(req.data) \in 1..Size /\ Blocks(req.data) = 1..Length(req.data)
    BY <1>0, RequestIs, PayloadIs
  <2>2. n >= 1
    OBVIOUS
  <2> QED
    BY <1>0, <2>1, <2>2, Bounds
<1>6. Store!Prefix(req.data, at + n) = Part(req.data, 0, at + n)
  BY <1>0, SameData DEF Part
<1>7. files' = Store!With(files, Held[req.handle],
                          Store!Patched(files[Held[req.handle]], req.from, Store!Prefix(req.data, at + n)))
  BY <1>0, <1>2, <1>6, SameData, SamePatched
<1>8. Store!Write(at + n)
  BY <1>0, <1>1, <1>2, <1>3, <1>4, <1>5, <1>7, SameData DEF Store!Write
<1> QED
  BY <1>5, <1>8

\* A step of an RPMB exchange that leaves the partition alone.
LEMMA ExchangeStutters ==
    ASSUME IInv, pc \in {"reliable", "request", "fetch"},
           NEW result \in SgResults, NEW next \in {"request", "fetch", "reply"}, Proceed(result, next),
           rpmb' = rpmb
    PROVE  UNCHANGED Store!vars
<1>1. /\ UNCHANGED <<fds, req, at, files, ta>>
      /\ req.kind \in {"rpmbWrite", "rpmbRead"}
  BY GoesOn DEF IInv, RequestInv
<1>2. Busy /\ Busy'
  BY GoesOn, RepliedIs DEF Busy, Stays, Passes, GivesUp
<1>3. Held' = Held /\ Asked' = Asked
  BY <1>1, <1>2, SameHeld, SameAsked
<1>4. DoneOfIt' = DoneOfIt
  BY <1>1, <1>2, DoneIs, DoneIsNext
<1> QED
  BY <1>1, <1>3, <1>4, Stuttering

LEMMA ReliableWriteRefines == IInv /\ ReliableWrite => Store!RpmbWrite \/ UNCHANGED Store!vars
<1> SUFFICES ASSUME IInv, ReliableWrite
             PROVE  Store!RpmbWrite \/ UNCHANGED Store!vars
  OBVIOUS
<1>1. PICK result \in SgResults : SgIo(Programmed, result) /\ Proceed(result, "request")
  BY Zenon DEF ReliableWrite
<1>2. /\ pc = "reliable" /\ req.kind = "rpmbWrite"
      /\ req.count \in Nat /\ req.count < MaxCount /\ rpmb.count = req.count
  BY RequestIs, CountsAreNat DEF ReliableWrite, IInv, RequestInv, CountInv, Busy
<1>3. rpmb' = rpmb \/ rpmb' = [count |-> rpmb.count + 1, value |-> req.value]
  BY <1>1, <1>2, ProgrammedIo DEF GoodIo, LateIo, Doubtful, Ignored, Programmed
<1>4. CASE rpmb' = rpmb
  BY <1>1, <1>2, <1>4, ExchangeStutters
<1>5. CASE rpmb' = [count |-> rpmb.count + 1, value |-> req.value]
  <2>1. UNCHANGED <<fds, req, files, ta>>
    BY <1>1, GoesOn
  <2>2. Busy /\ Busy'
    BY <1>1, <1>2, GoesOn, RepliedIs DEF Busy, Stays, Passes, GivesUp
  <2>3. Held' = Held /\ Asked' = Asked /\ Asked = req
    BY <2>1, <2>2, SameHeld, SameAsked
  <2>4. DoneOfIt = 0 /\ DoneOfIt' = 1
    <3>1. rpmb'.count = req.count + 1 /\ rpmb'.count # req.count
      BY <1>2, <1>5
    <3> QED
      BY <1>2, <2>1, <2>2, <3>1, DoneIs, DoneIsNext
  <2> QED
    BY <1>2, <1>5, <2>1, <2>3, <2>4 DEF Store!RpmbWrite
<1> QED
  BY <1>3, <1>4, <1>5

LEMMA RequestRefines == IInv /\ Request => UNCHANGED Store!vars
<1> SUFFICES ASSUME IInv, Request
             PROVE  UNCHANGED Store!vars
  OBVIOUS
<1>1. PICK result \in SgResults : SgIo(Requested, result) /\ Proceed(result, "fetch")
  BY Zenon DEF Request
<1>2. rpmb' = rpmb
  BY <1>1, RequestedIo DEF GoodIo, LateIo, Doubtful, Ignored, Requested
<1>3. pc = "request"
  BY DEF Request
<1> QED
  BY <1>1, <1>2, <1>3, ExchangeStutters

LEMMA FetchRefines == IInv /\ Fetch => UNCHANGED Store!vars
<1> SUFFICES ASSUME IInv, Fetch
             PROVE  UNCHANGED Store!vars
  OBVIOUS
<1>1. PICK result \in SgResults : SgIo(Fetched, result) /\ Proceed(result, "reply")
  BY Zenon DEF Fetch
<1>2. rpmb' = rpmb
  BY <1>1, FetchedIo DEF GoodIo, LateIo, Doubtful, Ignored, Fetched
<1>3. pc = "fetch"
  BY DEF Fetch
<1> QED
  BY <1>1, <1>2, <1>3, ExchangeStutters

\* What Trusty is told, field by field.
FullReply(h, c, s) == [NoAnswer EXCEPT !.result = "ok", !.handle = h, !.content = c, !.secret = s]

LEMMA FullIs ==
    /\ \A h, c : OkReply(h, c) = FullReply(h, c, NoAnswer.secret)
    /\ \A s : SecretReply(s) = FullReply(0, Empty, s)
<1> DEFINE Shapes == [result : {"none", "ok"}, handle : {0}, content : {Empty}, secret : {NoAnswer.secret}]
<1>1. NoAnswer \in Shapes
  BY DEF NoAnswer
<1>2. ASSUME NEW a \in Shapes, NEW h, NEW c, NEW s
      PROVE  /\ [a EXCEPT !.result = "ok", !.handle = h, !.content = c]
                  = [a EXCEPT !.result = "ok", !.handle = h, !.content = c, !.secret = NoAnswer.secret]
             /\ [a EXCEPT !.result = "ok", !.secret = s]
                  = [a EXCEPT !.result = "ok", !.handle = 0, !.content = Empty, !.secret = s]
  OBVIOUS
<1> QED
  BY <1>1, <1>2 DEF OkReply, SecretReply, FullReply

LEMMA StoreDone ==
    ASSUME Asked = req, req.kind = "write" => DoneOfIt = Length(req.data),
           req.kind \in {"open", "close", "delete", "resize", "rpmbWrite"} => DoneOfIt = 1
    PROVE  Store!Done
<1>1. CASE req.kind = "write"
  BY <1>1, SameData DEF Store!Done
<1>2. CASE req.kind \in {"open", "close", "delete", "resize", "rpmbWrite"}
  BY <1>2 DEF Store!Done
<1>3. CASE req.kind \notin {"open", "close", "delete", "resize", "rpmbWrite", "write"}
  BY <1>3 DEF Store!Done
<1> QED
  BY <1>1, <1>2, <1>3

LEMMA RespondRefines == IInv /\ Respond => Store!Answer
<1> SUFFICES ASSUME IInv, Respond
             PROVE  Store!Answer
  OBVIOUS
<1>1. pc = "reply" /\ pc' = "serve" /\ UNCHANGED <<fds, files, rpmb>> /\ req \in Requests
  BY DEF Respond, device, IInv, RequestInv, Busy
<1>2. /\ ta'.answer = Verdict
      /\ ta'.held = IF req.kind = "open" /\ reply.result = "ok" THEN ta.held \cup {reply.handle} ELSE ta.held
  BY DEF Respond, IInv, TypeOK
<1>3. Busy /\ ~Busy'
  BY <1>1 DEF Busy
<1>4. Asked = req /\ Asked' = NoRequest /\ DoneOfIt' = 0 /\ req # NoRequest
  BY <1>1, <1>3, DoneIsNext, NotAsked DEF Asked
<1>5. /\ req.kind = "write" => DoneOfIt = at
      /\ req.kind = "rpmbWrite" => DoneOfIt = IF rpmb.count = req.count THEN 0 ELSE 1
      /\ req.kind \in {"read", "rpmbRead"} => DoneOfIt = 0
      /\ req.kind \in {"open", "close", "delete", "resize"} =>
           DoneOfIt = IF reply.result = "ok" THEN 1 ELSE 0
  BY <1>1, <1>3, DoneIs
<1>6. req.kind # "open" \/ reply.result # "ok" => Held' = Held
  BY <1>1, <1>2, SameHeld
<1>7. PICK any \in Handles : TRUE
  BY <1>1 DEF IInv, HandleInv, Away
<1>8. CASE reply = ErrorReply /\ Verdict = ErrorReply
  <2>1. reply.result = "error"
    BY <1>8, AnswerIs
  <2>2. DoneOfIt = 0 \/ req.kind \in {"write", "rpmbWrite"}
    BY <1>1, <1>5, <2>1, RequestIs
  <2>3. ta'.answer = [Store!NoAnswer EXCEPT !.result = "error"]
    BY <1>2, <1>8, SameData DEF ErrorReply
  <2>4. Held' = Held
    BY <1>6, <2>1
  <2>5. Store!AnswerNot("error")
    BY <1>1, <1>4, <2>2, <2>3, <2>4, SameData DEF Store!AnswerNot
  <2> QED
    BY <1>4, <2>5, SameData DEF Store!Answer
<1>9. CASE req.kind \in {"rpmbWrite", "rpmbRead"} /\ Verdict = UnknownReply
  <2>1. ta'.answer = [Store!NoAnswer EXCEPT !.result = "unknown"]
    BY <1>2, <1>9, SameData DEF UnknownReply
  <2>2. Store!AnswerNot("unknown")
    BY <1>1, <1>4, <1>6, <1>9, <2>1, SameData DEF Store!AnswerNot
  <2> QED
    BY <1>4, <2>2, SameData DEF Store!Answer
<1> DEFINE content == IF req.kind = "read" THEN files[Held[req.handle]] ELSE Empty
           secret  == IF req.kind = "rpmbRead" THEN rpmb ELSE NoAnswer.secret
<1>10. ASSUME NEW h \in Handles, req.kind = "open" => Held[h] = "none",
              Held' = IF req.kind = "open" THEN [Held EXCEPT ![h] = req.name] ELSE Held,
              Verdict = FullReply(IF req.kind = "open" THEN h ELSE 0, content, secret),
              req.kind = "write" => DoneOfIt = Length(req.data),
              req.kind \in {"open", "close", "delete", "resize", "rpmbWrite"} => DoneOfIt = 1
       PROVE  Store!Answer
  <2>1. Store!Done
    BY <1>4, <1>10, StoreDone
  <2>2. ta'.answer = [Store!NoAnswer EXCEPT
           !.result  = "ok",
           !.handle  = IF req.kind = "open" THEN h ELSE 0,
           !.content = IF req.kind = "read" THEN files[Held[req.handle]] ELSE Store!Empty,
           !.secret  = IF req.kind = "rpmbRead" THEN rpmb ELSE Store!NoAnswer.secret]
    BY <1>2, <1>10, SameData DEF FullReply
  <2>3. Store!AnswerOk(h)
    BY <1>1, <1>4, <1>10, <2>1, <2>2, SameData DEF Store!AnswerOk
  <2> QED
    BY <1>4, <2>3, SameData DEF Store!Answer
<1>11. CASE /\ reply.result = "ok" /\ req.kind \notin {"rpmbWrite", "rpmbRead"}
            /\ Verdict = reply /\ reply = OkReply(reply.handle, reply.content)
  <2>0. reply # ErrorReply
    BY <1>11, ResultsDiffer
  <2>1. /\ IF req.kind = "open"
             THEN /\ reply.handle \in Handles \ ta.held
                  /\ fds[reply.handle] = req.name
             ELSE reply.handle = 0
        /\ reply.content = IF req.kind = "read" THEN files[File] ELSE Empty
        /\ req.kind = "write" => at = Length(req.data)
    BY <1>1, <2>0 DEF IInv, ReplyInv
  <2>2. reply.content = content
    <3>1. req.kind = "read" => Held[req.handle] = File
      BY <1>1, HeldIs, FileOfHandle DEF File, IInv, RequestInv
    <3> QED
      BY <2>1, <3>1
  <2>3. Verdict = FullReply(reply.handle, content, secret)
    BY <1>11, <2>2, FullIs
  <2>4. CASE req.kind = "open"
    <3>1. Held[reply.handle] = "none"
      BY <2>1, <2>4, HeldIs
    <3>2. Held' = [Held EXCEPT ![reply.handle] = req.name]
      BY <1>1, <1>2, <1>11, <2>1, <2>4 DEF Held
    <3> HIDE DEF content, secret
    <3> QED
      BY <1>5, <1>10, <1>11, <2>1, <2>3, <2>4, <3>1, <3>2
  <2>5. CASE req.kind # "open"
    <3> HIDE DEF content, secret
    <3> QED
      BY <1>5, <1>6, <1>7, <1>10, <1>11, <2>1, <2>3, <2>5
  <2> QED
    BY <2>4, <2>5
<1>12. CASE /\ req.kind = "rpmbWrite" /\ Verdict = OkReply(0, Empty)
            /\ buf.kind = "written" /\ buf.count = req.count + 1
  <2>1. buf.count <= rpmb.count /\ req.count \in Nat
    BY <1>1, <1>12, RequestIs, CountsAreNat DEF IInv, FrameInv
  <2>2. DoneOfIt = 1
    BY <1>5, <1>12, <2>1
  <2>3. Verdict = FullReply(0, content, secret)
    BY <1>12, FullIs
  <2> HIDE DEF content, secret
  <2> QED
    BY <1>6, <1>7, <1>10, <1>12, <2>2, <2>3
<1>13. CASE /\ req.kind = "rpmbRead" /\ buf.kind = "read"
            /\ Verdict = SecretReply([count |-> buf.count, value |-> buf.value])
  <2>1. buf.count = rpmb.count /\ buf.value = rpmb.value
    BY <1>3, <1>13 DEF IInv, FrameInv
  <2>2. [count |-> buf.count, value |-> buf.value] = rpmb
    BY <2>1 DEF IInv, TypeOK, Secrets
  <2>3. Verdict = FullReply(0, content, secret)
    BY <1>13, <2>2, FullIs
  <2> HIDE DEF content, secret
  <2> QED
    BY <1>6, <1>7, <1>10, <1>13, <2>3
<1> QED
  BY <1>1, <1>8, <1>9, <1>11, <1>12, <1>13, VerdictIs

-----------------------------------------------------------------------------
(***************************************************************************)
(* The daemon implements the store.                                        *)
(***************************************************************************)
LEMMA InitRefines == Init => Store!Init
<1> SUFFICES ASSUME Init
             PROVE  Store!Init
  OBVIOUS
<1>1. ~Busy
  BY DEF Init, Busy
<1>2. Asked = NoRequest /\ DoneOfIt = 0
  BY <1>1, DoneIs DEF Asked
<1>3. Held = [h \in Handles |-> "none"]
  BY GoneIs DEF Init, Held
<1> QED
  BY <1>2, <1>3, GoneIs, SameData DEF Init, Store!Init, Store!NoneHeld

LEMMA StepRefines == IInv /\ [Next]_vars => [Store!Next]_Store!vars
<1> SUFFICES ASSUME IInv, [Next]_vars
             PROVE  Store!Next \/ UNCHANGED Store!vars
  OBVIOUS
<1> USE DEF Store!Next
<1>1. CASE Start
  BY <1>1, StartRefines
<1>2. CASE HangUp \/ Die \/ Connect
  BY <1>2, SessionRefines
<1>3. CASE Respond
  BY <1>3, RespondRefines
<1>4. CASE Open
  BY <1>4, OpenRefines
<1>5. CASE Create
  BY <1>5, CreateRefines
<1>6. CASE Close
  BY <1>6, CloseRefines
<1>7. CASE Delete
  BY <1>7, DeleteRefines
<1>8. CASE Read
  BY <1>8, ReadRefines
<1>9. CASE Resize
  BY <1>9, ResizeRefines
<1>10. CASE \E n \in 1..Size : Write(n)
  BY <1>10, WriteRefines
<1>11. CASE WriteFails
  BY <1>11, WriteFailsRefines
<1>12. CASE ReliableWrite
  BY <1>12, ReliableWriteRefines
<1>13. CASE Request
  BY <1>13, RequestRefines
<1>14. CASE Fetch
  BY <1>14, FetchRefines
<1>15. CASE Reset
  BY <1>15, ResetRefines
<1>16. CASE TaLeaves
  BY <1>16, TaLeavesRefines
<1>17. CASE \E r \in Requests : Receive(r)
  BY <1>17, ReceiveRefines
<1>18. CASE UNCHANGED vars
  <2>1. UNCHANGED <<pc, fds, req, at, reply, files, rpmb, ta>>
    BY <1>18 DEF vars
  <2>2. Held' = Held
    BY <2>1, SameHeld
  <2>3. Asked' = Asked /\ DoneOfIt' = DoneOfIt
    BY <2>1, DoneIs, DoneIsNext DEF Asked, Busy
  <2> QED
    BY <2>1, <2>2, <2>3, Stuttering
<1> QED
  BY <1>1, <1>2, <1>3, <1>4, <1>5, <1>6, <1>7, <1>8, <1>9, <1>10, <1>11, <1>12, <1>13, <1>14, <1>15,
     <1>16, <1>17, <1>18 DEF Next, Daemon

(***************************************************************************)
(* The daemon keeps what the abstract store promises to Trusty: what it is *)
(* told was done was done, in full and once, however the file system, the  *)
(* device and the channel fail.                                            *)
(***************************************************************************)
THEOREM DaemonKeepsPromises == Spec => KeepsPromises
  BY Invariance, InitRefines, StepRefines, PTL DEF Spec, KeepsPromises, Store!Spec

=============================================================================
