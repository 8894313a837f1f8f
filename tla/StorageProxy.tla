---------------------------- MODULE StorageProxy ----------------------------
(***************************************************************************)
(* recovery_storageproxyd: connects to Trusty, serves one request after     *)
(* the other from the files under /tmp/ss and from the RPMB partition       *)
(* behind a SCSI generic device, and connects again when the channel is     *)
(* lost.  Handles are the daemon's descriptors.  External: the storage      *)
(* service of Trusty (ta), the device, and init, which starts the daemon.   *)
(***************************************************************************)
EXTENDS StoreData, FiniteSets

CONSTANTS
    FilesFail,   \* whether the file system may refuse to create or to write
    MaxIncidents \* bound: incidents of the RPMB device

ASSUME ProxyAssumption ==
    FilesFail \in BOOLEAN /\ MaxIncidents \in Nat /\ 0 \notin Handles /\ {"free", "rpmb", "tipc"} \cap Names = {}

VARIABLES
    pc,        \* where the daemon is
    fds,       \* what each descriptor is
    req,       \* the request being handled
    at,        \* how much of it write_full has written
    tries,     \* retry of send_ufs_rpmb
    reply,     \* msg->result and the payload of the answer
    files,     \* under ss_data_root
    rpmb,      \* the partition: its counter and its value
    register,  \* result of the last write to it
    response,  \* what the device answers the next read with
    attention, \* the device was reset and has not said so
    buf,       \* rpmb_read_buf
    incidents, \* how many there were
    calm,      \* none since the request arrived
    ta         \* whether it is linked, its handles, the counter it is sure of, its last answer

vars == <<pc, fds, req, at, tries, reply, files, rpmb, register, response, attention, buf, incidents, calm, ta>>
device == <<rpmb, register, response, attention, incidents>>

\* What the device answers: no nonce tells a result apart from an earlier one, but its counter.
Frames ==
    [kind : {"junk"}, count : {0}, value : {"zero"}]
      \cup [kind : {"written", "refused"}, count : Counts, value : {"zero"}]
      \cup [kind : {"read", "stale"}, count : Counts, value : Values \cup {"zero"}]
Junk == [kind |-> "junk", count |-> 0, value |-> "zero"]

\* A frame with a nonce that is no longer that of the request.
Aged(f) == IF f.kind = "read" THEN [f EXCEPT !.kind = "stale"] ELSE f

Gone == [linked |-> FALSE, held |-> {}, sure |-> FALSE, count |-> 0, answer |-> NoAnswer]

TypeOK ==
    /\ pc \in {"down", "connect", "serve", "do", "create", "reliable", "request", "fetch", "reply"}
    /\ fds \in [Handles -> Names \cup {"free", "rpmb", "tipc"}]
    /\ req \in Requests \cup {NoRequest}
    /\ at \in 0..Size /\ tries \in 0..3
    /\ reply \in Answers
    /\ DOMAIN files \subseteq Names /\ files \in [DOMAIN files -> Contents]
    /\ rpmb \in Secrets
    /\ register \in Frames /\ response \in Frames /\ buf \in Frames
    /\ attention \in BOOLEAN /\ calm \in BOOLEAN
    /\ incidents \in 0..MaxIncidents
    /\ ta \in [linked : BOOLEAN, held : SUBSET Handles, sure : BOOLEAN, count : Counts, answer : Answers]

Idle == req' = NoRequest /\ at' = 0 /\ tries' = 0 /\ reply' = NoAnswer /\ calm' = TRUE
NoFds == [h \in Handles |-> "free"]

Init ==
    /\ pc = "down" /\ fds = NoFds
    /\ req = NoRequest /\ at = 0 /\ tries = 0 /\ reply = NoAnswer
    /\ files = [n \in {} |-> Empty]
    /\ rpmb = [count |-> 0, value |-> "zero"]
    /\ register = Junk /\ response = Junk /\ buf = Junk
    /\ attention = FALSE /\ incidents = 0 /\ calm = TRUE
    /\ ta = Gone

-----------------------------------------------------------------------------
(***************************************************************************)
(* The process and the channel.                                            *)
(***************************************************************************)
Free == {h \in Handles : fds[h] = "free"}
Lowest(H) == CHOOSE h \in H : \A g \in H : h <= g

\* Until the device is there, init starts it in vain.
Start ==
    /\ pc = "down"
    /\ pc' = "connect"
    /\ fds' = [fds EXCEPT ![Lowest(Handles)] = "rpmb"]
    /\ UNCHANGED <<req, at, tries, reply, files, device, buf, calm, ta>>

\* Its descriptors and its memory are gone.
Die ==
    /\ pc # "down"
    /\ pc' = "down" /\ fds' = NoFds /\ ta' = Gone /\ buf' = Junk /\ Idle
    /\ UNCHANGED <<files, device>>

\* What keeps tipc_connect from it is tried again, after a while.
Connect ==
    /\ pc = "connect" /\ Free # {}
    /\ pc' = "serve"
    /\ fds' = [fds EXCEPT ![Lowest(Free)] = "tipc"]
    /\ ta' = [Gone EXCEPT !.linked = TRUE]
    /\ UNCHANGED <<req, at, tries, reply, files, device, buf, calm>>

TaLeaves ==
    /\ ta.linked
    /\ ta' = [ta EXCEPT !.linked = FALSE]
    /\ UNCHANGED <<pc, fds, req, at, tries, reply, files, device, buf, calm>>

ClosedNothing == fds  \* mutant: close(tipc_fd) is missing
Closed == [h \in Handles |-> IF fds[h] = "tipc" THEN "free" ELSE fds[h]]

\* proxy_loop returns when nothing can be read or answered any more.
HangUp ==
    /\ pc \in {"serve", "reply"} /\ ~ta.linked
    /\ pc' = "connect" /\ fds' = Closed /\ ta' = Gone /\ Idle
    /\ UNCHANGED <<files, device, buf>>

\* What Trusty asks: with handles it has, and of the RPMB with the counter it knows.
Asks(r) ==
    CASE r.kind = "write" -> r.handle \in ta.held /\ r.from + Length(r.data) <= Size
      [] r.kind \in {"close", "read", "resize"} -> r.handle \in ta.held
      [] r.kind = "delete" -> \A h \in ta.held : fds[h] # r.name
      [] r.kind = "rpmbWrite" -> ta.sure /\ r.count = ta.count /\ r.count < MaxCount
      [] OTHER -> TRUE

RetriesNone(kind) == 0  \* mutant: no command is repeated
Retries(kind) ==
    CASE kind = "rpmbWrite" -> 1 [] kind = "rpmbRead" -> 3 [] OTHER -> 0

Dispatch(kind) ==
    CASE kind = "rpmbWrite" -> "reliable" [] kind = "rpmbRead" -> "request" [] OTHER -> "do"

Receive(r) ==
    /\ pc = "serve" /\ ta.linked /\ Asks(r)
    /\ req' = r /\ at' = 0 /\ calm' = TRUE /\ reply' = NoAnswer
    /\ tries' = Retries(r.kind)
    /\ pc' = Dispatch(r.kind)
    /\ ta' = [ta EXCEPT !.answer = NoAnswer]
    /\ buf' = Aged(buf) /\ response' = Aged(response)
    /\ UNCHANGED <<fds, files, rpmb, register, attention, incidents>>

\* The verdict of Trusty on the frame of an RPMB exchange.
Verdict ==
    IF reply.result # "ok" THEN reply
    ELSE CASE req.kind = "rpmbWrite" ->
           [reply EXCEPT !.result = IF buf.kind = "written" /\ buf.count = req.count + 1 THEN "ok"
                                    ELSE IF buf.kind = "refused" THEN "refused" ELSE "unknown"]
      [] req.kind = "rpmbRead" ->
           IF buf.kind = "read"
             THEN [reply EXCEPT !.secret = [count |-> buf.count, value |-> buf.value]]
             ELSE [reply EXCEPT !.result = "unknown"]
      [] OTHER -> reply

Respond ==
    /\ pc = "reply" /\ ta.linked
    /\ pc' = "serve"
    /\ ta' = [ta EXCEPT
         !.answer = Verdict,
         !.held   = IF req.kind = "open" /\ reply.result = "ok" THEN @ \cup {reply.handle} ELSE @,
         !.sure   = CASE req.kind = "rpmbWrite" -> Verdict.result = "ok"
                      [] req.kind = "rpmbRead"  -> @ \/ Verdict.result = "ok"
                      [] OTHER -> @,
         !.count  = CASE req.kind = "rpmbWrite" /\ Verdict.result = "ok" -> buf.count
                      [] req.kind = "rpmbRead" /\ Verdict.result = "ok"  -> buf.count
                      [] OTHER -> @]
    /\ Idle
    /\ UNCHANGED <<fds, files, device, buf>>

-----------------------------------------------------------------------------
(***************************************************************************)
(* Files.                                                                  *)
(***************************************************************************)
Handling(kind) == pc = "do" /\ req.kind = kind
Replied(result) == pc' = "reply" /\ reply' = [NoAnswer EXCEPT !.result = result]
NoDevice == UNCHANGED <<req, tries, device, buf, calm>>

OpenAs(content) ==
    /\ fds' = [fds EXCEPT ![Lowest(Free)] = req.name]
    /\ files' = With(files, req.name, content)
    /\ pc' = "reply" /\ reply' = [NoAnswer EXCEPT !.result = "ok", !.handle = Lowest(Free)]

Exclusive == {"create", "exclusive"} \subseteq req.flags

OpenFails == Replied("error") /\ UNCHANGED <<fds, files>>

Open ==
    /\ Handling("open")
    /\ IF Free = {} \/ (req.name \in DOMAIN files /\ Exclusive)
            \/ (req.name \notin DOMAIN files /\ "create" \notin req.flags)
         THEN OpenFails
         ELSE IF req.name \in DOMAIN files
         THEN OpenAs(IF "truncate" \in req.flags THEN Empty ELSE files[req.name])
         ELSE pc' = "create" /\ UNCHANGED <<fds, files, reply>>
    /\ UNCHANGED <<at, ta>> /\ NoDevice

Create ==
    /\ pc = "create"
    /\ OpenAs(Empty) \/ (FilesFail /\ OpenFails)
    /\ UNCHANGED <<at, ta>> /\ NoDevice

Close ==
    /\ Handling("close")
    /\ fds' = [fds EXCEPT ![req.handle] = "free"]
    /\ ta' = [ta EXCEPT !.held = @ \ {req.handle}]
    /\ Replied("ok")
    /\ UNCHANGED <<at, files>> /\ NoDevice

Delete ==
    /\ Handling("delete")
    /\ files' = Without(files, req.name)
    /\ Replied(IF req.name \in DOMAIN files THEN "ok" ELSE "error")
    /\ UNCHANGED <<fds, at, ta>> /\ NoDevice

File == fds[req.handle]

Read ==
    /\ Handling("read")
    /\ pc' = "reply" /\ reply' = [NoAnswer EXCEPT !.result = "ok", !.content = files[File]]
    /\ UNCHANGED <<fds, at, files, ta>> /\ NoDevice

Resize ==
    /\ Handling("resize")
    /\ files' = With(files, File, Resized(files[File], req.size))
    /\ Replied("ok")
    /\ UNCHANGED <<fds, at, ta>> /\ NoDevice

Rest(n) == [i \in 1..n |-> req.data[at + i]]

\* One turn of write_full.
Write(n) ==
    /\ Handling("write") /\ at + n \in Blocks(req.data)
    /\ files' = With(files, File, Patched(files[File], req.from + at, Rest(n)))
    /\ at' = at + n
    /\ IF at + n = Length(req.data) THEN Replied("ok") ELSE UNCHANGED <<pc, reply>>
    /\ UNCHANGED <<fds, ta>> /\ NoDevice

WriteFails ==
    /\ Handling("write") /\ FilesFail
    /\ Replied("error")
    /\ UNCHANGED <<fds, at, files, ta>> /\ NoDevice

-----------------------------------------------------------------------------
(***************************************************************************)
(* The RPMB channel.                                                       *)
(***************************************************************************)
\* A command that the device obeys.
Programmed ==
    /\ IF rpmb.count = req.count
         THEN /\ rpmb' = [count |-> rpmb.count + 1, value |-> req.value]
              /\ register' = [kind |-> "written", count |-> rpmb.count + 1, value |-> "zero"]
         ELSE /\ register' = [kind |-> "refused", count |-> rpmb.count, value |-> "zero"]
              /\ UNCHANGED rpmb
    /\ response' = Junk /\ UNCHANGED buf

Requested ==
    /\ response' = IF req.kind = "rpmbWrite" THEN register
                   ELSE [kind |-> "read", count |-> rpmb.count, value |-> rpmb.value]
    /\ UNCHANGED <<rpmb, register, buf>>

Fetched == buf' = response /\ response' = Junk /\ UNCHANGED <<rpmb, register>>

Incident == incidents < MaxIncidents /\ incidents' = incidents + 1 /\ calm' = FALSE

\* ioctl(SG_IO) and check_sg_result: a device that was reset says so instead of
\* obeying; after another error, or when ioctl fails, it may have obeyed or not.
SgIo(obeyed, result) ==
    LET ignored == UNCHANGED <<rpmb, register, response, buf>>
    IN CASE result = "good" -> ~attention /\ obeyed /\ UNCHANGED <<attention, incidents, calm>>
         [] result = "attention" -> attention /\ ignored /\ attention' = FALSE /\ UNCHANGED <<incidents, calm>>
         [] OTHER -> Incident /\ (ignored \/ (~attention /\ obeyed)) /\ UNCHANGED attention

SgResults == {"good", "attention", "bad", "failed"}

AgainOnAny(result) == result \in {"attention", "bad"} /\ tries > 0  \* mutant: repeated after any error
Again(result) == result = "attention" /\ tries > 0

Proceed(result, next) ==
    /\ CASE result = "failed" -> Replied("error")
         [] result # "failed" /\ Again(result) -> UNCHANGED <<pc, reply>>
         [] result # "failed" /\ ~Again(result) /\ next = "reply" -> Replied("ok")
         [] OTHER -> pc' = next /\ UNCHANGED reply
    /\ tries' = IF Again(result) THEN tries - 1 ELSE 0
    /\ UNCHANGED <<fds, req, at, files, ta>>

ReliableWrite ==
    /\ pc = "reliable"
    /\ \E result \in SgResults : SgIo(Programmed, result) /\ Proceed(result, "request")

Request ==
    /\ pc = "request"
    /\ \E result \in SgResults : SgIo(Requested, result) /\ Proceed(result, "fetch")

\* What check_sg_result says of the answer is ignored.
Fetch ==
    /\ pc = "fetch"
    /\ \E result \in SgResults : SgIo(Fetched, result) /\ Proceed(result, "reply")

Reset ==
    /\ Incident
    /\ attention' = TRUE /\ register' = Junk /\ response' = Junk
    /\ UNCHANGED <<pc, fds, req, at, tries, reply, files, rpmb, buf, ta>>

-----------------------------------------------------------------------------
Daemon ==
    \/ Start \/ HangUp \/ Respond
    \/ Open \/ Create \/ Close \/ Delete \/ Read \/ Resize
    \/ (\E n \in 1..Size : Write(n)) \/ WriteFails
    \/ ReliableWrite \/ Request \/ Fetch

Next ==
    \/ Daemon \/ Connect \/ Die \/ Reset \/ TaLeaves
    \/ \E r \in Requests : Receive(r)

\* The daemon runs, and is not killed each time before Trusty takes it back.
Fairness == WF_vars(Daemon) /\ SF_vars(Connect)

Spec == Init /\ [][Next]_vars /\ Fairness

-----------------------------------------------------------------------------
(***************************************************************************)
(* Properties.                                                             *)
(***************************************************************************)
Busy == pc \notin {"down", "connect", "serve"}

DoneOfIt ==
    IF ~Busy THEN 0
    ELSE CASE req.kind = "write" -> at
           [] req.kind = "rpmbWrite" -> IF rpmb.count = req.count THEN 0 ELSE 1
           [] req.kind \in {"read", "rpmbRead"} -> 0
           [] OTHER -> IF pc = "reply" /\ reply.result = "ok" THEN 1 ELSE 0

Held  == [h \in Handles |-> IF h \in ta.held THEN fds[h] ELSE "none"]
Asked == IF Busy THEN req ELSE NoRequest

Store == INSTANCE SecureStore WITH
    secret <- rpmb, held <- Held, request <- Asked, done <- DoneOfIt, answer <- ta.answer

\* The daemon keeps what the abstract store promises to Trusty, whatever the device
\* and the file system refuse, however writes are cut up, and although handles are
\* descriptors that are given out again.
KeepsPromises == Store!Spec

\* A reset of the device between two exchanges is not seen by Trusty.
ResetCostsNothing ==
    pc = "reply" /\ req.kind \in {"rpmbWrite", "rpmbRead"} /\ calm => Verdict.result \in {"ok", "refused"}

\* The daemon connects again and again, although lost sessions leave files open:
\* the descriptor of the channel is not among those they keep.
ComesBack == []<>(pc = "serve")

=============================================================================
