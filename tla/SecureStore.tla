----------------------------- MODULE SecureStore -----------------------------
(***************************************************************************)
(* What the storage service of Trusty is promised.  It asks one thing at a *)
(* time.  What it is told was done, was done, in full and once; what it is *)
(* told was read is what is there; but for a file that was being written,  *)
(* an error means that nothing was done; only of an RPMB exchange it may   *)
(* be left in doubt.  A session that is lost takes its handles along, and  *)
(* what was being done may be left at any point.                           *)
(***************************************************************************)
EXTENDS StoreData

VARIABLES
    files,    \* the files there are and what they hold
    secret,   \* what the RPMB partition holds
    held,     \* the files that the handles of the session stand for
    request,  \* what is being asked
    done,     \* what has been done of it: how many blocks of a write, or 1
    answer    \* the last answer

vars == <<files, secret, held, request, done, answer>>

NoneHeld == [h \in Handles |-> "none"]

Init ==
    /\ files = [n \in {} |-> Empty]
    /\ secret = [count |-> 0, value |-> "zero"]
    /\ held = NoneHeld
    /\ request = NoRequest /\ done = 0
    /\ answer = NoAnswer

\* A file that is open is not deleted.
Ask ==
    /\ request = NoRequest /\ request' \in Requests
    /\ request'.kind \in OnHandle => held[request'.handle] # "none"
    /\ request'.kind = "delete" => \A h \in Handles : held[h] # request'.name
    /\ done' = 0 /\ answer' = NoAnswer
    /\ UNCHANGED <<files, secret, held>>

-----------------------------------------------------------------------------
(***************************************************************************)
(* What a request does.                                                    *)
(***************************************************************************)
Prefix(d, n) == [i \in 1..n |-> d[i]]

Write(n) ==
    /\ request.kind = "write"
    /\ n \in Blocks(request.data) /\ n > done
    /\ LET f == held[request.handle]
       IN files' = With(files, f, Patched(files[f], request.from, Prefix(request.data, n)))
    /\ done' = n
    /\ UNCHANGED <<secret, held, request, answer>>

Open ==
    /\ request.kind = "open" /\ done = 0
    /\ ~Refused(files, request)
    /\ files' = With(files, request.name, Opened(files, request))
    /\ done' = 1
    /\ UNCHANGED <<secret, held, request, answer>>

Delete ==
    /\ request.kind = "delete" /\ done = 0
    /\ request.name \in DOMAIN files
    /\ files' = Without(files, request.name)
    /\ done' = 1
    /\ UNCHANGED <<secret, held, request, answer>>

Resize ==
    /\ request.kind = "resize" /\ done = 0
    /\ LET f == held[request.handle] IN files' = With(files, f, Resized(files[f], request.size))
    /\ done' = 1
    /\ UNCHANGED <<secret, held, request, answer>>

Close ==
    /\ request.kind = "close" /\ done = 0
    /\ held' = [held EXCEPT ![request.handle] = "none"]
    /\ done' = 1
    /\ UNCHANGED <<files, secret, request, answer>>

RpmbWrite ==
    /\ request.kind = "rpmbWrite" /\ done = 0
    /\ secret.count = request.count /\ secret.count < MaxCount
    /\ secret' = [count |-> secret.count + 1, value |-> request.value]
    /\ done' = 1
    /\ UNCHANGED <<files, held, request, answer>>

-----------------------------------------------------------------------------
(***************************************************************************)
(* What is answered.                                                       *)
(***************************************************************************)
Done ==
    CASE request.kind = "write" -> done = Length(request.data)
      [] request.kind \in {"open", "close", "delete", "resize", "rpmbWrite"} -> done = 1
      [] OTHER -> TRUE

AnswerOk(h) ==
    /\ Done
    /\ answer' = [NoAnswer EXCEPT
         !.result  = "ok",
         !.handle  = IF request.kind = "open" THEN h ELSE 0,
         !.content = IF request.kind = "read" THEN files[held[request.handle]] ELSE Empty,
         !.secret  = IF request.kind = "rpmbRead" THEN secret ELSE NoAnswer.secret]
    /\ held' = IF request.kind = "open" THEN [held EXCEPT ![h] = request.name] ELSE held
    /\ request.kind = "open" => held[h] = "none"
    /\ request' = NoRequest /\ done' = 0
    /\ UNCHANGED <<files, secret>>

AnswerNot(result) ==
    /\ result = "error" => done = 0 \/ request.kind \in {"write", "rpmbWrite"}
    /\ result = "refused" => request.kind = "rpmbWrite" /\ done = 0
    /\ result = "unknown" => request.kind \in {"rpmbWrite", "rpmbRead"}
    /\ answer' = [NoAnswer EXCEPT !.result = result]
    /\ request' = NoRequest /\ done' = 0
    /\ UNCHANGED <<files, secret, held>>

Answer ==
    /\ request # NoRequest
    /\ (\E h \in Handles : AnswerOk(h)) \/ (\E result \in {"error", "refused", "unknown"} : AnswerNot(result))

LoseSession ==
    /\ held' = NoneHeld
    /\ request' = NoRequest /\ done' = 0 /\ answer' = NoAnswer
    /\ UNCHANGED <<files, secret>>

Next ==
    \/ Ask
    \/ \E n \in 1..Size : Write(n)
    \/ Open \/ Close \/ Delete \/ Resize \/ RpmbWrite
    \/ Answer
    \/ LoseSession

Spec == Init /\ [][Next]_vars

=============================================================================
