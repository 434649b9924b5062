---------------------------- MODULE ImageDownload ----------------------------
(***************************************************************************)
(* CloudImage._download_file and _stream_to_partial: one resource of a     *)
(* mirror is fetched into <destination>.partial, resumed after a failure,  *)
(* and renamed onto the destination.  Several processes, or the worker     *)
(* threads of one lvlab init, may fetch to the same destination (images    *)
(* that share a GPG keyring), and the mirror may publish a new version.    *)
(***************************************************************************)
EXTENDS Naturals, Sequences

CONSTANTS
  Procs,          \* threads that download to this destination
  Files,          \* the inodes of the cache directory
  NoFile,         \* "there is no such file"
  LastVersion,    \* versions the mirror publishes, in order, are 1..LastVersion
  Length,         \* blocks of each version
  EncodedLength,  \* what a server counts of a version it sends encoded
  Framings,       \* how the end of a body is marked: "sized", "chunked", "close"
  Encodings,      \* whether a reply can be content-encoded
  Cleaning,       \* whether `lvlab images clean --force' may run meanwhile
  MaxFaults       \* bound on lost connections, HTTP errors, kills and cleanings

Versions == 1..LastVersion
_MAX_ATTEMPTS == 3

ASSUME DownloadAssumption ==
  /\ NoFile \notin Files
  /\ LastVersion \in Nat \ {0}
  /\ Length \in [Versions -> Nat \ {0}]
  /\ EncodedLength \in [Versions -> Nat \ {0}]
  /\ Framings \subseteq {"sized", "chunked", "close"}
  /\ Encodings \subseteq BOOLEAN
  /\ Cleaning \in BOOLEAN
  /\ MaxFaults \in Nat

\* A block is the version it comes from and its place there; a hole is what
\* lies before a write past the end of a file.
Blocks == Versions \X Nat
Hole == <<0, 0>>
Whole(v) == [i \in 1..Length[v] |-> <<v, i>>]

VARIABLES
  upstream,  \* version the mirror serves
  content,   \* content of each inode
  partial,   \* inode the name <destination>.partial refers to
  dest,      \* inode the name <destination> refers to
  pc, attempt, result,
  range,     \* size of the partial file when the request was made ("already")
  reply,     \* [version, from, total, framing] of the body being received
  sent,      \* blocks of the body received
  handle,    \* inode each process has open
  faults,
  steady     \* nothing went on under the downloads that they cannot notice: no
             \* newer version, no cleaning, no body that was cut short in silence

vars == <<upstream, content, partial, dest, pc, attempt, result, range, reply,
          sent, handle, faults, steady>>
mirror == <<upstream, steady>>
names == <<partial, dest>>

Replies == [version : Versions, from : Nat, total : Nat,
            framing : {"sized", "chunked", "close"}]

TypeOK ==
  /\ upstream \in Versions
  /\ content \in [Files -> Seq(Blocks \cup {Hole})]
  /\ partial \in Files \cup {NoFile}
  /\ dest \in Files \cup {NoFile}
  /\ pc \in [Procs -> {"idle", "ask", "reply", "write", "check", "replace"}]
  /\ attempt \in [Procs -> 1.._MAX_ATTEMPTS]
  /\ result \in [Procs -> {"none", "ok", "incomplete", "error"}]
  /\ range \in [Procs -> Nat]
  /\ reply \in [Procs -> Replies]
  /\ sent \in [Procs -> Nat]
  /\ handle \in [Procs -> Files \cup {NoFile}]
  /\ faults \in 0..MaxFaults
  /\ steady \in BOOLEAN

\* An earlier, killed download may have left part of the first version.
Init ==
  /\ upstream \in Versions
  /\ dest = NoFile
  /\ \/ /\ partial = NoFile
        /\ content = [f \in Files |-> <<>>]
     \/ \E f \in Files, n \in 0..Length[1] :
          /\ partial = f
          /\ content = [g \in Files |->
                          IF g = f THEN SubSeq(Whole(1), 1, n) ELSE <<>>]
  /\ pc = [p \in Procs |-> "idle"]
  /\ attempt = [p \in Procs |-> 1]
  /\ result = [p \in Procs |-> "none"]
  /\ range = [p \in Procs |-> 0]
  /\ reply = [p \in Procs |-> [version |-> 1, from |-> 0, total |-> 0,
                               framing |-> "sized"]]
  /\ sent = [p \in Procs |-> 0]
  /\ handle = [p \in Procs |-> NoFile]
  /\ faults = 0
  /\ steady = (upstream = 1)

-----------------------------------------------------------------------------

Fault == faults < MaxFaults /\ faults' = faults + 1
Fine == faults' = faults

At(p, label) == pc[p] = label
Goto(p, label) == pc' = [pc EXCEPT ![p] = label]

\* The download returns, or raises, and closes its file.
Finish(p, r) ==
  /\ Goto(p, "idle")
  /\ result' = [result EXCEPT ![p] = r]
  /\ attempt' = [attempt EXCEPT ![p] = 1]
  /\ range' = [range EXCEPT ![p] = 0]
  /\ sent' = [sent EXCEPT ![p] = 0]
  /\ handle' = [handle EXCEPT ![p] = NoFile]
  /\ UNCHANGED reply

\* An attempt failed: the next one starts over, the last one is reported.
Retry(p, r) ==
  \/ attempt[p] = _MAX_ATTEMPTS /\ Finish(p, r)
  \/ /\ attempt[p] < _MAX_ATTEMPTS
     /\ Goto(p, "ask")
     /\ attempt' = [attempt EXCEPT ![p] = attempt[p] + 1]
     /\ range' = [range EXCEPT ![p] = 0]
     /\ sent' = [sent EXCEPT ![p] = 0]
     /\ handle' = [handle EXCEPT ![p] = NoFile]
     /\ UNCHANGED <<result, reply>>

Size(f) == IF f = NoFile THEN 0 ELSE Len(content[f])

\* download_image and its two siblings, once their caller saw no file there.
Start(p) ==
  /\ At(p, "idle")
  /\ dest = NoFile
  /\ Goto(p, "ask")
  /\ result' = [result EXCEPT ![p] = "none"]
  /\ UNCHANGED <<mirror, content, names, attempt, range, reply, sent, handle,
                 faults>>

Ask(p) ==
  /\ At(p, "ask")
  /\ range' = [range EXCEPT ![p] = Size(partial)]
  /\ Goto(p, "reply")
  /\ UNCHANGED <<mirror, content, names, attempt, result, reply, sent, handle,
                 faults>>

Discard_Keeps == UNCHANGED partial
Discard == partial' = NoFile

\* HTTP 416: the range starts past the end of what the server has.
StaleRange(p) ==
  /\ At(p, "reply")
  /\ range[p] > 0
  /\ \/ FALSE \in Encodings /\ range[p] >= Length[upstream]
     \/ TRUE \in Encodings /\ range[p] >= EncodedLength[upstream]
  /\ Discard
  /\ Retry(p, "incomplete")
  /\ UNCHANGED <<mirror, content, dest, faults>>

\* A content-encoded reply to a range request cannot be appended.
EncodedRange(p) ==
  /\ At(p, "reply")
  /\ range[p] > 0
  /\ TRUE \in Encodings
  /\ Discard
  /\ Retry(p, "incomplete")
  /\ UNCHANGED <<mirror, content, dest, faults>>

\* 404 and the like: the partial file goes, and no attempt follows.
HttpError(p) ==
  /\ At(p, "reply")
  /\ Fault
  /\ Discard
  /\ Finish(p, "error")
  /\ UNCHANGED <<mirror, content, dest>>

\* A refused connection is final, every other transport failure is retried.
Refused(p) ==
  /\ At(p, "reply")
  /\ Fault
  /\ Finish(p, "error")
  /\ UNCHANGED <<mirror, content, names>>

Dropped(p) ==
  /\ pc[p] \in {"reply", "write"}
  /\ Fault
  /\ Retry(p, "error")
  /\ UNCHANGED <<mirror, content, names>>

\* open() of the partial file, for appending or truncating it.
Open(p, append) ==
  \/ /\ partial # NoFile
     /\ handle' = [handle EXCEPT ![p] = partial]
     /\ content' = IF append THEN content ELSE [content EXCEPT ![partial] = <<>>]
     /\ UNCHANGED partial
  \/ /\ partial = NoFile
     /\ \E f \in Files :
          /\ f # dest /\ \A q \in Procs : f # handle[q]
          /\ partial' = f
          /\ handle' = [handle EXCEPT ![p] = f]
          /\ content' = [content EXCEPT ![f] = <<>>]

Appends_Always(p, honoured) == range[p] > 0
Appends(p, honoured) == honoured

\* A body arrives: 206 when the server honours the range, 200 when it sends
\* everything.  Only a plain, sized body has a length to check.
Body(p) ==
  /\ At(p, "reply")
  /\ \E honoured \in BOOLEAN, encoded \in Encodings, framing \in Framings :
       LET from == IF honoured THEN range[p] ELSE 0 IN
       /\ honoured => range[p] > 0 /\ range[p] < Length[upstream] /\ ~encoded
       /\ encoded => range[p] = 0
       /\ reply' = [reply EXCEPT ![p] =
            [version |-> upstream, from |-> from, framing |-> framing,
             total |-> IF framing = "sized" /\ ~encoded THEN Length[upstream]
                                                       ELSE 0]]
       /\ range' = [range EXCEPT ![p] = IF Appends(p, honoured) THEN @ ELSE 0]
       /\ Open(p, Appends(p, honoured))
  /\ Goto(p, "write")
  /\ UNCHANGED <<mirror, dest, attempt, result, sent, faults>>

Remaining(p) == Length[reply[p].version] - reply[p].from - sent[p]

\* Block b written at place i of file c, past its end if need be.
WriteAt(c, i, b) ==
  [j \in 1..(IF i > Len(c) THEN i ELSE Len(c)) |->
     IF j = i THEN b ELSE IF j <= Len(c) THEN c[j] ELSE Hole]

\* A file opened to append is written at its end, wherever that is by then.
Write(p) ==
  LET c == content[handle[p]]
      i == IF range[p] > 0 THEN Len(c) + 1 ELSE sent[p] + 1
      b == <<reply[p].version, reply[p].from + sent[p] + 1>>
  IN
  /\ At(p, "write")
  /\ Remaining(p) > 0
  /\ content' = [content EXCEPT ![handle[p]] = WriteAt(c, i, b)]
  /\ sent' = [sent EXCEPT ![p] = sent[p] + 1]
  /\ UNCHANGED <<mirror, names, pc, attempt, result, range, reply, handle, faults>>

\* The body is over: all of it was read, or the connection that marks its end
\* by closing was lost.  The client library raises on any other short body.
EndOfBody(p) ==
  /\ At(p, "write")
  /\ \/ Fine /\ Remaining(p) = 0 /\ UNCHANGED steady
     \/ /\ Fault /\ Remaining(p) > 0 /\ reply[p].framing = "close"
        /\ steady' = FALSE
  /\ Goto(p, "check")
  /\ handle' = [handle EXCEPT ![p] = NoFile]
  /\ UNCHANGED <<upstream, content, names, attempt, result, range, reply, sent>>

\* getsize raises when another process has taken the partial file away.
Check(p) ==
  LET total == reply[p].total IN
  /\ At(p, "check")
  /\ \/ /\ total = 0 \/ (partial # NoFile /\ Size(partial) = total)
        /\ Goto(p, "replace")
        /\ UNCHANGED <<attempt, result, range, reply, sent, handle>>
     \/ /\ total # 0 /\ partial # NoFile /\ Size(partial) # total
        /\ Retry(p, "incomplete")
     \/ /\ total # 0 /\ partial = NoFile
        /\ Finish(p, "error")
  /\ UNCHANGED <<mirror, content, names, faults>>

\* os.replace
Replace(p) ==
  /\ At(p, "replace")
  /\ \/ /\ partial # NoFile
        /\ dest' = partial
        /\ partial' = NoFile
        /\ Finish(p, "ok")
     \/ /\ partial = NoFile
        /\ Finish(p, "error")
        /\ UNCHANGED names
  /\ UNCHANGED <<mirror, content, faults>>

Kill(p) ==
  /\ ~At(p, "idle")
  /\ Fault
  /\ Finish(p, "error")
  /\ UNCHANGED <<mirror, content, names>>

\* images_clean removes what no manifest entry names, partial files included.
Clean ==
  /\ Cleaning
  /\ partial # NoFile
  /\ Fault
  /\ partial' = NoFile
  /\ steady' = FALSE
  /\ UNCHANGED <<upstream, content, dest, pc, attempt, result, range, reply, sent,
                 handle>>

Publish ==
  /\ upstream < LastVersion
  /\ upstream' = upstream + 1
  /\ steady' = FALSE
  /\ UNCHANGED <<content, names, pc, attempt, result, range, reply, sent, handle,
                 faults>>

Step(p) ==
  \/ Ask(p) \/ StaleRange(p) \/ EncodedRange(p) \/ HttpError(p) \/ Refused(p)
  \/ Dropped(p) \/ Body(p) \/ Write(p) \/ EndOfBody(p) \/ Check(p) \/ Replace(p)

Next == Publish \/ Clean \/ \E p \in Procs : Start(p) \/ Step(p) \/ Kill(p)

Spec == Init /\ [][Next]_vars

-----------------------------------------------------------------------------
(* Safety *)

IsPart(c, v) == Len(c) <= Length[v] /\ \A i \in 1..Len(c) : c[i] = <<v, i>>

\* What one downloader relies on between two of its steps.
ControlInv(p) ==
  /\ pc[p] \in {"idle", "ask"} => sent[p] = 0 /\ handle[p] = NoFile
  /\ pc[p] = "reply" =>
       sent[p] = 0 /\ handle[p] = NoFile /\ range[p] = Size(partial)
  /\ pc[p] = "write" =>
       /\ handle[p] = partial /\ partial # NoFile
       /\ Len(content[partial]) = reply[p].from + sent[p]
       /\ range[p] = reply[p].from
       /\ reply[p].version = 1
  /\ pc[p] \in {"check", "replace"} =>
       /\ handle[p] = NoFile /\ partial # NoFile
       /\ Len(content[partial]) = Length[1]
  /\ pc[p] \in {"write", "check"} => reply[p].total \in {0, Length[1]}

CacheInv ==
  /\ upstream = 1
  /\ dest # NoFile => content[dest] = Whole(1)
  /\ partial # NoFile => partial # dest /\ IsPart(content[partial], 1)

\* One downloader: whatever fails, as long as neither the resource nor the
\* partial file changes under it and no body is cut short without a trace, the
\* partial file is a prefix of the resource, the body being received continues
\* it, and only all of it reaches the rename.
DownloadInv ==
  /\ TypeOK
  /\ steady => CacheInv /\ \A p \in Procs : ControlInv(p)

-----------------------------------------------------------------------------
(* The promise to the cache *)

\* The version that file f is a whole copy of, or 0
VersionOf(f) ==
  IF \E v \in Versions : content[f] = Whole(v)
  THEN CHOOSE v \in Versions : content[f] = Whole(v)
  ELSE 0

Promise == INSTANCE CachedFile
  WITH Absent <- NoFile,
       current <- upstream,
       entry <- IF dest = NoFile THEN NoFile ELSE VersionOf(dest)

\* A lone download keeps the promise the cache relies on: its requests, retries
\* and renames amount to one step, after which the file is never written again,
\* and only a disturbed one may leave something else than what is served
\* (_download_file, as Get of ImageCache takes it to be).
KeepsPromise == Promise!Spec

-----------------------------------------------------------------------------
(* Liveness: a download that was asked for goes on, and a user asks again. *)

FairSpec == Spec /\ \A p \in Procs : WF_vars(Step(p)) /\ WF_vars(Start(p))

\* Whatever an earlier run left behind and whatever fails, repeated downloads
\* put a file at the destination.
Fetched == <>(dest # NoFile)
=============================================================================
