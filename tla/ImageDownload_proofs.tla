------------------------- MODULE ImageDownload_proofs -------------------------
(***************************************************************************)
(* What a download is sure of, proved for every length, every sequence of    *)
(* versions, every mix of replies, and any number of failures.              *)
(***************************************************************************)
EXTENDS ImageDownload, TLAPS

-----------------------------------------------------------------------------
(* Types *)

LEMMA FirstVersion == 1 \in Versions /\ Length[1] \in Nat \ {0}
BY DownloadAssumption DEF Versions

LEMMA FaultCount ==
  ASSUME faults \in 0..MaxFaults, Fine \/ Fault
  PROVE  faults' \in 0..MaxFaults
BY DownloadAssumption DEF Fine, Fault

\* What one process keeps to itself.
Locals ==
  /\ pc \in [Procs -> {"idle", "ask", "reply", "write", "check", "replace"}]
  /\ attempt \in [Procs -> 1.._MAX_ATTEMPTS]
  /\ result \in [Procs -> {"none", "ok", "incomplete", "error"}]
  /\ range \in [Procs -> Nat]
  /\ reply \in [Procs -> Replies]
  /\ sent \in [Procs -> Nat]
  /\ handle \in [Procs -> Files \cup {NoFile}]

Shared ==
  /\ upstream \in Versions
  /\ content \in [Files -> Seq(Blocks \cup {Hole})]
  /\ partial \in Files \cup {NoFile}
  /\ dest \in Files \cup {NoFile}
  /\ faults \in 0..MaxFaults
  /\ steady \in BOOLEAN

LEMMA TypeParts == TypeOK <=> Locals /\ Shared
BY DEF TypeOK, Locals, Shared

LEMMA TypePartsNext == TypeOK' <=> Locals' /\ Shared'
BY DEF TypeOK, Locals, Shared

LEMMA EndLocals ==
  ASSUME NEW p \in Procs, Locals, NEW r \in {"ok", "incomplete", "error"},
         Finish(p, r) \/ Retry(p, r)
  PROVE  /\ Locals'
         /\ pc'[p] \in {"idle", "ask"} /\ sent'[p] = 0 /\ handle'[p] = NoFile
<1>1. CASE Finish(p, r)
  BY <1>1 DEF Finish, Goto, Locals, _MAX_ATTEMPTS
<1>2. CASE /\ attempt[p] < _MAX_ATTEMPTS
           /\ Goto(p, "ask")
           /\ attempt' = [attempt EXCEPT ![p] = attempt[p] + 1]
           /\ range' = [range EXCEPT ![p] = 0]
           /\ sent' = [sent EXCEPT ![p] = 0]
           /\ handle' = [handle EXCEPT ![p] = NoFile]
           /\ UNCHANGED <<result, reply>>
  BY <1>2 DEF Goto, Locals, _MAX_ATTEMPTS
<1> QED
  BY <1>1, <1>2 DEF Retry

LEMMA InitType == Init => TypeOK
<1> SUFFICES ASSUME Init PROVE TypeOK
  OBVIOUS
<1>1. Locals
  BY FirstVersion DEF Init, Locals, Replies, _MAX_ATTEMPTS
<1>2. /\ upstream \in Versions /\ partial \in Files \cup {NoFile}
      /\ dest \in Files \cup {NoFile} /\ faults \in 0..MaxFaults /\ steady \in BOOLEAN
  BY DownloadAssumption DEF Init
<1>3. content \in [Files -> Seq(Blocks \cup {Hole})]
  <2>1. CASE content = [f \in Files |-> <<>>]
    BY <2>1
  <2>2. ASSUME NEW f \in Files, NEW n \in 0..Length[1],
               content = [g \in Files |->
                            IF g = f THEN SubSeq(Whole(1), 1, n) ELSE <<>>]
        PROVE  content \in [Files -> Seq(Blocks \cup {Hole})]
    <3>1. Whole(1) \in Seq(Blocks \cup {Hole}) /\ Len(Whole(1)) = Length[1]
      BY FirstVersion DEF Whole, Blocks
    <3>2. SubSeq(Whole(1), 1, n) \in Seq(Blocks \cup {Hole})
      BY <3>1
    <3> QED
      BY <2>2, <3>2
  <2> QED
    BY <2>1, <2>2 DEF Init
<1> QED
  BY <1>1, <1>2, <1>3, TypeParts DEF Shared

\* Opening the partial file leaves every file a sequence of blocks.
LEMMA OpenType ==
  ASSUME NEW p \in Procs, NEW append \in BOOLEAN, Locals, Shared, Open(p, append)
  PROVE  /\ handle' \in [Procs -> Files \cup {NoFile}]
         /\ partial' \in Files \cup {NoFile}
         /\ content' \in [Files -> Seq(Blocks \cup {Hole})]
<1>1. <<>> \in Seq(Blocks \cup {Hole})
  OBVIOUS
<1>2. /\ handle \in [Procs -> Files \cup {NoFile}]
      /\ partial \in Files \cup {NoFile}
      /\ content \in [Files -> Seq(Blocks \cup {Hole})]
  BY DEF Locals, Shared
<1>3. CASE /\ partial # NoFile
           /\ handle' = [handle EXCEPT ![p] = partial]
           /\ content' = IF append THEN content ELSE [content EXCEPT ![partial] = <<>>]
           /\ UNCHANGED partial
  BY <1>1, <1>2, <1>3
<1>4. ASSUME NEW f \in Files, partial' = f, handle' = [handle EXCEPT ![p] = f],
             content' = [content EXCEPT ![f] = <<>>]
      PROVE  /\ handle' \in [Procs -> Files \cup {NoFile}]
             /\ partial' \in Files \cup {NoFile}
             /\ content' \in [Files -> Seq(Blocks \cup {Hole})]
  BY <1>1, <1>2, <1>4
<1> QED
  BY <1>3, <1>4 DEF Open

LEMMA BodyType ==
  ASSUME NEW p \in Procs, Locals, Shared, Body(p)
  PROVE  Locals' /\ Shared'
<1>1. PICK honoured \in BOOLEAN, encoded \in Encodings, framing \in Framings :
        /\ reply' = [reply EXCEPT ![p] =
             [version |-> upstream, from |-> IF honoured THEN range[p] ELSE 0,
              framing |-> framing,
              total |-> IF framing = "sized" /\ ~encoded THEN Length[upstream]
                                                         ELSE 0]]
        /\ range' = [range EXCEPT ![p] = IF honoured THEN @ ELSE 0]
        /\ Open(p, honoured)
  BY DEF Body, Appends
<1>2. range[p] \in Nat /\ Length[upstream] \in Nat /\ upstream \in Versions
  BY DownloadAssumption DEF Locals, Shared
<1>3. reply' \in [Procs -> Replies] /\ range' \in [Procs -> Nat]
  BY <1>1, <1>2, DownloadAssumption DEF Locals, Replies
<1>4. Locals'
  BY <1>1, <1>3, OpenType DEF Body, Goto, Locals
<1> QED
  BY <1>1, <1>4, OpenType DEF Body, Shared, mirror

\* A block written anywhere leaves a sequence of blocks.
LEMMA WriteType ==
  ASSUME NEW p \in Procs, Locals, Shared, Write(p)
  PROVE  Locals' /\ Shared'
<1> DEFINE f == handle[p]
           c == content[f]
           i == IF range[p] > 0 THEN Len(c) + 1 ELSE sent[p] + 1
           b == <<reply[p].version, reply[p].from + sent[p] + 1>>
<1>1. /\ range[p] \in Nat /\ sent[p] \in Nat /\ reply[p] \in Replies
      /\ content' = [content EXCEPT ![f] = WriteAt(c, i, b)]
  BY DEF Locals, Write
<1>2. content' \in [Files -> Seq(Blocks \cup {Hole})]
  <2>1. CASE f \notin Files
    BY <1>1, <2>1 DEF Shared
  <2>2. CASE f \in Files
    <3>1. c \in Seq(Blocks \cup {Hole}) /\ Len(c) \in Nat
      BY <2>2 DEF Shared
    <3>2. i \in Nat \ {0}
      BY <1>1, <3>1
    <3>3. b \in Blocks \cup {Hole} /\ Hole \in Blocks \cup {Hole}
      BY <1>1 DEF Blocks, Replies
    <3> HIDE DEF i, b, c
    <3>4. WriteAt(c, i, b) \in Seq(Blocks \cup {Hole})
      <4> DEFINE n == IF i > Len(c) THEN i ELSE Len(c)
      <4>1. n \in Nat
        BY <3>1, <3>2
      <4>2. \A j \in 1..n : (IF j = i THEN b ELSE IF j <= Len(c) THEN c[j] ELSE Hole)
                              \in Blocks \cup {Hole}
        BY <3>1, <3>2, <3>3
      <4>3. WriteAt(c, i, b) =
              [j \in 1..n |-> IF j = i THEN b ELSE IF j <= Len(c) THEN c[j] ELSE Hole]
        BY DEF WriteAt
      <4> HIDE DEF n
      <4> QED
        BY <4>1, <4>2, <4>3
    <3> QED
      BY <1>1, <2>2, <3>4 DEF Shared
  <2> QED
    BY <2>1, <2>2
<1>3. sent' \in [Procs -> Nat]
  BY <1>1 DEF Write, Locals
<1> QED
  BY <1>2, <1>3 DEF Write, Locals, Shared, mirror, names

LEMMA TypeStep == TypeOK /\ [Next]_vars => TypeOK'
<1> SUFFICES ASSUME TypeOK, [Next]_vars PROVE TypeOK'
  OBVIOUS
<1>1. Locals /\ Shared
  BY TypeParts
<1>2. ASSUME NEW p \in Procs,
             \/ StaleRange(p) \/ EncodedRange(p) \/ HttpError(p) \/ Refused(p)
             \/ Dropped(p) \/ Kill(p)
      PROVE  TypeOK'
  <2>1. Locals'
    <3>1. \/ Finish(p, "error") \/ Retry(p, "error") \/ Retry(p, "incomplete")
      BY <1>2 DEF StaleRange, EncodedRange, HttpError, Refused, Dropped, Kill
    <3> QED
      BY <1>1, <3>1, EndLocals
  <2>2. Shared'
    BY <1>1, <1>2, FaultCount
    DEF StaleRange, EncodedRange, HttpError, Refused, Dropped, Kill, Discard,
        Shared, mirror, names
  <2> QED
    BY <2>1, <2>2, TypePartsNext
<1>3. ASSUME NEW p \in Procs, Start(p) \/ Ask(p)
      PROVE  TypeOK'
  <2>1. Size(partial) \in Nat
    BY <1>1 DEF Shared, Size
  <2>2. Locals'
    BY <1>1, <1>3, <2>1 DEF Start, Ask, Goto, Locals
  <2>3. Shared'
    BY <1>1, <1>3 DEF Start, Ask, Shared, mirror, names
  <2> QED
    BY <2>2, <2>3, TypePartsNext
<1>4. ASSUME NEW p \in Procs, EndOfBody(p)
      PROVE  TypeOK'
  <2>1. Locals'
    BY <1>1, <1>4 DEF EndOfBody, Goto, Locals
  <2>2. Shared'
    BY <1>1, <1>4, FaultCount DEF EndOfBody, Shared, names
  <2> QED
    BY <2>1, <2>2, TypePartsNext
<1>5. ASSUME NEW p \in Procs, Check(p)
      PROVE  TypeOK'
  <2>1. Locals'
    <3>1. CASE /\ Goto(p, "replace")
               /\ UNCHANGED <<attempt, result, range, reply, sent, handle>>
      BY <1>1, <3>1 DEF Goto, Locals
    <3>2. CASE Retry(p, "incomplete") \/ Finish(p, "error")
      BY <1>1, <3>2, EndLocals
    <3> QED
      BY <1>5, <3>1, <3>2 DEF Check
  <2>2. Shared'
    BY <1>1, <1>5 DEF Check, Shared, mirror, names
  <2> QED
    BY <2>1, <2>2, TypePartsNext
<1>6. ASSUME NEW p \in Procs, Replace(p)
      PROVE  TypeOK'
  <2>1. Locals'
    BY <1>1, <1>6, EndLocals DEF Replace
  <2>2. Shared'
    BY <1>1, <1>6 DEF Replace, Shared, mirror, names
  <2> QED
    BY <2>1, <2>2, TypePartsNext
<1>7. CASE Publish
  <2>1. Locals'
    BY <1>1, <1>7 DEF Publish, Locals
  <2>2. Shared'
    <3>1. upstream' \in Versions
      BY <1>1, <1>7, DownloadAssumption DEF Publish, Shared, Versions
    <3> QED
      BY <1>1, <1>7, <3>1 DEF Publish, Shared, names
  <2> QED
    BY <2>1, <2>2, TypePartsNext
<1>8. CASE Clean
  <2>1. Locals'
    BY <1>1, <1>8 DEF Clean, Locals
  <2>2. Shared'
    BY <1>1, <1>8, FaultCount DEF Clean, Shared
  <2> QED
    BY <2>1, <2>2, TypePartsNext
<1>9. CASE UNCHANGED vars
  BY <1>9 DEF vars, TypeOK
<1> QED
  BY <1>1, <1>2, <1>3, <1>4, <1>5, <1>6, <1>7, <1>8, <1>9, BodyType, WriteType,
     TypePartsNext
  DEF Next, Step

-----------------------------------------------------------------------------
(* A lone download *)

\* While nothing goes on under its one downloader, the cache is good.
Good(me) ==
  /\ Procs = {me}
  /\ TypeOK
  /\ CacheInv
  /\ ControlInv(me)

\* A process that gives up, or tries again, relies on nothing.
LEMMA EndInv ==
  ASSUME NEW me, Good(me), NEW r \in {"ok", "incomplete", "error"},
         Finish(me, r) \/ Retry(me, r)
  PROVE  ControlInv(me)'
<1>1. pc'[me] \in {"idle", "ask"} /\ sent'[me] = 0 /\ handle'[me] = NoFile
  BY EndLocals, TypeParts DEF Good
<1> QED
  BY <1>1 DEF ControlInv

\* The cache after a step that at most loses the partial file.
LEMMA CacheStays ==
  ASSUME CacheInv, UNCHANGED <<upstream, content, dest>>, partial' \in {partial, NoFile}
  PROVE  CacheInv'
BY DEF CacheInv, IsPart

LEMMA InitInv ==
  ASSUME NEW me, Procs = {me}, Init
  PROVE  DownloadInv
<1> SUFFICES ASSUME steady PROVE CacheInv /\ ControlInv(me)
  BY InitType DEF DownloadInv
<1>1. ControlInv(me)
  BY DEF Init, ControlInv
<1>2. CacheInv
  <2>1. dest = NoFile /\ upstream = 1
    BY DEF Init
  <2>2. CASE partial = NoFile
    BY <2>1, <2>2 DEF CacheInv
  <2>3. ASSUME NEW f \in Files, NEW n \in 0..Length[1], partial = f,
               content = [g \in Files |->
                            IF g = f THEN SubSeq(Whole(1), 1, n) ELSE <<>>]
        PROVE  CacheInv
    <3> DEFINE c == SubSeq(Whole(1), 1, n)
    <3>1. Whole(1) \in Seq(Blocks \cup {Hole}) /\ Len(Whole(1)) = Length[1]
      BY FirstVersion DEF Whole, Blocks
    <3>2. c \in Seq(Blocks \cup {Hole}) /\ Len(c) = n
      BY <3>1
    <3>3. \A i \in 1..n : c[i] = <<1, i>>
      BY <3>1, FirstVersion DEF Whole
    <3> HIDE DEF c
    <3>4. content[f] = c
      BY <2>3 DEF c
    <3> QED
      BY <2>1, <2>3, <3>2, <3>3, <3>4, DownloadAssumption DEF CacheInv, IsPart
  <2> QED
    BY <2>1, <2>2, <2>3 DEF Init
<1> QED
  BY <1>1, <1>2

LEMMA BodyInv ==
  ASSUME NEW me, Good(me), Body(me), TypeOK'
  PROVE  CacheInv' /\ ControlInv(me)'
<1>1. /\ CacheInv /\ Locals /\ Shared /\ ControlInv(me) /\ Procs = {me}
      /\ upstream = 1
  BY TypeParts DEF Good, CacheInv
<1>2. sent[me] = 0 /\ range[me] = Size(partial) /\ range[me] \in Nat
  BY <1>1 DEF Body, At, ControlInv, Locals
<1>3. PICK honoured \in BOOLEAN, encoded \in Encodings, framing \in Framings :
        /\ honoured => range[me] > 0 /\ range[me] < Length[upstream]
        /\ reply' = [reply EXCEPT ![me] =
             [version |-> upstream, from |-> IF honoured THEN range[me] ELSE 0,
              framing |-> framing,
              total |-> IF framing = "sized" /\ ~encoded THEN Length[upstream]
                                                         ELSE 0]]
        /\ range' = [range EXCEPT ![me] = IF honoured THEN @ ELSE 0]
        /\ Open(me, honoured)
  BY DEF Body, Appends
<1>4. /\ pc'[me] = "write" /\ sent' = sent
      /\ reply'[me].from = range'[me] /\ reply'[me].version = 1
      /\ reply'[me].total \in {0, Length[1]}
      /\ range'[me] = IF honoured THEN range[me] ELSE 0
  BY <1>1, <1>3 DEF Body, Goto, Locals
<1>5. /\ partial' \in Files /\ partial' # dest /\ handle'[me] = partial'
      /\ \A f \in Files : f # partial' => content'[f] = content[f]
      /\ IsPart(content'[partial'], 1)
      /\ Len(content'[partial']) = range'[me]
  <2>1. CASE honoured
    <3>1. partial # NoFile /\ range[me] = Len(content[partial])
      BY <1>2, <1>3, <2>1 DEF Size
    <3> QED
      BY <1>1, <1>3, <1>4, <2>1, <3>1 DEF Open, CacheInv, Locals, Shared
  <2>2. CASE ~honoured
    <3>1. IsPart(<<>>, 1) /\ Len(<<>>) = 0
      BY FirstVersion DEF IsPart
    <3>2. /\ partial' \in Files /\ partial' # dest /\ handle'[me] = partial'
          /\ content' = [content EXCEPT ![partial'] = <<>>]
      BY <1>1, <1>3, <2>2, DownloadAssumption DEF Open, CacheInv, Locals, Shared
    <3> QED
      BY <1>1, <1>4, <2>2, <3>1, <3>2 DEF Shared
  <2> QED
    BY <2>1, <2>2
<1>6. CacheInv'
  BY <1>1, <1>5 DEF Body, CacheInv, Shared, mirror
<1>7. ControlInv(me)'
  <2>1. Len(content'[partial']) = reply'[me].from + sent'[me]
    BY <1>2, <1>4, <1>5, <1>1 DEF Locals
  <2> QED
    BY <1>4, <1>5, <2>1, DownloadAssumption DEF ControlInv
<1> QED
  BY <1>6, <1>7

\* Writing the next block of a prefix gives a longer prefix.
LEMMA NextBlock ==
  ASSUME NEW c \in Seq(Blocks \cup {Hole}), IsPart(c, 1),
         Len(c) < Length[1]
  PROVE  LET d == WriteAt(c, Len(c) + 1, <<1, Len(c) + 1>>)
         IN  /\ d \in Seq(Blocks \cup {Hole})
             /\ Len(d) = Len(c) + 1
             /\ IsPart(d, 1)
<1> DEFINE n == Len(c)
           d == WriteAt(c, n + 1, <<1, n + 1>>)
<1>1. n \in Nat /\ Length[1] \in Nat /\ \A j \in 1..n : c[j] = <<1, j>>
  BY FirstVersion DEF IsPart
<1>2. d = [j \in 1..(n + 1) |-> <<1, j>>]
  BY <1>1 DEF WriteAt
<1>3. d \in Seq(Blocks \cup {Hole}) /\ Len(d) = n + 1
  <2>1. \A j \in 1..(n + 1) : <<1, j>> \in Blocks \cup {Hole}
    BY <1>1, FirstVersion DEF Blocks
  <2> HIDE DEF d, n
  <2> QED
    BY <1>1, <1>2, <2>1
<1>4. IsPart(d, 1)
  <2> HIDE DEF d
  <2> QED
    BY <1>1, <1>2, <1>3 DEF IsPart
<1> QED
  BY <1>3, <1>4

LEMMA WriteInv ==
  ASSUME NEW me, Good(me), Write(me), TypeOK'
  PROVE  CacheInv' /\ ControlInv(me)'
<1>1. /\ CacheInv /\ Locals /\ Shared /\ ControlInv(me) /\ Procs = {me}
      /\ reply[me] \in Replies /\ sent[me] \in Nat /\ range[me] \in Nat
  BY TypeParts DEF Good, Locals
<1> DEFINE c == content[partial]
           n == Len(c)
<1>2. /\ handle[me] = partial /\ partial \in Files
      /\ n = reply[me].from + sent[me] /\ range[me] = reply[me].from
      /\ reply[me].version = 1
      /\ c \in Seq(Blocks \cup {Hole}) /\ IsPart(c, 1)
      /\ partial # dest
      /\ reply[me].total \in {0, Length[1]}
  BY <1>1 DEF Write, At, ControlInv, CacheInv, Shared
<1>3. reply[me].from \in Nat /\ n \in Nat /\ n < Length[1]
  BY <1>1, <1>2, FirstVersion DEF Write, Remaining, Replies
<1>4. content' = [content EXCEPT ![partial] = WriteAt(c, n + 1, <<1, n + 1>>)]
  <2>1. n + 1 = (IF range[me] > 0 THEN n + 1 ELSE sent[me] + 1)
    BY <1>1, <1>2, <1>3
  <2>2. n + 1 = reply[me].from + sent[me] + 1
    BY <1>1, <1>2, <1>3
  <2> QED
    BY <1>2, <2>1, <2>2 DEF Write
<1> DEFINE d == WriteAt(c, n + 1, <<1, n + 1>>)
<1>5. Len(d) = n + 1 /\ IsPart(d, 1)
  BY <1>2, <1>3, NextBlock
<1>6. /\ partial' = partial /\ dest' = dest /\ sent'[me] = sent[me] + 1
      /\ pc' = pc /\ range' = range /\ reply' = reply /\ handle' = handle
      /\ upstream' = upstream /\ pc[me] = "write"
  BY <1>1 DEF Write, names, mirror, Locals, At
<1> HIDE DEF d
<1>7. /\ content'[partial] = d
      /\ \A f \in Files : f # partial => content'[f] = content[f]
  BY <1>1, <1>2, <1>4 DEF Shared, d
<1>8. CacheInv'
  BY <1>1, <1>2, <1>5, <1>6, <1>7 DEF CacheInv, Shared
<1>9. ControlInv(me)'
  <2>1. Len(content'[partial']) = reply'[me].from + sent'[me]
    BY <1>1, <1>2, <1>3, <1>5, <1>6, <1>7
  <2> QED
    BY <1>2, <1>6, <2>1, DownloadAssumption DEF ControlInv
<1> QED
  BY <1>8, <1>9

LEMMA EndOfBodyInv ==
  ASSUME NEW me, Good(me), EndOfBody(me), steady', TypeOK'
  PROVE  CacheInv' /\ ControlInv(me)'
<1>1. /\ CacheInv /\ Locals /\ ControlInv(me) /\ Procs = {me}
      /\ reply[me] \in Replies /\ sent[me] \in Nat
  BY TypeParts DEF Good, Locals
<1>2. /\ partial # NoFile
      /\ Len(content[partial]) = reply[me].from + sent[me]
      /\ Remaining(me) = 0 /\ reply[me].version = 1
      /\ reply[me].total \in {0, Length[1]}
  BY <1>1 DEF EndOfBody, At, ControlInv
<1>3. Len(content[partial]) = Length[1]
  BY <1>1, <1>2, FirstVersion DEF Remaining, Replies
<1>4. CacheInv'
  BY <1>1, CacheStays DEF EndOfBody, names
<1>5. pc'[me] = "check" /\ handle'[me] = NoFile
  BY <1>1 DEF EndOfBody, Goto, Locals
<1>6. ControlInv(me)'
  BY <1>2, <1>3, <1>5 DEF EndOfBody, ControlInv, names
<1> QED
  BY <1>4, <1>6

LEMMA ReplaceInv ==
  ASSUME NEW me, Good(me), Replace(me), TypeOK'
  PROVE  CacheInv' /\ ControlInv(me)'
<1>1. CacheInv /\ Shared /\ ControlInv(me)
  BY TypeParts DEF Good
<1>2. /\ partial # NoFile /\ IsPart(content[partial], 1)
      /\ Len(content[partial]) = Length[1]
      /\ partial \in Files /\ content[partial] \in Seq(Blocks \cup {Hole})
  BY <1>1 DEF Replace, At, ControlInv, CacheInv, Shared
<1>3. content[partial] = Whole(1)
  <2>1. \A i \in 1..Length[1] : content[partial][i] = <<1, i>>
    BY <1>2 DEF IsPart
  <2> DEFINE c == content[partial]
  <2>2. c \in [1..Length[1] -> Blocks \cup {Hole}]
    BY <1>2
  <2>3. c = [i \in 1..Length[1] |-> c[i]]
    BY <2>2
  <2> QED
    BY <2>1, <2>3 DEF Whole
<1>4. dest' = partial /\ partial' = NoFile /\ Finish(me, "ok")
  BY <1>2 DEF Replace
<1>5. CacheInv'
  BY <1>1, <1>2, <1>3, <1>4 DEF Replace, CacheInv, mirror
<1> QED
  BY <1>4, <1>5, EndInv

LEMMA QuietInv ==
  ASSUME NEW me, Good(me), TypeOK',
         \/ Start(me) \/ Ask(me) \/ StaleRange(me) \/ EncodedRange(me)
         \/ HttpError(me) \/ Refused(me) \/ Dropped(me) \/ Check(me) \/ Kill(me)
  PROVE  CacheInv' /\ ControlInv(me)'
<1>1. CacheInv /\ Locals /\ ControlInv(me) /\ Procs = {me}
  BY TypeParts DEF Good
<1>2. CacheInv'
  <2>1. UNCHANGED <<upstream, content, dest>> /\ partial' \in {partial, NoFile}
    BY DEF Start, Ask, StaleRange, EncodedRange, HttpError, Refused, Dropped, Check,
           Kill, Discard, names, mirror
  <2> QED
    BY <1>1, <2>1, CacheStays
<1>3. CASE Start(me)
  <2>1. pc'[me] = "ask" /\ sent' = sent /\ handle' = handle
    BY <1>1, <1>3 DEF Start, Goto, Locals
  <2>2. ControlInv(me)'
    BY <1>1, <1>3, <2>1 DEF Start, At, ControlInv
  <2> QED
    BY <1>2, <2>2
<1>4. CASE Ask(me)
  <2>1. /\ pc'[me] = "reply" /\ sent' = sent /\ handle' = handle
        /\ range'[me] = Size(partial)
    BY <1>1, <1>4 DEF Ask, Goto, Locals
  <2>2. ControlInv(me)'
    BY <1>1, <1>4, <2>1 DEF Ask, At, ControlInv, Size, names
  <2> QED
    BY <1>2, <2>2
<1>5. CASE \/ StaleRange(me) \/ EncodedRange(me) \/ HttpError(me) \/ Refused(me)
           \/ Dropped(me) \/ Kill(me)
  <2>1. \/ Finish(me, "error") \/ Retry(me, "error") \/ Retry(me, "incomplete")
    BY <1>5 DEF StaleRange, EncodedRange, HttpError, Refused, Dropped, Kill
  <2> QED
    BY <1>2, <2>1, EndInv
<1>6. CASE Check(me)
  <2>1. CASE Finish(me, "error") \/ Retry(me, "incomplete")
    BY <1>2, <2>1, EndInv
  <2>2. CASE /\ Goto(me, "replace")
             /\ UNCHANGED <<attempt, result, range, reply, sent, handle>>
    <3>1. pc'[me] = "replace"
      BY <1>1, <2>2 DEF Goto, Locals
    <3>2. ControlInv(me)'
      BY <1>1, <1>6, <2>2, <3>1 DEF Check, At, ControlInv, names
    <3> QED
      BY <1>2, <3>2
  <2> QED
    BY <1>6, <2>1, <2>2 DEF Check
<1> QED
  BY <1>3, <1>4, <1>5, <1>6

LEMMA StepInv ==
  ASSUME NEW me, Procs = {me}, DownloadInv, [Next]_vars
  PROVE  DownloadInv'
<1>1. TypeOK /\ TypeOK'
  BY TypeStep DEF DownloadInv
<1> SUFFICES ASSUME steady' PROVE CacheInv' /\ ControlInv(me)'
  BY <1>1 DEF DownloadInv
<1>2. CASE Publish \/ Clean
  BY <1>2 DEF Publish, Clean
<1>3. CASE UNCHANGED vars
  BY <1>3 DEF vars, DownloadInv, CacheInv, ControlInv, IsPart, Size
<1>4. CASE \E p \in Procs : Start(p) \/ Step(p) \/ Kill(p)
  <2>1. Start(me) \/ Step(me) \/ Kill(me)
    BY <1>4
  <2>2. steady
    BY <2>1
    DEF Start, Kill, Step, Ask, StaleRange, EncodedRange, HttpError, Refused, Dropped,
        Body, Write, EndOfBody, Check, Replace, mirror
  <2>3. Good(me)
    BY <1>1, <2>2 DEF Good, DownloadInv
  <2> QED
    BY <1>1, <2>1, <2>3, BodyInv, WriteInv, EndOfBodyInv, ReplaceInv, QuietInv DEF Step
<1> QED
  BY <1>2, <1>3, <1>4 DEF Next

\* However many download at once and whatever is published, answered, cleaned
\* or killed, the state stays well-formed.
THEOREM TypeCorrect == Spec => []TypeOK
BY InitType, TypeStep, PTL DEF Spec

\* Whatever connections drop, whatever is answered and wherever it is killed
\* and run again, a lone download leaves nothing but a whole file at its
\* destination, until the resource or the partial file changes under it or a
\* body is cut short in silence (CloudImage._download_file).
THEOREM LoneDownload ==
  ASSUME NEW me, Procs = {me}
  PROVE  Spec => []DownloadInv
<1>1. Init => DownloadInv
  BY InitInv
<1>2. DownloadInv /\ [Next]_vars => DownloadInv'
  BY StepInv
<1> QED
  BY <1>1, <1>2, PTL DEF Spec


-----------------------------------------------------------------------------
(* The promise to the cache *)

\* Whatever is on disk or on its way was published, by any number of downloads.
FromMirror ==
  /\ \A f \in Files : \A i \in 1..Len(content[f]) : content[f][i][1] <= upstream
  /\ \A p \in Procs : reply[p].version <= upstream

\* While the one downloader is busy there is no file at the destination.
Vacant(p) == pc[p] # "idle" => dest = NoFile

LonelyInv(me) == DownloadInv /\ FromMirror /\ Vacant(me)

LEMMA InitFromMirror == Init => FromMirror
<1> SUFFICES ASSUME Init PROVE FromMirror
  OBVIOUS
<1>1. upstream \in Nat /\ 1 <= upstream
  BY DEF Init, Versions
<1>2. \A p \in Procs : reply[p].version = 1
  BY DEF Init
<1>3. ASSUME NEW f \in Files, NEW i \in 1..Len(content[f])
      PROVE  content[f][i][1] <= upstream
  <2>1. CASE content[f] = <<>>
    BY <2>1, <1>3
  <2>2. ASSUME NEW n \in 0..Length[1], content[f] = SubSeq(Whole(1), 1, n)
        PROVE  content[f][i][1] <= upstream
    <3>1. Whole(1) \in Seq(Blocks) /\ Len(Whole(1)) = Length[1]
      BY FirstVersion DEF Whole, Blocks
    <3>2. Len(content[f]) = n
      BY <2>2, <3>1, FirstVersion
    <3>3. content[f][i] = Whole(1)[i] /\ i \in 1..Length[1]
      BY <1>3, <2>2, <3>1, <3>2, FirstVersion
    <3>4. content[f][i] = <<1, i>>
      BY <3>3 DEF Whole
    <3> QED
      BY <3>4, <1>1
  <2> QED
    BY <2>1, <2>2 DEF Init
<1> QED
  BY <1>1, <1>2, <1>3 DEF FromMirror

\* What a step writes is a block of the reply, or a hole.
LEMMA FromMirrorStep == TypeOK /\ FromMirror /\ [Next]_vars => FromMirror'
<1> SUFFICES ASSUME TypeOK, FromMirror, [Next]_vars PROVE FromMirror'
  OBVIOUS
<1>1. Locals /\ Shared /\ TypeOK' /\ upstream \in Nat /\ upstream' \in Nat
  BY TypeParts, TypeStep DEF TypeOK, Versions
<1>2. upstream <= upstream' /\ \A n \in Nat : n <= upstream => n <= upstream'
  <2>1. upstream' = upstream \/ upstream' = upstream + 1
    BY DEF Next, Publish, Clean, Start, Step, Ask, StaleRange, EncodedRange, HttpError,
           Refused, Dropped, Body, Write, EndOfBody, Check, Replace, Kill, mirror, vars
  <2> QED
    BY <1>1, <2>1
<1>3. \A f \in Files : \A i \in 1..Len(content[f]) : content[f][i][1] \in Nat
  <2>1. \A f \in Files : \A i \in 1..Len(content[f]) : content[f][i] \in Blocks \cup {Hole}
    BY <1>1 DEF Shared
  <2> QED
    BY <2>1 DEF Blocks, Hole, Versions
<1>4. \A p \in Procs : reply[p].version \in Nat
  BY <1>1 DEF Locals, Replies, Versions
<1>5. CASE UNCHANGED <<content, reply>>
  BY <1>2, <1>3, <1>4, <1>5 DEF FromMirror
<1>6. ASSUME NEW p \in Procs, Body(p)
      PROVE  FromMirror'
  <2>1. \A q \in Procs : reply'[q].version \in {reply[q].version, upstream}
    BY <1>1, <1>6 DEF Body, Locals
  <2>2. \A f \in Files : content'[f] \in {content[f], <<>>}
    BY <1>1, <1>6 DEF Body, Open, Shared
  <2> QED
    BY <1>1, <1>2, <1>3, <1>4, <2>1, <2>2 DEF FromMirror
<1>7. ASSUME NEW p \in Procs, Write(p)
      PROVE  FromMirror'
  <2> DEFINE c == content[handle[p]]
             k == IF range[p] > 0 THEN Len(c) + 1 ELSE sent[p] + 1
             b == <<reply[p].version, reply[p].from + sent[p] + 1>>
  <2>1. content' = [content EXCEPT ![handle[p]] = WriteAt(c, k, b)] /\ UNCHANGED reply
    BY <1>7 DEF Write
  <2>2. ASSUME NEW f \in Files, NEW i \in 1..Len(content'[f])
        PROVE  content'[f][i][1] <= upstream'
    <3>1. CASE f # handle[p]
      BY <1>1, <1>2, <1>3, <2>1, <2>2, <3>1 DEF FromMirror, Shared
    <3>2. CASE f = handle[p]
      <4>1. c \in Seq(Blocks \cup {Hole}) /\ Len(c) \in Nat /\ k \in Nat
        BY <1>1, <3>2 DEF Shared, Locals
      <4>2. content'[f] = WriteAt(c, k, b)
        BY <1>1, <2>1, <3>2 DEF Shared
      <4> DEFINE n == IF k > Len(c) THEN k ELSE Len(c)
      <4>3. n \in Nat
        BY <4>1
      <4>4. WriteAt(c, k, b) =
              [j \in 1..n |-> IF j = k THEN b ELSE IF j <= Len(c) THEN c[j] ELSE Hole]
        BY DEF WriteAt
      <4> HIDE DEF n, k, b
      <4>5. i \in 1..n
        <5>1. DOMAIN WriteAt(c, k, b) = 1..n
          BY <4>4
        <5>2. Len(WriteAt(c, k, b)) = n
          BY <4>3, <4>4
        <5> QED
          BY <2>2, <4>2, <5>2
      <4>6. content'[f][i] = IF i = k THEN b ELSE IF i <= Len(c) THEN c[i] ELSE Hole
        BY <4>2, <4>4, <4>5
      <4>7. b[1] = reply[p].version /\ Hole[1] = 0
        BY DEF b, Hole
      <4>8. i <= Len(c) => c[i][1] <= upstream /\ c[i][1] \in Nat
        BY <1>3, <3>2, <4>1, <4>3, <4>5 DEF FromMirror
      <4> QED
        BY <1>1, <1>2, <1>4, <4>6, <4>7, <4>8 DEF FromMirror
    <3> QED
      BY <3>1, <3>2
  <2>3. \A q \in Procs : reply'[q].version <= upstream'
    BY <1>2, <1>4, <2>1 DEF FromMirror
  <2> QED
    BY <2>2, <2>3 DEF FromMirror
<1> QED
  BY <1>5, <1>6, <1>7
  DEF Next, Publish, Clean, Start, Step, Ask, StaleRange, EncodedRange, HttpError,
      Refused, Dropped, EndOfBody, Check, Replace, Kill, Retry, Finish, vars

\* The only file a lone download puts at the destination, and only once.
LEMMA LonelySteps ==
  ASSUME NEW me, Procs = {me}, TypeOK, Vacant(me), [Next]_vars
  PROVE  \/ Publish
         \/ /\ UNCHANGED <<upstream, dest>>
            /\ dest # NoFile => UNCHANGED content
            /\ steady' = steady \/ steady' = FALSE
         \/ Replace(me) /\ dest = NoFile /\ UNCHANGED <<content, mirror>>
<1>1. CASE Clean \/ Start(me) \/ UNCHANGED vars
  BY <1>1 DEF Clean, Start, mirror, names, vars
<1>2. CASE Replace(me)
  BY <1>2 DEF Replace, At, Vacant
<1>3. ASSUME \/ Ask(me) \/ StaleRange(me) \/ EncodedRange(me) \/ HttpError(me)
             \/ Refused(me) \/ Dropped(me) \/ Body(me) \/ Write(me) \/ EndOfBody(me)
             \/ Check(me) \/ Kill(me)
      PROVE  pc[me] # "idle" /\ UNCHANGED <<upstream, dest>> /\ steady' \in {steady, FALSE}
  BY <1>3 DEF Ask, StaleRange, EncodedRange, HttpError, Refused, Dropped, Body, Write,
              EndOfBody, Check, Kill, At, mirror, names
<1> QED
  BY <1>1, <1>2, <1>3 DEF Next, Step, Vacant

LEMMA VacantStep ==
  ASSUME NEW me, Procs = {me}, TypeOK, Vacant(me), [Next]_vars
  PROVE  Vacant(me)'
<1>1. CASE Replace(me)
  BY <1>1 DEF Replace, Finish, Goto, Vacant, TypeOK
<1>2. CASE Start(me)
  BY <1>2 DEF Start, Vacant, names
<1>3. CASE UNCHANGED <<pc, dest>>
  BY <1>3 DEF Vacant
<1>4. ASSUME \/ Ask(me) \/ StaleRange(me) \/ EncodedRange(me) \/ HttpError(me)
             \/ Refused(me) \/ Dropped(me) \/ Body(me) \/ Write(me) \/ EndOfBody(me)
             \/ Check(me) \/ Kill(me)
      PROVE  pc[me] # "idle" /\ UNCHANGED dest
  BY <1>4 DEF Ask, StaleRange, EncodedRange, HttpError, Refused, Dropped, Body, Write,
              EndOfBody, Check, Kill, At, names
<1> QED
  BY <1>1, <1>2, <1>3, <1>4 DEF Next, Step, Publish, Clean, Vacant, names, vars


\* A file is a whole copy of one version at most, and of one that was published.
LEMMA VersionOfWhole ==
  ASSUME Shared, FromMirror, NEW f \in Files
  PROVE  /\ VersionOf(f) \in 0..upstream
         /\ content[f] = Whole(1) => VersionOf(f) = 1
<1>1. \A v \in Versions : /\ Whole(v) = [i \in 1..Length[v] |-> <<v, i>>]
                          /\ Length[v] \in Nat \ {0}
                          /\ v \in Nat \ {0}
  BY DownloadAssumption DEF Whole, Versions
<1>2. \A v \in Versions : Len(Whole(v)) = Length[v] /\ Whole(v)[1] = <<v, 1>>
  <2> SUFFICES ASSUME NEW v \in Versions
               PROVE  Len(Whole(v)) = Length[v] /\ Whole(v)[1] = <<v, 1>>
    OBVIOUS
  <2>1. Length[v] \in Nat /\ 1 \in 1..Length[v]
    BY <1>1
  <2> QED
    BY <1>1, <2>1
<1>3. \A v \in Versions : content[f] = Whole(v) => v <= upstream
  <2> SUFFICES ASSUME NEW v \in Versions, content[f] = Whole(v) PROVE v <= upstream
    OBVIOUS
  <2>1. Len(content[f]) = Length[v] /\ content[f][1] = <<v, 1>> /\ Length[v] \in Nat \ {0}
    BY <1>1, <1>2
  <2>2. content[f][1][1] <= upstream
    BY <2>1 DEF FromMirror
  <2> QED
    BY <2>1, <2>2
<1>4. upstream \in Nat /\ 1 \in Versions
  BY FirstVersion DEF Shared, Versions
<1>5. VersionOf(f) \in 0..upstream
  <2>1. CASE \E v \in Versions : content[f] = Whole(v)
    <3>1. VersionOf(f) \in Versions /\ content[f] = Whole(VersionOf(f))
      BY <2>1 DEF VersionOf
    <3> QED
      BY <1>1, <1>3, <1>4, <3>1
  <2>2. CASE ~\E v \in Versions : content[f] = Whole(v)
    BY <1>4, <2>2 DEF VersionOf
  <2> QED
    BY <2>1, <2>2
<1>6. ASSUME content[f] = Whole(1)
      PROVE  VersionOf(f) = 1
  <2>1. VersionOf(f) \in Versions /\ content[f] = Whole(VersionOf(f))
    BY <1>4, <1>6 DEF VersionOf
  <2>2. Whole(1)[1] = <<VersionOf(f), 1>> /\ Whole(1)[1] = <<1, 1>>
    BY <1>2, <1>4, <1>6, <2>1
  <2> QED
    BY <2>2
<1> QED
  BY <1>5, <1>6

\* So is the one at the destination.
WholeAtDest ==
  Shared /\ FromMirror /\ dest \in Files =>
    /\ VersionOf(dest) \in 0..upstream
    /\ content[dest] = Whole(1) => VersionOf(dest) = 1

LEMMA WholeNow == WholeAtDest
BY VersionOfWhole DEF WholeAtDest

LEMMA WholeNext == WholeAtDest'
BY WholeNow, PTL

LEMMA LonelyInit ==
  ASSUME NEW me, Procs = {me}, Init
  PROVE  LonelyInv(me) /\ Promise!Init
<1>1. LonelyInv(me)
  BY InitInv, InitFromMirror DEF Init, LonelyInv, Vacant
<1>2. Promise!Init
  BY DEF Init, Promise!Init, Versions
<1> QED
  BY <1>1, <1>2

LEMMA LonelyPromise ==
  ASSUME NEW me, Procs = {me}, LonelyInv(me), LonelyInv(me)', [Next]_vars
  PROVE  [Promise!Next]_(Promise!promise)
<1> DEFINE entry == IF dest = NoFile THEN NoFile ELSE VersionOf(dest)
<1>1. TypeOK /\ Vacant(me) /\ Shared /\ Shared' /\ FromMirror'
  BY TypeParts, TypePartsNext DEF LonelyInv, DownloadInv
<1>2. CASE Publish
  <2>1. entry' = entry
    BY <1>2 DEF Publish, names, VersionOf
  <2> QED
    BY <1>2, <2>1 DEF Publish, Promise!Next, Promise!Publish, Promise!promise
<1>3. CASE /\ UNCHANGED <<upstream, dest>>
           /\ dest # NoFile => UNCHANGED content
           /\ steady' = steady \/ steady' = FALSE
  <2>1. entry' = entry
    BY <1>3 DEF VersionOf
  <2> QED
    BY <1>3, <2>1 DEF Promise!Next, Promise!Disturb, Promise!promise
<1>4. CASE Replace(me) /\ dest = NoFile /\ UNCHANGED <<content, mirror>>
  <2>1. CASE dest' = NoFile
    BY <1>4, <2>1 DEF mirror, Promise!promise
  <2>2. CASE dest' # NoFile
    <3>1. dest' \in Files
      BY <1>1, <2>2 DEF Shared
    <3>2. /\ VersionOf(dest)' \in 0..upstream'
          /\ content'[dest'] = Whole(1) => VersionOf(dest)' = 1
      BY <1>1, <3>1, WholeNext DEF WholeAtDest
    <3>3. steady' => content'[dest'] = Whole(1) /\ upstream' = 1
      BY <2>2 DEF LonelyInv, DownloadInv, CacheInv
    <3>4. entry = NoFile /\ entry' = VersionOf(dest)' /\ UNCHANGED <<upstream, steady>>
      BY <1>4, <2>2 DEF mirror
    <3>5. entry' \in Promise!Fetchable
      BY <3>2, <3>3, <3>4 DEF Promise!Fetchable
    <3> QED
      BY <3>4, <3>5 DEF Promise!Next, Promise!Fetch
  <2> QED
    BY <2>1, <2>2
<1> QED
  BY <1>1, <1>2, <1>3, <1>4, LonelySteps

\* A lone download keeps the promise the image cache takes it by: its requests,
\* retries, kills and renames amount to one step that puts a file in place, whole
\* and current unless the download was disturbed, and never a version that was
\* not published; and the file is never written again (_download_file).
THEOREM LonePromise ==
  ASSUME NEW me, Procs = {me}
  PROVE  Spec => KeepsPromise
<1>1. Init => LonelyInv(me) /\ Promise!Init
  BY LonelyInit
<1>2. LonelyInv(me) /\ [Next]_vars => LonelyInv(me)'
  BY StepInv, FromMirrorStep, VacantStep DEF LonelyInv, DownloadInv
<1>3. LonelyInv(me) /\ LonelyInv(me)' /\ [Next]_vars =>
        [Promise!Next]_(Promise!promise)
  BY LonelyPromise
<1> QED
  BY <1>1, <1>2, <1>3, PTL DEF Spec, Promise!Spec, KeepsPromise
=============================================================================
