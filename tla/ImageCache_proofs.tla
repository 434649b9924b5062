-------------------------- MODULE ImageCache_proofs --------------------------
(***************************************************************************)
(* Theorems about ImageCache, for any images, keyrings that they share in  *)
(* any way, manifests, --jobs, versions of the mirror and failures.        *)
(***************************************************************************)
EXTENDS ImageCache, FiniteSetTheorems, TLAPS

(***************************************************************************)
(* What a step of a worker does                                            *)
(***************************************************************************)

LEMMA PathType ==
  ASSUME NEW i \in Images, NEW k \in Kinds, Wanted(i, k)
  PROVE  PathOf(i, k) \in Paths /\ PathOf(i, k) \in FilesOf(i)
BY CacheAssumption DEF PathOf, Paths, Kinds, Wanted, FilesOf, OwnFiles, KeyringFile

\* A worker puts a file of its image.
Writes(i) ==
  \/ UNCHANGED file
  \/ \E p \in FilesOf(i) \cap Paths : \E v \in 0..LastVersion : Put(p, v)

\* It changes its own place, and what it shares it adds to.
Keeps(i) ==
  /\ at' \in [Images -> {"queued"} \cup Active \cup Over]
  /\ kind' \in [Images -> Kinds]
  /\ signed' \in [Images -> 0..LastVersion]
  /\ \A j \in Images \ {i} :
       at'[j] = at[j] /\ kind'[j] = kind[j] /\ signed'[j] = signed[j]
  /\ noisy' \in SUBSET Images /\ noisy \subseteq noisy'
  /\ imported' \in SUBSET Keyrings /\ imported \subseteq imported'
  /\ raced' \in SUBSET Images
  /\ faults' \in 0..MaxFaults
  /\ main = "run" /\ main' = main
  /\ UNCHANGED <<current, clean, disturbed>>

\* It is in the pool, or takes a place there.
Places(i) ==
  /\ at[i] \in Active \/ Cardinality({j \in Images : at[j] \in Active}) < Jobs
  /\ at'[i] # "queued"
  /\ at'[i] = "get" => Wanted(i, kind'[i])

LEMMA FaultType ==
  ASSUME TypeOK, Fault \/ Fine \/ UNCHANGED faults
  PROVE  faults' \in 0..MaxFaults
BY CacheAssumption DEF TypeOK, Fault, Fine

LEMMA FetchableType ==
  ASSUME TypeOK, NEW i \in Images
  PROVE  Download(i)!Fetchable \subseteq 0..LastVersion
<1>1. LastVersion \in Nat \ {0} /\ current \in 1..LastVersion
  BY CacheAssumption DEF TypeOK
<1> DEFINE c == IF kind[i] = "keyring" THEN 1 ELSE current
<1>2. c \in 1..LastVersion
  BY <1>1
<1>3. {c} \subseteq 0..LastVersion /\ 0..c \subseteq 0..LastVersion
  BY <1>1, <1>2
<1> QED
  BY <1>3 DEF Download!Fetchable

LEMMA VersionType == 0 \in 0..LastVersion
BY CacheAssumption

LEMMA TakeKeeps ==
  ASSUME TypeOK, ControlInv, NEW i \in Images, Take(i)
  PROVE  Keeps(i) /\ Places(i) /\ Writes(i)
BY DEF TypeOK, ControlInv, Take, Goto, Keeps, Places, Writes, Active, clean

LEMMA LookKeeps ==
  ASSUME TypeOK, ControlInv, NEW i \in Images, Look(i)
  PROVE  Keeps(i) /\ Places(i) /\ Writes(i)
<1>1. raced' \in SUBSET Images
  BY DEF TypeOK, Look, Rivals
<1>2. CASE Advance(i)
  BY <1>1, <1>2 DEF TypeOK, ControlInv, Look, Advance, Goto, Keeps, Places, Writes,
                    Active, Kinds, clean
<1>3. CASE Wanted(i, kind[i]) /\ Goto(i, "get") /\ UNCHANGED kind
  BY <1>1, <1>3 DEF TypeOK, ControlInv, Look, Goto, Keeps, Places, Writes, Active, clean
<1> QED
  BY <1>2, <1>3 DEF Look

LEMMA GetKeeps ==
  ASSUME TypeOK, ControlInv, NEW i \in Images, Get(i)
  PROVE  Keeps(i) /\ Places(i) /\ Writes(i)
<1>1. at[i] = "get" /\ main = "run" /\ kind[i] \in Kinds /\ Wanted(i, kind[i])
  BY DEF TypeOK, ControlInv, Get, Active
<1>2. PathOf(i, kind[i]) \in FilesOf(i) \cap Paths
  BY <1>1, PathType
<1>3. faults' \in 0..MaxFaults
  BY FaultType DEF Get, Fetched, CutShort, Incomplete, Unreachable, Vanished
<1>4. Writes(i)
  BY <1>2, FetchableType, VersionType
  DEF Get, Fetched, CutShort, Incomplete, Unreachable, Vanished, Writes
<1>5. noisy' \in SUBSET Images /\ noisy \subseteq noisy'
  BY DEF TypeOK, Get, Fetched, CutShort, Incomplete, Unreachable, Vanished, Log
<1>6. CASE Advance(i)
  BY <1>1, <1>3, <1>4, <1>5, <1>6
  DEF TypeOK, Get, Advance, Goto, Keeps, Places, Active, Kinds, clean
<1>7. CASE UNCHANGED kind /\ (Goto(i, "failed") \/ Goto(i, "raised"))
  BY <1>1, <1>3, <1>4, <1>5, <1>7
  DEF TypeOK, Get, Goto, Keeps, Places, Active, Over, clean
<1> QED
  BY <1>6, <1>7 DEF Get, Fetched, CutShort, Incomplete, Unreachable, Vanished

LEMMA GpgKeeps ==
  ASSUME TypeOK, ControlInv, NEW i \in Images, Gpg(i)
  PROVE  Keeps(i) /\ Places(i) /\ Writes(i)
<1>1. at[i] = "gpg" /\ main = "run"
  BY DEF ControlInv, Gpg, Active
<1>2. Writes(i)
  BY VersionType DEF Gpg, Writes, FilesOf, OwnFiles, Paths
<1>3. noisy' \in SUBSET Images /\ noisy \subseteq noisy'
  BY DEF TypeOK, Gpg, Log
<1>4. imported' \in SUBSET Keyrings /\ imported \subseteq imported'
  BY CacheAssumption DEF TypeOK, Gpg, Import, Unsigned, Wanted
<1>5. /\ signed' \in [Images -> 0..LastVersion]
      /\ \A j \in Images \ {i} : signed'[j] = signed[j]
  BY DEF TypeOK, Gpg, Exists
<1>6. \E l \in {"hash", "raised", "sidecar"} : Goto(i, l)
  BY DEF Gpg
<1> QED
  BY <1>1, <1>2, <1>3, <1>4, <1>5, <1>6
  DEF TypeOK, Gpg, Goto, Keeps, Places, Active, Over, clean

LEMMA VerifyKeeps ==
  ASSUME TypeOK, ControlInv, NEW i \in Images, Sidecar(i) \/ Hash(i)
  PROVE  Keeps(i) /\ Places(i) /\ Writes(i)
<1>1. at[i] \in {"sidecar", "hash"} /\ main = "run"
  BY DEF ControlInv, Sidecar, Hash, Active
<1>2. Writes(i)
  BY DEF TypeOK, Sidecar, Hash, Writes, FilesOf, OwnFiles, Paths
<1>3. noisy' \in SUBSET Images /\ noisy \subseteq noisy'
  BY DEF TypeOK, Sidecar, Hash, Log
<1>4. /\ signed' \in [Images -> 0..LastVersion]
      /\ \A j \in Images \ {i} : signed'[j] = signed[j]
  BY VersionType DEF TypeOK, Sidecar, Hash
<1>5. \E l \in {"hash", "done"} : Goto(i, l)
  BY DEF Sidecar, Hash
<1> QED
  BY <1>1, <1>2, <1>3, <1>4, <1>5
  DEF TypeOK, Sidecar, Hash, Goto, Keeps, Places, Active, Over, clean

LEMMA WorkKeeps ==
  ASSUME TypeOK, ControlInv, NEW i \in Images, Work(i)
  PROVE  Keeps(i) /\ Places(i) /\ Writes(i)
BY TakeKeeps, LookKeeps, GetKeeps, GpgKeeps, VerifyKeeps DEF Work

(***************************************************************************)
(* Types, places in the pool, keyrings                                     *)
(***************************************************************************)

LEMMA WritesType ==
  ASSUME TypeOK, NEW i \in Images, Writes(i)
  PROVE  /\ DOMAIN file' \subseteq Paths
         /\ \A q \in DOMAIN file' : file'[q] \in 0..LastVersion
BY DEF TypeOK, Writes, Put

LEMMA MentionedType ==
  ASSUME NEW m \in Manifests
  PROVE  /\ m.images \subseteq Images /\ m.comments \subseteq Images
         /\ m.disks \subseteq Images
BY CacheAssumption

LEMMA PartialsType ==
  ASSUME TypeOK, ControlInv, NEW m \in Manifests
  PROVE  Partials(m) \subseteq Paths
<1> SUFFICES ASSUME NEW i \in Images, at[i] = "get"
             PROVE  PathOf(i, kind[i]) \in Paths
  BY DEF Partials
<1> QED
  BY PathType DEF TypeOK, ControlInv

LEMMA TypeStep == TypeOK /\ ControlInv /\ [Next]_vars => TypeOK'
<1> SUFFICES ASSUME TypeOK, ControlInv, [Next]_vars PROVE TypeOK'
  OBVIOUS
<1> USE DEF init, clean
<1>1. CASE Start
  BY <1>1, VersionType DEF TypeOK, Start, Afresh, Kinds
<1>2. CASE End
  BY <1>2 DEF TypeOK, End
<1>3. CASE Kill
  BY <1>3, FaultType, VersionType DEF TypeOK, Kill, Afresh, Kinds
<1>4. CASE CleanScan
  <2>1. PICK m \in Manifests : \E found \in SUBSET m.disks :
          /\ candidates' = DOMAIN file \ Protected(m, found) /\ doomed' = Partials(m)
          /\ kept' = m.images /\ backing' = found
    BY <1>4 DEF CleanScan
  <2>2. candidates' \subseteq Paths /\ doomed' \subseteq Paths
    BY <2>1, PartialsType DEF TypeOK
  <2>3. kept' \subseteq Images /\ backing' \subseteq Images
    BY <2>1, MentionedType
  <2>4. faults' \in 0..MaxFaults
    BY <1>4, FaultType DEF CleanScan
  <2> QED
    BY <1>4, <2>2, <2>3, <2>4 DEF TypeOK, CleanScan
<1>5. CASE Publish
  BY <1>5, CacheAssumption DEF TypeOK, Publish
<1>6. ASSUME NEW i \in Images, Work(i) PROVE TypeOK'
  BY <1>6, WorkKeeps, WritesType DEF TypeOK, Keeps
<1>7. ASSUME NEW p \in Paths, CleanRemove(p) PROVE TypeOK'
  BY <1>7, FaultType DEF TypeOK, CleanRemove, Forget
<1>8. ASSUME NEW p \in Paths, CleanPartial(p) PROVE TypeOK'
  BY <1>8, FaultType DEF TypeOK, CleanPartial, Downloading, Forget
<1>9. CASE UNCHANGED vars
  BY <1>9 DEF TypeOK, vars
<1> QED
  BY <1>1, <1>2, <1>3, <1>4, <1>5, <1>6, <1>7, <1>8, <1>9 DEF Next

\* Apart from a worker's step: nobody's place changes, or nobody has one.
LEMMA OtherSteps ==
  ASSUME [Next]_vars, \A i \in Images : ~Work(i)
  PROVE  \/ UNCHANGED <<at, kind, signed, noisy>> /\ (main' = main \/ End)
         \/ \A i \in Images : at'[i] = "queued" /\ kind'[i] = "image"
<1> USE DEF init, clean
<1>1. CASE Start \/ Kill
  BY <1>1 DEF Start, Kill, Afresh
<1>2. CASE End \/ CleanScan \/ Publish
  BY <1>2 DEF End, CleanScan, Publish
<1>3. CASE \E p \in Paths : CleanRemove(p) \/ CleanPartial(p)
  BY <1>3 DEF CleanRemove, CleanPartial
<1> QED
  BY <1>1, <1>2, <1>3 DEF Next, vars

LEMMA ControlStep == TypeOK /\ ControlInv /\ [Next]_vars => ControlInv'
<1> SUFFICES ASSUME TypeOK, ControlInv, [Next]_vars PROVE ControlInv'
  OBVIOUS
<1>1. ASSUME NEW i \in Images, Work(i) PROVE ControlInv'
  BY <1>1, WorkKeeps DEF ControlInv, Keeps, Places, Wanted
<1>2. CASE \A i \in Images : ~Work(i)
  <2>1. CASE UNCHANGED <<at, kind, signed, noisy>> /\ main' = main
    BY <2>1 DEF ControlInv, Wanted
  <2>2. CASE UNCHANGED <<at, kind, signed, noisy>> /\ End
    BY <2>2 DEF ControlInv, End, Wanted, Over, Active
  <2>3. CASE \A i \in Images : at'[i] = "queued" /\ kind'[i] = "image"
    BY <2>3 DEF ControlInv, Active
  <2> QED
    BY <1>2, <2>1, <2>2, <2>3, OtherSteps
<1> QED
  BY <1>1, <1>2

LEMMA PoolStep == TypeOK /\ ControlInv /\ PoolInv /\ [Next]_vars => PoolInv'
<1> SUFFICES ASSUME TypeOK, ControlInv, PoolInv, [Next]_vars PROVE PoolInv'
  OBVIOUS
<1> DEFINE S == {j \in Images : at[j] \in Active}
           T == {j \in Images : at'[j] \in Active}
<1>1. IsFiniteSet(S) /\ Cardinality(S) \in Nat /\ Jobs \in Nat /\ Cardinality(S) <= Jobs
  BY CacheAssumption, FS_Subset, FS_CardinalityType DEF PoolInv
<1>2. ASSUME T \subseteq S PROVE Cardinality(T) <= Jobs
  <2>1. Cardinality(T) <= Cardinality(S) /\ IsFiniteSet(T)
    BY <1>1, <1>2, FS_Subset
  <2>2. Cardinality(T) \in Nat
    BY <2>1, FS_CardinalityType
  <2> QED
    BY <1>1, <2>1, <2>2
<1>3. ASSUME NEW i \in Images, Work(i) PROVE Cardinality(T) <= Jobs
  <2>1. Keeps(i) /\ Places(i)
    BY <1>3, WorkKeeps
  <2>2. CASE at[i] \in Active
    BY <2>1, <2>2, <1>2 DEF Keeps
  <2>3. CASE Cardinality(S) < Jobs
    <3>1. T \subseteq S \cup {i}
      BY <2>1 DEF Keeps
    <3>2. IsFiniteSet(S \cup {i}) /\ Cardinality(S \cup {i}) <= Cardinality(S) + 1
      <4> HIDE DEF S
      <4>1. /\ IsFiniteSet(S \cup {i})
            /\ Cardinality(S \cup {i}) =
                 IF i \in S THEN Cardinality(S) ELSE Cardinality(S) + 1
        BY <1>1, FS_AddElement
      <4> QED
        BY <4>1, <1>1
    <3>3. Cardinality(T) <= Cardinality(S \cup {i}) /\ IsFiniteSet(T)
      BY <3>1, <3>2, FS_Subset
    <3>4. Cardinality(T) \in Nat /\ Cardinality(S \cup {i}) \in Nat
      BY <3>2, <3>3, FS_CardinalityType
    <3> QED
      BY <1>1, <2>3, <3>2, <3>3, <3>4
  <2> QED
    BY <2>1, <2>2, <2>3 DEF Places
<1>4. ASSUME \A i \in Images : ~Work(i) PROVE Cardinality(T) <= Jobs
  <2>1. T \subseteq S
    BY <1>4, OtherSteps DEF Active
  <2> QED
    BY <2>1, <1>2
<1> QED
  BY <1>3, <1>4 DEF PoolInv

LEMMA KeyringStep == TypeOK /\ ControlInv /\ KeyringInv /\ [Next]_vars => KeyringInv'
<1> SUFFICES ASSUME TypeOK, ControlInv, KeyringInv, [Next]_vars,
                    NEW j \in Images, KeyringOf[j] = NoKeyring
             PROVE  at'[j] # "sidecar" /\ <<"verified", j>> \notin DOMAIN file'
  BY DEF KeyringInv
<1>0. at[j] # "sidecar" /\ <<"verified", j>> \notin DOMAIN file
  BY DEF KeyringInv
<1>1. ASSUME NEW i \in Images, Work(i), i # j
      PROVE  at'[j] # "sidecar" /\ <<"verified", j>> \notin DOMAIN file'
  <2>1. Keeps(i) /\ Writes(i)
    BY <1>1, WorkKeeps
  <2>2. <<"verified", j>> \notin FilesOf(i)
    BY <1>1 DEF FilesOf, OwnFiles, KeyringFile, PathOf
  <2>3. DOMAIN file' \subseteq DOMAIN file \cup FilesOf(i)
    BY <2>1 DEF Writes, Put
  <2>4. at'[j] = at[j]
    BY <1>1, <2>1 DEF Keeps
  <2> QED
    BY <1>0, <2>2, <2>3, <2>4
<1>2. ASSUME Work(j)
      PROVE  at'[j] # "sidecar" /\ <<"verified", j>> \notin DOMAIN file'
  <2>1. CASE Gpg(j)
    BY <1>0, <2>1 DEF TypeOK, Gpg, Unsigned, Wanted, Goto
  <2>2. CASE Get(j)
    <3>1. PathOf(j, kind[j]) # <<"verified", j>>
      BY DEF TypeOK, Kinds, PathOf
    <3> QED
      BY <1>0, <2>2, <3>1
      DEF TypeOK, Get, Fetched, CutShort, Incomplete, Unreachable, Vanished, Advance, Goto, Put
  <2>3. CASE Take(j) \/ Look(j) \/ Sidecar(j) \/ Hash(j)
    BY <1>0, <2>3 DEF TypeOK, Take, Look, Sidecar, Hash, Advance, Goto
  <2> QED
    BY <1>2, <2>1, <2>2, <2>3 DEF Work
<1>3. CASE \A i \in Images : ~Work(i)
  <2>1. at'[j] # "sidecar"
    BY <1>0, <1>3, OtherSteps
  <2>2. DOMAIN file' \subseteq DOMAIN file
    BY <1>3 DEF Next, Start, End, Kill, CleanScan, Publish, CleanRemove, CleanPartial, vars
  <2> QED
    BY <1>0, <2>1, <2>2
<1> QED
  BY <1>1, <1>2, <1>3

LEMMA CleanStep == TypeOK /\ ControlInv /\ CleanInv /\ [Next]_vars => CleanInv'
<1> SUFFICES ASSUME TypeOK, ControlInv, CleanInv, [Next]_vars PROVE CleanInv'
  OBVIOUS
<1> USE DEF CleanInv, BackingFiles, FilesOf, OwnFiles, KeyringFile, PathOf
<1>1. CASE CleanScan
  <2>1. PICK m \in Manifests : \E found \in SUBSET m.disks :
          /\ candidates' = DOMAIN file \ Protected(m, found)
          /\ kept' = m.images /\ backing' = found
    BY <1>1 DEF CleanScan
  <2> QED
    BY <2>1 DEF Protected
<1>2. ASSUME NEW i \in Images, Work(i) PROVE CleanInv'
  <2>1. UNCHANGED <<candidates, kept, backing>>
    BY <1>2, WorkKeeps DEF Keeps, clean
  <2> QED
    BY <2>1
<1>3. CASE candidates' \subseteq candidates /\ UNCHANGED <<kept, backing>>
  BY <1>3
<1>4. CASE candidates' = {}
  BY <1>4
<1>5. ASSUME NEW p \in Paths, CleanRemove(p) \/ CleanPartial(p) PROVE CleanInv'
  BY <1>3, <1>4, <1>5 DEF CleanRemove, CleanPartial, Forget
<1> QED
  BY <1>1, <1>2, <1>3, <1>5 DEF Next, Start, End, Kill, Publish, clean, vars

\* The only worker that puts the file of an image is the one that gets it.
LEMMA ImagePut ==
  ASSUME TypeOK, ControlInv, NEW i \in Images, NEW j \in Images, Work(j)
  PROVE  \/ Get(i) /\ kind[i] = "image" /\ at'[i] # "get"
         \/ /\ <<"image", i>> \in DOMAIN file' <=> <<"image", i>> \in DOMAIN file
            /\ <<"image", i>> \in DOMAIN file => file'[<<"image", i>>] = file[<<"image", i>>]
<1>1. CASE Get(j)
  <2>1. at'[j] # "get"
    BY <1>1 DEF TypeOK, Get, Fetched, CutShort, Incomplete, Unreachable, Vanished, Advance,
                Goto
  <2>2. UNCHANGED file \/ \E v : Put(PathOf(j, kind[j]), v)
    BY <1>1 DEF Get, Fetched, CutShort, Incomplete, Unreachable, Vanished
  <2>3. PathOf(j, kind[j]) = <<"image", i>> => j = i /\ kind[j] = "image"
    BY DEF TypeOK, PathOf, Kinds
  <2> QED
    BY <1>1, <2>1, <2>2, <2>3 DEF Put
<1>2. CASE Gpg(j) \/ Sidecar(j)
  <2>1. UNCHANGED file \/ \E v : Put(<<"verified", j>>, v)
    BY <1>2 DEF Gpg, Sidecar
  <2> QED
    BY <2>1 DEF Put
<1>3. CASE Take(j) \/ Look(j) \/ Hash(j)
  BY <1>3 DEF Take, Look, Hash
<1> QED
  BY <1>1, <1>2, <1>3 DEF Work

LEMMA FreshStep == TypeOK /\ ControlInv /\ FreshInv /\ [Next]_vars => FreshInv'
<1> SUFFICES ASSUME TypeOK, ControlInv, FreshInv, [Next]_vars,
                    NEW i \in Images, at'[i] = "get", kind'[i] = "image"
             PROVE  <<"image", i>> \notin DOMAIN file'
  BY DEF FreshInv, Exists, PathOf
<1>1. ASSUME NEW j \in Images, Work(j) PROVE <<"image", i>> \notin DOMAIN file'
  <2>1. <<"image", i>> \in DOMAIN file' <=> <<"image", i>> \in DOMAIN file
    BY <1>1, ImagePut
  <2>2. CASE at[i] = "get" /\ kind[i] = "image"
    BY <2>1, <2>2 DEF FreshInv, Exists, PathOf
  <2>3. CASE ~(at[i] = "get" /\ kind[i] = "image")
    <3>1. j = i
      BY <1>1, <2>3, WorkKeeps DEF Keeps
    <3>2. Look(i)
      BY <1>1, <2>3, <3>1
      DEF TypeOK, Work, Take, Look, Get, Fetched, CutShort, Incomplete, Unreachable,
          Vanished, Gpg, Sidecar, Hash, Advance, Goto
    <3>3. kind'[i] = kind[i] /\ ~Exists(i, kind[i])
      BY <3>2 DEF TypeOK, Look, Advance, Goto
    <3> QED
      BY <2>1, <3>3 DEF Exists, PathOf
  <2> QED
    BY <2>2, <2>3
<1>2. CASE \A j \in Images : ~Work(j)
  <2>1. UNCHANGED <<at, kind>>
    BY <1>2, OtherSteps
  <2>2. DOMAIN file' \subseteq DOMAIN file
    BY <1>2 DEF Next, Start, End, Kill, CleanScan, Publish, CleanRemove, CleanPartial, vars
  <2> QED
    BY <2>1, <2>2 DEF FreshInv, Exists, PathOf
<1> QED
  BY <1>1, <1>2

(***************************************************************************)
(* What the workers have seen to                                           *)
(***************************************************************************)

\* What a worker does leaves what another one has seen to.
LEMMA OthersSeenTo ==
  ASSUME TypeOK, NEW i \in Images, Keeps(i), Writes(i),
         NEW j \in Images, j # i, SeenTo(j)
  PROVE  SeenTo(j)'
<1>1. at'[j] = at[j] /\ kind'[j] = kind[j] /\ signed'[j] = signed[j]
  BY DEF Keeps
<1>2. DOMAIN file \subseteq DOMAIN file'
  BY DEF Writes, Put
<1>3. \A p \in OwnFiles(j) \cap DOMAIN file : file'[p] = file[p]
  <2>1. OwnFiles(j) \cap FilesOf(i) = {}
    BY DEF FilesOf, OwnFiles, KeyringFile, PathOf
  <2> QED
    BY <2>1 DEF Writes, Put
<1>4. \A k \in Kinds : Has(j, k) => Has(j, k)'
  BY <1>2 DEF Has, Exists, Wanted, PathOf
<1>5. ASSUME NEW v, SignedBy(j, v) PROVE SignedBy(j, v)'
  BY <1>2, <1>3, <1>5 DEF SignedBy, Exists, PathOf, OwnFiles, Keeps
<1>6. <<"verified", j>> \in DOMAIN file =>
        <<"verified", j>> \in DOMAIN file' /\ file'[<<"verified", j>>] = file[<<"verified", j>>]
  BY <1>2, <1>3 DEF OwnFiles
<1>7. Verified(j) => Verified(j)'
  BY <1>2, <1>3, <1>6 DEF Verified, Exists, PathOf, OwnFiles, Keeps
<1>8. "image" \in Kinds /\ "keyring" \in Kinds
  BY DEF Kinds
<1> QED
  BY <1>1, <1>4, <1>5, <1>6, <1>7, <1>8 DEF SeenTo

\* A worker that advances to the next kind has seen to this one.
LEMMA AdvanceSeenTo ==
  ASSUME TypeOK, NEW i \in Images, at[i] \in {"look", "get"}, SeenTo(i), Advance(i),
         DOMAIN file \subseteq DOMAIN file',
         Wanted(i, kind[i]) => PathOf(i, kind[i]) \in DOMAIN file'
  PROVE  SeenTo(i)'
<1>1. \A k \in Kinds : Has(i, k) => Has(i, k)'
  BY DEF Has, Exists, Wanted, PathOf
<1>0. ASSUME NEW k \in Kinds, kind[i] = k PROVE Has(i, k)'
  BY <1>0 DEF Has, Exists, Wanted, PathOf
<1>2. CASE kind[i] = "image"
  BY <1>0, <1>1, <1>2 DEF TypeOK, SeenTo, Advance, Goto, Kinds
<1>3. CASE kind[i] = "keyring"
  BY <1>0, <1>1, <1>3 DEF TypeOK, SeenTo, Advance, Goto, Kinds
<1>4. CASE kind[i] = "checksum"
  BY <1>0, <1>1, <1>4 DEF TypeOK, SeenTo, Advance, Goto, Kinds
<1> QED
  BY <1>2, <1>3, <1>4 DEF TypeOK, Kinds

LEMMA LookSeenTo ==
  ASSUME TypeOK, NEW i \in Images, Look(i), SeenTo(i)
  PROVE  SeenTo(i)'
<1>1. CASE (Wanted(i, kind[i]) => Exists(i, kind[i])) /\ Advance(i)
  <2>1. /\ DOMAIN file \subseteq DOMAIN file'
        /\ Wanted(i, kind[i]) => PathOf(i, kind[i]) \in DOMAIN file'
    BY <1>1 DEF Look, Exists
  <2> QED
    BY <1>1, <2>1, AdvanceSeenTo DEF Look
<1>2. CASE Goto(i, "get") /\ UNCHANGED kind
  BY <1>2 DEF TypeOK, Look, Goto, SeenTo, Has, Exists, Wanted, PathOf
<1> QED
  BY <1>1, <1>2 DEF Look

LEMMA GetSeenTo ==
  ASSUME TypeOK, NEW i \in Images, Get(i), SeenTo(i), i \notin noisy'
  PROVE  SeenTo(i)'
<1>1. CASE Fetched(i) \/ CutShort(i)
  <2>1. DOMAIN file' = DOMAIN file \cup {PathOf(i, kind[i])}
    BY <1>1 DEF Fetched, CutShort, Put
  <2> QED
    BY <1>1, <2>1, AdvanceSeenTo DEF Get, Fetched, CutShort
<1>2. CASE Vanished(i)
  BY <1>2 DEF TypeOK, Vanished, Goto, SeenTo
<1> QED
  BY <1>1, <1>2 DEF Get, Incomplete, Unreachable, Log

LEMMA GpgSeenTo ==
  ASSUME TypeOK, NEW i \in Images, Gpg(i), SeenTo(i), i \notin noisy'
  PROVE  SeenTo(i)'
<1>0. at[i] = "gpg" /\ \A k \in Kinds : Has(i, k)
  BY DEF Gpg, SeenTo
<1>1. CASE Unsigned(i) /\ Goto(i, "hash") /\ UNCHANGED <<file, imported, signed, noisy>>
  <2>1. KeyringOf[i] = NoKeyring
    BY <1>0, <1>1 DEF Unsigned, Has, Wanted, Kinds
  <2>2. (\A k \in Kinds : Has(i, k))'
    BY <1>0, <1>1 DEF Has, Exists, Wanted, PathOf
  <2> QED
    BY <1>1, <2>1, <2>2 DEF TypeOK, Goto, SeenTo
<1>2. CASE Goto(i, "raised")
  BY <1>2 DEF TypeOK, Goto, SeenTo
<1>3. CASE /\ ~Unsigned(i) /\ Wanted(i, "checksum") /\ Exists(i, "checksum")
           /\ Import(i) /\ Valid(i)
           /\ Put(<<"verified", i>>, 0)
           /\ signed' = [signed EXCEPT ![i] = file[PathOf(i, "checksum")]]
           /\ Goto(i, "sidecar")
  <2>1. (\A k \in Kinds : Has(i, k))'
    BY <1>0, <1>3 DEF Has, Exists, Wanted, PathOf, Put
  <2>2. SignedBy(i, signed[i])' /\ (<<"verified", i>> \in DOMAIN file)'
    BY <1>3 DEF TypeOK, SignedBy, Valid, Exists, Wanted, PathOf, Put
  <2> QED
    BY <1>3, <2>1, <2>2 DEF TypeOK, Goto, SeenTo
<1> QED
  BY <1>1, <1>2, <1>3 DEF Gpg, Log

LEMMA SidecarSeenTo ==
  ASSUME TypeOK, NEW i \in Images, Sidecar(i), SeenTo(i)
  PROVE  SeenTo(i)'
<1>1. at[i] = "sidecar" /\ \A k \in Kinds : Has(i, k)
  BY DEF Sidecar, SeenTo
<1>2. SignedBy(i, signed[i]) /\ <<"verified", i>> \in DOMAIN file
  BY <1>1 DEF SeenTo
<1>3. Put(<<"verified", i>>, signed[i])
  BY <1>2 DEF Sidecar
<1>4. (\A k \in Kinds : Has(i, k))'
  BY <1>1, <1>3 DEF Has, Exists, Wanted, PathOf, Put
<1>5. <<"verified", i>> \in DOMAIN file' /\ SignedBy(i, file[<<"verified", i>>])'
  BY <1>2, <1>3 DEF Sidecar, SignedBy, Exists, PathOf, Put
<1> QED
  BY <1>4, <1>5 DEF TypeOK, Sidecar, Goto, SeenTo

LEMMA HashSeenTo ==
  ASSUME TypeOK, KeyringInv, NEW i \in Images, Hash(i), SeenTo(i), i \notin noisy'
  PROVE  SeenTo(i)'
<1>1. at[i] = "hash" /\ \A k \in Kinds : Has(i, k)
  BY DEF Hash, SeenTo
<1>2. KeyringOf[i] # NoKeyring =>
        <<"verified", i>> \in DOMAIN file /\ SignedBy(i, file[<<"verified", i>>])
  BY <1>1 DEF SeenTo
<1>3. Exists(i, "image") /\ (i \in Checked => Exists(i, "checksum"))
  BY <1>1 DEF Has, Wanted, Kinds
<1>4. i \in Checked => Matches(i)
  BY <1>3 DEF Hash, Wanted, Log
<1>5. Verified(i)
  BY <1>2, <1>3, <1>4 DEF Verified, Matches, Reference, SignedBy, KeyringInv, PathOf
<1>6. Verified(i)' /\ (\A k \in Kinds : Has(i, k))'
  BY <1>1, <1>5 DEF Hash, Verified, Has, Exists, Wanted, PathOf
<1>7. KeyringOf[i] # NoKeyring =>
        <<"verified", i>> \in DOMAIN file' /\ SignedBy(i, file[<<"verified", i>>])'
  BY <1>2 DEF Hash, SignedBy, Exists, PathOf
<1> QED
  BY <1>6, <1>7 DEF TypeOK, Hash, Goto, SeenTo

LEMMA WorkStep ==
  TypeOK /\ ControlInv /\ KeyringInv /\ WorkInv /\ [Next]_vars => WorkInv'
<1> SUFFICES ASSUME TypeOK, ControlInv, KeyringInv, WorkInv, [Next]_vars,
                    ~disturbed', NEW j \in Images, j \notin noisy'
             PROVE  SeenTo(j)'
  BY DEF WorkInv
<1>1. ASSUME NEW i \in Images, Work(i) PROVE SeenTo(j)'
  <2>1. Keeps(i) /\ Writes(i)
    BY <1>1, WorkKeeps
  <2>2. SeenTo(j)
    BY <2>1 DEF Keeps, WorkInv
  <2>3. CASE j # i
    BY <2>1, <2>2, <2>3, OthersSeenTo
  <2>4. CASE j = i
    <3>1. CASE Take(j)
      BY <3>1 DEF TypeOK, ControlInv, Take, Goto, SeenTo
    <3> QED
      BY <1>1, <2>2, <2>4, <3>1, LookSeenTo, GetSeenTo, GpgSeenTo, SidecarSeenTo,
         HashSeenTo DEF Work
  <2> QED
    BY <2>3, <2>4
<1>2. CASE \A i \in Images : ~Work(i)
  <2>1. CASE \A i \in Images : at'[i] = "queued" /\ kind'[i] = "image"
    BY <2>1 DEF SeenTo
  <2>2. CASE UNCHANGED <<at, kind, signed, noisy>>
    <3>1. CASE \E p \in Paths : CleanRemove(p)
      BY <3>1 DEF CleanRemove
    <3>2. CASE UNCHANGED <<file, imported, disturbed>>
      BY <2>2, <3>2 DEF WorkInv, SeenTo, Has, Exists, Wanted, PathOf, SignedBy, Verified
    <3>3. CASE Start
      BY <3>3 DEF Start, Afresh, SeenTo
    <3> QED
      BY <1>2, <3>1, <3>2, <3>3
      DEF Next, End, Kill, CleanScan, Publish, CleanPartial, init, clean, vars
  <2> QED
    BY <1>2, <2>1, <2>2, OtherSteps
<1> QED
  BY <1>1, <1>2

(***************************************************************************)
(* The theorems                                                            *)
(***************************************************************************)

\* Workers stay within the pool, each writes what is its own, and those that
\* have logged nothing have seen to what they passed (_run_init_concurrent,
\* _init_image_worker); a cleaning spares its manifest and the backing files it
\* has found (images_clean).
THEOREM CacheSafety == Spec => []CacheInv
<1>1. Init => CacheInv
  <2> SUFFICES ASSUME Init PROVE CacheInv
    OBVIOUS
  <2>1. TypeOK
    <3>1. /\ 1 \in 1..LastVersion /\ 0 \in 0..LastVersion
          /\ 0 \in 0..MaxFaults
      BY CacheAssumption
    <3>2. DOMAIN file = {}
      BY DEF Init
    <3>3. /\ at \in [Images -> {"queued"} \cup Active \cup Over]
          /\ kind \in [Images -> Kinds]
          /\ signed \in [Images -> 0..LastVersion]
      BY <3>1 DEF Init, Kinds
    <3> QED
      BY <3>1, <3>2, <3>3 DEF Init, TypeOK
  <2>2. PoolInv
    <3>1. {i \in Images : at[i] \in Active} = {}
      BY DEF Init, Active
    <3>2. Cardinality({}) = 0 /\ Jobs \in Nat
      BY FS_EmptySet, CacheAssumption
    <3> QED
      BY <3>1, <3>2 DEF PoolInv
  <2>3. \A i \in Images : at[i] = "queued" /\ kind[i] = "image"
    BY DEF Init
  <2>4. ControlInv /\ KeyringInv /\ CleanInv /\ FreshInv
    BY <2>3 DEF Init, ControlInv, KeyringInv, CleanInv, FreshInv, Active
  <2>5. WorkInv
    BY <2>3 DEF WorkInv, SeenTo
  <2> QED
    BY <2>1, <2>2, <2>4, <2>5 DEF CacheInv
<1>2. CacheInv /\ [Next]_vars => CacheInv'
  BY TypeStep, ControlStep, PoolStep, KeyringStep, CleanStep, FreshStep,
     WorkStep DEF CacheInv
<1> QED
  BY <1>1, <1>2, PTL DEF Spec

\* An image that an init finished without a word is there and verified, unless
\* a cleaning removed files meanwhile (_init_image_worker).
THEOREM CacheQuiet == Spec => []QuietMeansVerified
<1>1. CacheInv => QuietMeansVerified
  BY DEF CacheInv, WorkInv, SeenTo, QuietMeansVerified
<1> QED
  BY <1>1, CacheSafety, PTL

\* A cleaning removes no file of an image that its manifest names, whoever
\* else has a name for it (images_clean, enumerate_protected_files), nor an image
\* it has found in use (backing_files_in_use, which may miss some); and no image
\* is written again where it is, under the disks that have it for their backing
\* file (_init_image_worker).
THEOREM CacheInUseStays == Spec => InUseStays
<1>1. CacheInv /\ [Next]_vars =>
        [/\ \A p \in DOMAIN file \ DOMAIN file' :
              p \notin BackingFiles(backing) /\ \A i \in kept : p \notin FilesOf(i)
         /\ \A p \in DOMAIN file \cap DOMAIN file' :
              p[1] = "image" => file'[p] = file[p]]_file
  <2> SUFFICES ASSUME CacheInv, Next, NEW p \in DOMAIN file
               PROVE  /\ p \notin DOMAIN file' =>
                           /\ p \notin BackingFiles(backing)
                           /\ \A i \in kept : p \notin FilesOf(i)
                      /\ p \in DOMAIN file' /\ p[1] = "image" => file'[p] = file[p]
    BY DEF vars
  <2>1. ASSUME NEW j \in Images, Work(j)
        PROVE  /\ p \in DOMAIN file'
               /\ p[1] = "image" => file'[p] = file[p]
    <3>1. p \in DOMAIN file'
      BY <2>1, WorkKeeps DEF CacheInv, Writes, Put
    <3>2. ASSUME p[1] = "image" PROVE file'[p] = file[p]
      <4>1. PICK i \in Images : p = <<"image", i>>
        BY <3>2 DEF CacheInv, TypeOK, Paths
      <4>2. ~(Get(i) /\ kind[i] = "image")
        BY <4>1 DEF Get, CacheInv, FreshInv, Exists, PathOf
      <4> QED
        BY <2>1, <4>1, <4>2, ImagePut DEF CacheInv
    <3> QED
      BY <3>1, <3>2
  <2>2. ASSUME NEW q \in Paths, CleanRemove(q)
        PROVE  /\ p \notin DOMAIN file' =>
                    p \notin BackingFiles(backing) /\ \A i \in kept : p \notin FilesOf(i)
               /\ p \in DOMAIN file' => file'[p] = file[p]
    <3>1. q \notin BackingFiles(backing) /\ \A i \in kept : q \notin FilesOf(i)
      BY <2>2 DEF CleanRemove, CacheInv, CleanInv
    <3>2. p # q => p \in DOMAIN file'
      BY <2>2 DEF CleanRemove
    <3>3. p \in DOMAIN file' => file'[p] = file[p]
      BY <2>2 DEF CleanRemove
    <3> QED
      BY <3>1, <3>2, <3>3
  <2>3. CASE UNCHANGED file
    BY <2>3
  <2> QED
    BY <2>1, <2>2, <2>3 DEF Next, Start, End, Kill, CleanScan, Publish, CleanPartial
<1> QED
  BY <1>1, CacheSafety, PTL DEF Spec, InUseStays
=============================================================================
