----------------------------- MODULE ImageCache -----------------------------
(***************************************************************************)
(* The cloud-image cache: lvlab init, whose pool of workers downloads and  *)
(* verifies one image each, and lvlab images clean, run from the manifest  *)
(* of any environment that shares the cache.                               *)
(*                                                                         *)
(* A download is a start and an end here; ImageDownload has its requests.  *)
(* A file of the cache holds a whole version of what it is a copy of, or   *)
(* something else, counted as version 0: cut short, or mixed from two.     *)
(***************************************************************************)
EXTENDS Naturals, FiniteSets

CONSTANTS
  Images,       \* the entries of the manifest lvlab init is run with
  Checked,      \* those with a checksum_url (and a valid checksum_type)
  Keyrings,     \* files that a checksum_url_gpg names; images may share one
  KeyringOf,    \* the keyring of each image, or NoKeyring
  NoKeyring,    \* the image has no checksum_url_gpg
  Manifests,    \* [images, comments, disks] of those `images clean' is run with;
                \* disks are the backing files under its disk_image_basedir
  Jobs,         \* --jobs
  LastVersion,  \* versions the mirror publishes, in order, are 1..LastVersion
  MaxFaults     \* bound on failing calls, kills, downloads that a cleaning hits

Paths == ({"image", "checksum", "verified"} \X Images) \cup ({"keyring"} \X Keyrings)

ASSUME CacheAssumption ==
  /\ IsFiniteSet(Images)
  /\ Checked \subseteq Images
  /\ NoKeyring \notin Keyrings
  /\ KeyringOf \in [Images -> Keyrings \cup {NoKeyring}]
  /\ Manifests \subseteq
       [images : SUBSET Images, comments : SUBSET Images, disks : SUBSET Images]
  /\ Jobs \in Nat \ {0}
  /\ LastVersion \in Nat \ {0}
  /\ MaxFaults \in Nat

VARIABLES
  current,     \* version the mirror serves
  file,        \* version in each file there is: its domain is a set of paths
  imported,    \* keyrings that have been imported into the user's GnuPG
  main,        \* lvlab init: "idle" (or killed), "run" or "ended"
  at, kind,    \* where each worker is, and the kind of file it sees to
  signed,      \* version in the checksum file whose signature was verified
  noisy,       \* images an error was logged for, in this run
  raced,       \* workers whose partial file another one writes or renames, or
               \* that was removed under them
  candidates,  \* files that a running `images clean' has yet to remove
  doomed,      \* and those whose partial file it has yet to remove
  kept,        \* images of the manifest it was run with
  backing,     \* images it has found disks to have for a backing file
  disturbed,   \* whether files were removed since init was started
  faults

init == <<main, at, kind, signed, noisy, raced>>
clean == <<candidates, doomed, kept, backing>>
vars == <<current, file, imported, init, clean, disturbed, faults>>

Kinds == {"image", "keyring", "checksum"}
Over == {"done", "failed", "raised"}
Active == {"look", "get", "gpg", "sidecar", "hash"}

TypeOK ==
  /\ current \in 1..LastVersion
  /\ DOMAIN file \subseteq Paths
  /\ \A p \in DOMAIN file : file[p] \in 0..LastVersion
  /\ imported \subseteq Keyrings
  /\ main \in {"idle", "run", "ended"}
  /\ at \in [Images -> {"queued"} \cup Active \cup Over]
  /\ kind \in [Images -> Kinds]
  /\ signed \in [Images -> 0..LastVersion]
  /\ noisy \subseteq Images /\ raced \subseteq Images
  /\ candidates \subseteq Paths /\ doomed \subseteq Paths
  /\ kept \subseteq Images /\ backing \subseteq Images
  /\ disturbed \in BOOLEAN
  /\ faults \in 0..MaxFaults

Init ==
  /\ current = 1
  /\ file = [p \in {} |-> 0]
  /\ imported = {}
  /\ main = "idle"
  /\ at = [i \in Images |-> "queued"]
  /\ kind = [i \in Images |-> "image"]
  /\ signed = [i \in Images |-> 0]
  /\ noisy = {} /\ raced = {}
  /\ candidates = {} /\ doomed = {} /\ kept = {} /\ backing = {}
  /\ disturbed = FALSE
  /\ faults = 0

Fault == faults < MaxFaults /\ faults' = faults + 1
Fine == faults' = faults

-----------------------------------------------------------------------------
(* CloudImage: where its files are *)

\* Own files have the name of the image for a prefix; a keyring has its own.
PathOf(i, k) == IF k = "keyring" THEN <<k, KeyringOf[i]>> ELSE <<k, i>>

Wanted(i, k) ==
  /\ k = "keyring" => KeyringOf[i] # NoKeyring
  /\ k = "checksum" => i \in Checked

Exists(i, k) == PathOf(i, k) \in DOMAIN file

Put(p, v) ==
  file' = [q \in DOMAIN file \cup {p} |-> IF q = p THEN v ELSE file[q]]

\* A download, as the abstraction of ImageDownload: a keyring does not change
\* upstream.
Download(i) == INSTANCE CachedFile
  WITH Absent <- NoKeyring,
       current <- IF kind[i] = "keyring" THEN 1 ELSE current,
       entry <- IF Exists(i, kind[i]) THEN file[PathOf(i, kind[i])] ELSE NoKeyring,
       steady <- /\ kind[i] = "keyring" \/ current = 1
                 /\ i \notin raced

-----------------------------------------------------------------------------
(* lvlab init: _run_init_concurrent and _init_image_worker *)

\* What a process knows when it starts
Afresh ==
  /\ at' = [i \in Images |-> "queued"]
  /\ kind' = [i \in Images |-> "image"]
  /\ signed' = [i \in Images |-> 0]
  /\ noisy' = {} /\ raced' = {}

Start ==
  /\ main # "run" /\ main' = "run"
  /\ Afresh
  /\ disturbed' = FALSE
  /\ UNCHANGED <<current, file, imported, clean, faults>>

Goto(i, label) ==
  /\ at' = [at EXCEPT ![i] = label]
  /\ UNCHANGED main

Take(i) ==
  /\ main = "run" /\ at[i] = "queued"
  /\ Cardinality({j \in Images : at[j] \in Active}) < Jobs
  /\ Goto(i, "look")
  /\ UNCHANGED <<current, file, imported, kind, signed, noisy, raced,
                 clean, disturbed, faults>>

\* From one kind of file to the next, or on to the verification
Advance(i) ==
  IF kind[i] = "checksum"
  THEN Goto(i, "gpg") /\ UNCHANGED kind
  ELSE /\ Goto(i, "look")
       /\ kind' = [kind EXCEPT ![i] = IF @ = "image" THEN "keyring" ELSE "checksum"]

\* Workers that download what i is about to download
Rivals(i) ==
  {j \in Images \ {i} : at[j] = "get" /\ PathOf(j, kind[j]) = PathOf(i, kind[i])}

\* Only a file that is missing is downloaded.
Look(i) ==
  /\ at[i] = "look"
  /\ \/ /\ Wanted(i, kind[i]) => Exists(i, kind[i])
        /\ Advance(i) /\ UNCHANGED raced
     \/ /\ Wanted(i, kind[i]) /\ ~Exists(i, kind[i])
        /\ Goto(i, "get") /\ UNCHANGED kind
        /\ raced' = IF Rivals(i) = {} THEN raced ELSE raced \cup {i} \cup Rivals(i)
  /\ UNCHANGED <<current, file, imported, signed, noisy, clean, disturbed, faults>>

Log(i) == noisy' = noisy \cup {i}

Fetched(i) ==
  /\ \E v \in Download(i)!Fetchable : Put(PathOf(i, kind[i]), v)
  /\ Advance(i)
  /\ Fine /\ UNCHANGED noisy

\* The connection that ends a body of no known length was lost; or the partial
\* file that an earlier run left was mixed or cut short by others.
CutShort(i) ==
  /\ Fault
  /\ Put(PathOf(i, kind[i]), 0)
  /\ Advance(i) /\ UNCHANGED noisy

\* Mutant of Incomplete: nothing is logged.
Incomplete_Unlogged(i) ==
  /\ Fault
  /\ Advance(i) /\ UNCHANGED <<file, noisy>>

\* Every attempt came to another length than promised: this is logged only.
Incomplete(i) ==
  /\ Fault
  /\ Advance(i) /\ Log(i) /\ UNCHANGED file

\* Any other failure of the request is an ImageError, which ends the worker.
Unreachable(i) ==
  /\ Fault
  /\ Goto(i, "failed") /\ Log(i) /\ UNCHANGED <<file, kind>>

\* os.replace does not find the partial file.  What this worker wrote to a file
\* that another one has renamed stays.
Vanished(i) ==
  /\ i \in raced
  /\ Goto(i, "raised")
  /\ \/ UNCHANGED file
     \/ /\ Exists(i, kind[i])
        /\ \E v \in Download(i)!Fetchable : Put(PathOf(i, kind[i]), v)
  /\ Fine /\ UNCHANGED <<noisy, kind>>

Get(i) ==
  /\ at[i] = "get"
  /\ Fetched(i) \/ CutShort(i) \/ Incomplete(i) \/ Unreachable(i) \/ Vanished(i)
  /\ raced' = raced \ {i}
  /\ UNCHANGED <<current, imported, signed, clean, disturbed>>

\* What is in the keyring file is imported for good.
Import(i) ==
  imported' = IF file[PathOf(i, "keyring")] > 0 THEN imported \cup {KeyringOf[i]}
                                                ELSE imported

\* The signature of a file that is not whole is bad.
Valid(i) == file[PathOf(i, "checksum")] > 0 /\ KeyringOf[i] \in imported'

\* Mutant of Unsigned: what was verified once is not verified again.
Unsigned_Once(i) ==
  \/ ~Wanted(i, "keyring") \/ ~Exists(i, "keyring")
  \/ <<"verified", i>> \in DOMAIN file

\* No keyring is configured, or it could not be had.
Unsigned(i) == ~Wanted(i, "keyring") \/ ~Exists(i, "keyring")

\* gpg_verify_checksum_file, up to the truncation of the .verified file.  With
\* no checksum_url there is no path to look at, and a TypeError.
Gpg(i) ==
  /\ at[i] = "gpg"
  /\ \/ /\ Unsigned(i)
        /\ Goto(i, "hash")
        /\ UNCHANGED <<file, imported, signed, noisy>>
     \/ /\ ~Unsigned(i) /\ ~Wanted(i, "checksum")
        /\ Goto(i, "raised")
        /\ UNCHANGED <<file, imported, signed, noisy>>
     \/ /\ ~Unsigned(i) /\ Wanted(i, "checksum") /\ ~Exists(i, "checksum")
        /\ Goto(i, "hash") /\ Log(i)
        /\ UNCHANGED <<file, imported, signed>>
     \/ /\ ~Unsigned(i) /\ Wanted(i, "checksum") /\ Exists(i, "checksum")
        /\ Import(i)
        /\ \/ /\ Valid(i)
              /\ Put(<<"verified", i>>, 0)
              /\ signed' = [signed EXCEPT ![i] = file[PathOf(i, "checksum")]]
              /\ Goto(i, "sidecar") /\ UNCHANGED noisy
           \/ /\ ~Valid(i)
              /\ Goto(i, "hash") /\ Log(i) /\ UNCHANGED <<file, signed>>
  /\ UNCHANGED <<current, kind, raced, clean, disturbed, faults>>

\* Writing goes to the file that was opened, if it is still there.
Sidecar(i) ==
  /\ at[i] = "sidecar"
  /\ IF <<"verified", i>> \in DOMAIN file THEN Put(<<"verified", i>>, signed[i])
                                         ELSE UNCHANGED file
  /\ signed' = [signed EXCEPT ![i] = 0]
  /\ Goto(i, "hash")
  /\ UNCHANGED <<current, imported, kind, noisy, raced, clean, disturbed,
                 faults>>

\* The file that checksum_verify_image goes by
Reference(i) ==
  IF <<"verified", i>> \in DOMAIN file THEN <<"verified", i>> ELSE <<"checksum", i>>

Matches(i) ==
  /\ Exists(i, "image") /\ Reference(i) \in DOMAIN file
  /\ file[PathOf(i, "image")] > 0
  /\ file[PathOf(i, "image")] = file[Reference(i)]

Hash(i) ==
  /\ at[i] = "hash"
  /\ IF Wanted(i, "checksum") /\ Exists(i, "checksum") /\ ~Matches(i)
     THEN Log(i) ELSE UNCHANGED noisy
  /\ Goto(i, "done")
  /\ UNCHANGED <<current, file, imported, kind, signed, raced, clean,
                 disturbed, faults>>

\* The pool is left when every worker is over, exceptions or not.
End ==
  /\ main = "run" /\ main' = "ended"
  /\ \A i \in Images : at[i] \in Over
  /\ UNCHANGED <<current, file, imported, at, kind, signed, noisy, raced,
                 clean, disturbed, faults>>

Kill ==
  /\ main = "run" /\ main' = "idle"
  /\ Fault
  /\ Afresh
  /\ UNCHANGED <<current, file, imported, clean, disturbed>>

-----------------------------------------------------------------------------
(* lvlab images clean --force, with no lock in the manifest *)

OwnFiles(i) == {<<"image", i>>, <<"checksum", i>>, <<"verified", i>>}

KeyringFile(i) ==
  IF KeyringOf[i] = NoKeyring THEN {} ELSE {PathOf(i, "keyring")}

FilesOf(i) == OwnFiles(i) \cup KeyringFile(i)

\* A comment that mentions an image protects the files there are that it names,
\* and those that have the name of such a file for a prefix.
Mentioned(i) ==
  {p \in KeyringFile(i) : p \in DOMAIN file}
    \cup (IF Exists(i, "image") THEN OwnFiles(i) ELSE {})

BackingFiles(found) == {<<"image", i>> : i \in found}

\* Mutant of Protected: only files with the prefix of an image are its own.
Protected_OwnFiles(m, found) ==
  (UNION {OwnFiles(i) : i \in m.images \cup m.comments}) \cup BackingFiles(found)

\* The manifest, what its comments mention, and the backing files that were found
Protected(m, found) ==
  (UNION {FilesOf(i) : i \in m.images})
    \cup (UNION {Mentioned(i) : i \in m.comments})
    \cup BackingFiles(found)

\* A partial file is only ever protected by a comment.
Partials(m) ==
  {PathOf(i, kind[i]) : i \in {j \in Images : at[j] = "get"}}
    \ UNION {Mentioned(i) : i \in m.comments}

\* The disks are looked up on a best effort: one that qemu-img cannot read, as
\* that of a running guest, which has it locked, is taken to have no backing file,
\* and disks outside the basedir of the manifest are not looked at.  With nothing
\* to remove it ends at once.
CleanScan ==
  /\ candidates = {} /\ doomed = {}
  /\ \E m \in Manifests : \E found \in SUBSET m.disks :
       /\ candidates' = DOMAIN file \ Protected(m, found)
       /\ doomed' = Partials(m)
       /\ kept' = m.images
       /\ backing' = found
       /\ (found = m.disks /\ Fine) \/ (found # m.disks /\ Fault)
  /\ candidates' \cup doomed' # {}
  /\ UNCHANGED <<current, file, imported, init, disturbed>>

\* With nothing left to remove it has ended, and with it what it knew.
Forget ==
  IF candidates' \cup doomed' = {} THEN kept' = {} /\ backing' = {}
                                   ELSE UNCHANGED <<kept, backing>>

\* Files that have the name of p for a prefix
SidecarsOf(p) ==
  CASE p[1] = "image" -> {<<"checksum", p[2]>>, <<"verified", p[2]>>}
    [] p[1] = "checksum" -> {<<"verified", p[2]>>}
    [] OTHER -> {}

\* A file goes before its sidecars.  One that cannot be removed is logged and
\* left.
CleanRemove(p) ==
  /\ p \in candidates /\ candidates' = candidates \ {p}
  /\ \A q \in candidates : p \notin SidecarsOf(q)
  /\ \/ file' = [q \in DOMAIN file \ {p} |-> file[q]] /\ Fine
     \/ UNCHANGED file /\ Fault
  /\ disturbed' = TRUE
  /\ UNCHANGED doomed /\ Forget
  /\ UNCHANGED <<current, imported, init>>

Downloading(p) == {i \in Images : at[i] = "get" /\ PathOf(i, kind[i]) = p}

\* A download whose partial file goes counts as a fault.
CleanPartial(p) ==
  /\ p \in doomed /\ doomed' = doomed \ {p}
  /\ raced' = raced \cup Downloading(p)
  /\ (Downloading(p) = {} /\ Fine) \/ (Downloading(p) # {} /\ Fault)
  /\ UNCHANGED candidates /\ Forget
  /\ UNCHANGED <<current, file, imported, main, at, kind, signed, noisy, disturbed>>

Publish ==
  /\ current < LastVersion /\ current' = current + 1
  /\ UNCHANGED <<file, imported, init, clean, disturbed, faults>>

-----------------------------------------------------------------------------

Work(i) ==
  Take(i) \/ Look(i) \/ Get(i) \/ Gpg(i) \/ Sidecar(i) \/ Hash(i)

Next ==
  \/ Start \/ End \/ Kill \/ CleanScan \/ Publish
  \/ \E i \in Images : Work(i)
  \/ \E p \in Paths : CleanRemove(p) \/ CleanPartial(p)

Spec == Init /\ [][Next]_vars

\* The user repeats init, and every worker gets on.
FairSpec ==
  /\ Spec
  /\ WF_vars(Start) /\ WF_vars(End)
  /\ \A i \in Images : WF_vars(Work(i))

-----------------------------------------------------------------------------
(* Properties *)

\* The image is there, and is what the checksum file says, and what the file
\* with the verified text says if there must be one.
Verified(i) ==
  /\ Exists(i, "image")
  /\ i \in Checked =>
       /\ Exists(i, "checksum") /\ file[PathOf(i, "image")] > 0
       /\ file[PathOf(i, "image")] = file[PathOf(i, "checksum")]
  /\ i \in Checked /\ KeyringOf[i] # NoKeyring =>
       /\ <<"verified", i>> \in DOMAIN file /\ KeyringOf[i] \in imported
       /\ file[PathOf(i, "image")] = file[<<"verified", i>>]

Has(i, k) == Wanted(i, k) => Exists(i, k)

\* The signature was found good, and is of the checksum file there is.
SignedBy(i, v) ==
  /\ i \in Checked /\ Exists(i, "checksum") /\ KeyringOf[i] \in imported
  /\ file[PathOf(i, "checksum")] = v /\ v > 0

\* What a worker that logged nothing has seen to.
SeenTo(i) ==
  /\ at[i] \in {"look", "get"} /\ kind[i] # "image" => Has(i, "image")
  /\ at[i] \in {"look", "get"} /\ kind[i] = "checksum" => Has(i, "keyring")
  /\ at[i] \in {"gpg", "sidecar", "hash", "done"} => \A k \in Kinds : Has(i, k)
  /\ at[i] = "sidecar" =>
       SignedBy(i, signed[i]) /\ <<"verified", i>> \in DOMAIN file
  /\ at[i] \in {"hash", "done"} /\ KeyringOf[i] # NoKeyring =>
       <<"verified", i>> \in DOMAIN file /\ SignedBy(i, file[<<"verified", i>>])
  /\ at[i] = "done" => Verified(i)

\* Workers run in a run only, from the image on, and download what the manifest
\* asks for.
ControlInv ==
  \A i \in Images :
    /\ at[i] = "queued" => kind[i] = "image"
    /\ at[i] \in Active => main = "run"
    /\ at[i] = "get" => Wanted(i, kind[i])

\* Each within the pool
PoolInv == Cardinality({i \in Images : at[i] \in Active}) <= Jobs

\* Only images with a keyring have a .verified file.
KeyringInv ==
  \A i \in Images :
    at[i] = "sidecar" \/ <<"verified", i>> \in DOMAIN file => KeyringOf[i] # NoKeyring

\* A cleaning that runs spares what its manifest names, and the backing files
\* it has found.
CleanInv ==
  /\ \A i \in kept : candidates \cap FilesOf(i) = {}
  /\ candidates \cap BackingFiles(backing) = {}

\* An image that is being downloaded is not there.
FreshInv ==
  \A i \in Images : at[i] = "get" /\ kind[i] = "image" => ~Exists(i, "image")

\* Workers that have logged nothing have seen to their files, unless some were
\* removed (_init_image_worker).
WorkInv == ~disturbed => \A i \in Images \ noisy : SeenTo(i)

\* What is true of the pool, the cache and a cleaning between any two steps
CacheInv == TypeOK /\ ControlInv /\ PoolInv /\ KeyringInv /\ CleanInv /\ FreshInv /\ WorkInv

\* When init ends, an image it finished without a word is there and verified,
\* whatever earlier runs left in the cache: only a cleaning meanwhile excuses.
QuietMeansVerified ==
  main = "ended" /\ ~disturbed =>
    \A i \in Images : at[i] = "done" /\ i \notin noisy => Verified(i)

\* No file goes that belongs to an image of the manifest that a cleaning was run
\* with, also one that the image shares with others or that was downloaded in
\* the meantime, nor an image that the cleaning has found to be the backing file
\* of a disk: other backing files may go (backing_files_in_use).  And no image
\* changes under the disks that have it for one, whoever downloads or is killed.
InUseStays ==
  [][/\ \A p \in DOMAIN file \ DOMAIN file' :
          p \notin BackingFiles(backing) /\ \A i \in kept : p \notin FilesOf(i)
     /\ \A p \in DOMAIN file \cap DOMAIN file' :
          p[1] = "image" => file'[p] = file[p]]_file

\* A keyring without a checksum file is of no use.
Sensible(i) == KeyringOf[i] # NoKeyring => i \in Checked

Quiet == \A i \in Images : Sensible(i) => at[i] = "done" /\ i \notin noisy

Apart ==
  \A i, j \in Images :
    at[i] = "get" /\ at[j] = "get" /\ PathOf(i, kind[i]) = PathOf(j, kind[j]) => i = j

\* Nothing that was downloaded is mixed or cut short.
Intact == \A i \in Images, k \in Kinds : Exists(i, k) => file[PathOf(i, k)] # 0

\* A user who repeats init gets every image, verified, whatever was killed or
\* failed or was cleaned before: while the mirror publishes nothing, no two
\* workers ever download the same keyring at once, and no file that was put in
\* place, for good, is mixed or cut short.
Converges ==
  [](current = 1 /\ Apart /\ Intact)
      /\ <>[](candidates = {} /\ doomed = {}) =>
    <>[](main = "ended" => Quiet)
=============================================================================
