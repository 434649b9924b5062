---------------------------- MODULE MCImageCache ----------------------------
(* Instances of ImageCache for model checking. *)
EXTENDS ImageCache

CONSTANTS a, b, k

\* Two images that share a keyring
SharedKeyring == [i \in Images |-> k]

\* One environment whose disks have the second image for a backing file, and
\* another, without disks, that has it commented out
Environments ==
  {[images |-> {a}, comments |-> {}, disks |-> {b}],
   [images |-> {a}, comments |-> {b}, disks |-> {}]}
=============================================================================
