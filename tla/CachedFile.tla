------------------------------ MODULE CachedFile ------------------------------
(***************************************************************************)
(* What the image cache takes for granted of a download ("a corrupt or     *)
(* truncated file is never left at the final path", _download_file): a     *)
(* file appears at its path in one step and is then left alone, and it is  *)
(* a whole copy of what the mirror serves unless the download was          *)
(* disturbed.                                                              *)
(***************************************************************************)
EXTENDS Naturals

CONSTANTS
  LastVersion,  \* versions the mirror publishes, in order, are 1..LastVersion
  Absent        \* there is no file at the path

VARIABLES
  current,  \* version the mirror serves
  entry,    \* version at the path, 0 for what is no whole version, or Absent
  steady    \* one version was ever served, nothing interfered with the partial
            \* file, and no body was cut short in silence

promise == <<current, entry, steady>>

Init ==
  /\ current \in 1..LastVersion
  /\ entry = Absent
  /\ steady = (current = 1)

\* What a download may leave at the path
Fetchable == IF steady THEN {current} ELSE 0..current

Fetch ==
  /\ entry = Absent
  /\ entry' \in Fetchable
  /\ UNCHANGED <<current, steady>>

Publish ==
  /\ current < LastVersion
  /\ current' = current + 1
  /\ steady' = FALSE
  /\ UNCHANGED entry

Disturb ==
  /\ steady' = FALSE
  /\ UNCHANGED <<current, entry>>

Next == Fetch \/ Publish \/ Disturb

Spec == Init /\ [][Next]_promise
=============================================================================
