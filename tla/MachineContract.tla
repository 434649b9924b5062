--------------------------- MODULE MachineContract ---------------------------
(***************************************************************************)
(* What lvlab promises of a machine's lifecycle, whatever fails on the     *)
(* way: a machine is deployed only onto storage that is there, it is       *)
(* forgotten only when it is not live, and its storage is touched only     *)
(* while it is not deployed.                                               *)
(***************************************************************************)

VARIABLES
  deployed,  \* the machine is in libvirt
  live,      \* the guest runs
  storage    \* its boot disk: "missing", "new", or "used" by a guest

view == <<deployed, live, storage>>

TypeOK ==
  /\ deployed \in BOOLEAN
  /\ live \in BOOLEAN
  /\ storage \in {"missing", "new", "used"}

Init ==
  \/ deployed = FALSE /\ live = FALSE /\ storage = "missing"
  \/ deployed = TRUE /\ live \in BOOLEAN /\ storage = "used"

\* The only way a disk comes to be; a disk that is there is not replaced.
CreateStorage ==
  /\ ~deployed
  /\ storage = "missing"
  /\ storage' = "new"
  /\ UNCHANGED <<deployed, live>>

\* A new disk becomes the guest's, unless it was not written to the end.
Deploy ==
  /\ ~deployed
  /\ storage # "missing"
  /\ deployed' = TRUE
  /\ live' = TRUE
  /\ storage' \in {storage, "used"}

PowerOn == deployed /\ ~live /\ live' = TRUE /\ UNCHANGED <<deployed, storage>>

PowerOff == deployed /\ live /\ live' = FALSE /\ UNCHANGED <<deployed, storage>>

Forget == deployed /\ ~live /\ deployed' = FALSE /\ UNCHANGED <<live, storage>>

RemoveStorage ==
  /\ ~deployed
  /\ storage # "missing"
  /\ storage' = "missing"
  /\ UNCHANGED <<deployed, live>>

Next ==
  CreateStorage \/ Deploy \/ PowerOn \/ PowerOff \/ Forget \/ RemoveStorage

Spec == Init /\ [][Next]_view
=============================================================================
