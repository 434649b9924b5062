--------------------------- MODULE MCLvlabMachine ---------------------------
(* Instances of LvlabMachine for model checking. *)
EXTENDS LvlabMachine

\* The live states a guest can be found in, and those destroy forces off.
AnyGuest == {"running", "paused", "idle", "pmsuspended"}
AwakeGuest == {"running", "paused"}

WithoutUp == AllCommands \ {"up"}
UpAndDestroy == {"up", "destroy"}
=============================================================================
