------------------------------ MODULE OneoffVm ------------------------------
(***************************************************************************)
(* One standalone machine, its libvirt domain and its directory under the  *)
(* storage root, and the createvm and deletevm commands that processes run *)
(* with its name.  Commands of one kind may overlap, and nothing but the   *)
(* directory and libvirt keeps them apart; a createvm and a deletevm of    *)
(* one name do not.  Any call can fail and a process can be killed         *)
(* anywhere.                                                               *)
(***************************************************************************)
EXTENDS Naturals

CONSTANTS
  Procs,          \* processes that run createvm or deletevm
  SnapshotsRace,  \* whether a snapshot may be taken while a deletevm runs
  MaxFaults       \* bound on failing calls and killed processes

AllCommands == {"createvm", "deletevm"}

ASSUME OneoffAssumption ==
  /\ SnapshotsRace \in BOOLEAN
  /\ MaxFaults \in Nat

VARIABLES
  state,       \* of the domain: "absent", "running" or "shut off"
  persistent,  \* whether the domain has a persistent definition
  snaps,       \* whether it has snapshots
  dir,         \* whether the directory exists
  disk,        \* its disk0.qcow2: "none", "partial", "whole", or a guest's
  pc, cmd, result,
  seen,        \* has_snapshots of each deletevm
  consent,     \* to what its user has agreed, by an option or at a prompt
  faults

domain == <<state, persistent, snaps>>
storage == <<dir, disk>>
answers == <<seen, consent>>
vars == <<state, persistent, snaps, dir, disk, pc, cmd, result, seen, consent,
          faults>>

\* Between its mkdir and its end a createvm is provisioning.
Provisioning == {"render", "copy", "copying", "resize", "install", "installed",
                 "cleanup"}
Deleting == {"exists", "snapshots", "tier 1", "tier 2", "destroy", "undefine",
             "undefine metadata", "rmtree"}
Labels == {"idle", "check dir", "check vm", "image", "mkdir"}
            \cup Provisioning \cup Deleting

TypeOK ==
  /\ state \in {"absent", "running", "shut off"}
  /\ persistent \in BOOLEAN
  /\ snaps \in BOOLEAN
  /\ dir \in BOOLEAN
  /\ disk \in {"none", "partial", "whole", "guest"}
  /\ pc \in [Procs -> Labels]
  /\ cmd \in [Procs -> AllCommands]
  /\ result \in [Procs -> {"none", "ok", "declined", "error", "killed"}]
  /\ seen \in [Procs -> BOOLEAN]
  /\ consent \in [Procs -> {"none", "data", "snapshots"}]
  /\ faults \in 0..MaxFaults

Init ==
  /\ \/ state = "absent" /\ persistent = FALSE /\ snaps = FALSE
        /\ dir = FALSE /\ disk = "none"
     \/ state \in {"running", "shut off"} /\ persistent = TRUE /\ snaps \in BOOLEAN
        /\ dir = TRUE /\ disk = "guest"
  /\ pc = [p \in Procs |-> "idle"]
  /\ cmd = [p \in Procs |-> "createvm"]
  /\ result = [p \in Procs |-> "none"]
  /\ seen = [p \in Procs |-> FALSE]
  /\ consent = [p \in Procs |-> "none"]
  /\ faults = 0

-----------------------------------------------------------------------------
(* Control *)

Fault == faults < MaxFaults /\ faults' = faults + 1
Fine == faults' = faults

At(p, label) == pc[p] = label

Goto(p, label) ==
  /\ pc' = [pc EXCEPT ![p] = label]
  /\ UNCHANGED <<cmd, result>>

Finish(p, r) ==
  /\ pc' = [pc EXCEPT ![p] = "idle"]
  /\ result' = [result EXCEPT ![p] = r]
  /\ UNCHANGED cmd

\* What runs besides a command c is of the same kind.
OnlyBeside(c) == \A q \in Procs : At(q, "idle") \/ cmd[q] = c

\* --force agrees to the loss of the data, --snapshots-too adds the snapshots.
Issue(p, c) ==
  /\ At(p, "idle")
  /\ OnlyBeside(c)
  /\ pc' = [pc EXCEPT ![p] = IF c = "createvm" THEN "check dir" ELSE "exists"]
  /\ cmd' = [cmd EXCEPT ![p] = c]
  /\ result' = [result EXCEPT ![p] = "none"]
  /\ seen' = [seen EXCEPT ![p] = FALSE]
  /\ \E agreed \in {"none", "data", "snapshots"} :
       /\ c = "createvm" => agreed = "none"
       /\ consent' = [consent EXCEPT ![p] = agreed]
  /\ UNCHANGED <<domain, storage, faults>>

Kill(p) ==
  /\ ~At(p, "idle")
  /\ Fault
  /\ Finish(p, "killed")
  /\ UNCHANGED <<domain, storage, answers>>

-----------------------------------------------------------------------------
(* createvm *)

\* _check_vm_preconditions, first half
CheckDir(p) ==
  /\ At(p, "check dir")
  /\ \/ dir /\ Finish(p, "error")
     \/ ~dir /\ Goto(p, "check vm")
  /\ UNCHANGED <<domain, storage, answers, faults>>

\* vm_exists says no when virsh fails.
CheckVm(p) ==
  /\ At(p, "check vm")
  /\ \/ Fine /\ state # "absent" /\ Finish(p, "error")
     \/ Fine /\ state = "absent" /\ Goto(p, "image")
     \/ Fault /\ Goto(p, "image")
  /\ UNCHANGED <<domain, storage, answers>>

\* _ensure_image_available: a download of any length, which may fail
EnsureImage(p) ==
  /\ At(p, "image")
  /\ \/ Fine /\ Goto(p, "mkdir")
     \/ Fault /\ Finish(p, "error")
  /\ UNCHANGED <<domain, storage, answers>>

MkDir_ExistOk(p) ==
  /\ At(p, "mkdir")
  /\ dir' = TRUE
  /\ Goto(p, "render")
  /\ UNCHANGED <<domain, disk, answers, faults>>

\* mkdir(exist_ok=False): of several processes one makes the directory.
MkDir(p) ==
  /\ At(p, "mkdir")
  /\ \/ Fine /\ ~dir /\ dir' = TRUE /\ Goto(p, "render")
     \/ Fine /\ dir /\ UNCHANGED dir /\ Finish(p, "error")
     \/ Fault /\ UNCHANGED dir /\ Finish(p, "error")
  /\ UNCHANGED <<domain, disk, answers>>

\* _render_cloud_init: the documents and the ISO
Render(p) ==
  /\ At(p, "render")
  /\ \/ Fine /\ Goto(p, "copy")
     \/ Fault /\ Goto(p, "cleanup")
  /\ UNCHANGED <<domain, storage, answers>>

\* shutil.copyfile opens the disk ...
Copy(p) ==
  /\ At(p, "copy")
  /\ \/ Fine /\ disk' = "partial" /\ Goto(p, "copying")
     \/ Fault /\ UNCHANGED disk /\ Goto(p, "cleanup")
  /\ UNCHANGED <<domain, dir, answers>>

CopyEnds_IgnoresError(p) ==
  /\ At(p, "copying")
  /\ \/ Fine /\ disk' = "whole"
     \/ Fault /\ UNCHANGED disk
  /\ Goto(p, "resize")
  /\ UNCHANGED <<domain, dir, answers>>

\* ... and writes it.
CopyEnds(p) ==
  /\ At(p, "copying")
  /\ \/ Fine /\ disk' = "whole" /\ Goto(p, "resize")
     \/ Fault /\ UNCHANGED disk /\ Goto(p, "cleanup")
  /\ UNCHANGED <<domain, dir, answers>>

\* qemu-img info, the parse of --disk-size, qemu-img resize.  A size that
\* cannot be parsed is a ValueError, which the caller does not handle.
Resize(p) ==
  /\ At(p, "resize")
  /\ \/ Fine /\ (Goto(p, "install") \/ Finish(p, "error"))
     \/ Fault /\ Goto(p, "cleanup")
  /\ UNCHANGED <<domain, storage, answers>>

\* virt-install defines and starts the domain, unless there is one, ...
Install(p) ==
  /\ At(p, "install")
  /\ \/ /\ Fine /\ state = "absent"
        /\ state' = "running" /\ persistent' = TRUE /\ snaps' = FALSE
        /\ disk' = IF disk = "whole" THEN "guest" ELSE disk
        /\ Goto(p, "installed")
     \/ Fine /\ state # "absent" /\ UNCHANGED <<domain, disk>> /\ Goto(p, "cleanup")
     \/ Fault /\ UNCHANGED <<domain, disk>> /\ Goto(p, "cleanup")
  /\ UNCHANGED <<dir, answers>>

\* ... and may fail after that.
InstallEnds(p) ==
  /\ At(p, "installed")
  /\ \/ Fine /\ Finish(p, "ok")
     \/ Fault /\ Goto(p, "cleanup")
  /\ UNCHANGED <<domain, storage, answers>>

\* shutil.rmtree, which can fail half-way
RemoveTree(p, r) ==
  \/ Fine /\ dir' = FALSE /\ disk' = "none" /\ Finish(p, r)
  \/ Fault /\ UNCHANGED dir /\ disk' \in {disk, "none"} /\ Finish(p, "error")

\* _cleanup_failed_vm_dir
Cleanup(p) ==
  /\ At(p, "cleanup")
  /\ RemoveTree(p, "error")
  /\ UNCHANGED <<domain, answers>>

-----------------------------------------------------------------------------
(* deletevm *)

Exists(p) ==
  /\ At(p, "exists")
  /\ \/ Fine /\ state # "absent" /\ Goto(p, "snapshots")
     \/ Fine /\ state = "absent" /\ Finish(p, "error")
     \/ Fault /\ Finish(p, "error")
  /\ UNCHANGED <<domain, storage, answers>>

\* _domain_has_snapshots, before anything is touched
HasSnapshots(p) ==
  /\ At(p, "snapshots")
  /\ \/ /\ Fine /\ state # "absent"
        /\ seen' = [seen EXCEPT ![p] = snaps]
        /\ Goto(p, "tier 1")
     \/ Fine /\ state = "absent" /\ UNCHANGED seen /\ Finish(p, "error")
     \/ Fault /\ UNCHANGED seen /\ Finish(p, "error")
  /\ UNCHANGED <<domain, storage, consent>>

\* The user is asked unless he has agreed already, and agrees or ends it.
Prompt(p, asked, level, next) ==
  \/ asked /\ consent' = [consent EXCEPT ![p] = level] /\ Goto(p, next)
  \/ asked /\ UNCHANGED consent /\ Finish(p, "declined")
  \/ ~asked /\ UNCHANGED consent /\ Goto(p, next)

Tier1(p) ==
  /\ At(p, "tier 1")
  /\ Prompt(p, consent[p] = "none", "data", "tier 2")
  /\ UNCHANGED <<domain, storage, seen, faults>>

AsksForSnapshots_NotForced(p) == seen[p] /\ consent[p] = "none"
AsksForSnapshots(p) == seen[p] /\ consent[p] # "snapshots"

Tier2(p) ==
  /\ At(p, "tier 2")
  /\ Prompt(p, AsksForSnapshots(p), "snapshots", "destroy")
  /\ UNCHANGED <<domain, storage, seen, faults>>

PowerOff ==
  /\ state = "running"
  /\ state' = IF persistent THEN "shut off" ELSE "absent"
  /\ snaps' = (snaps /\ persistent)
  /\ UNCHANGED persistent

\* virsh destroy: that it fails is ignored, only that it times out is not.
Destroy(p) ==
  /\ At(p, "destroy")
  /\ \/ Fine /\ PowerOff /\ Goto(p, "undefine")
     \/ Fine /\ state # "running" /\ UNCHANGED domain /\ Goto(p, "undefine")
     \/ Fault /\ UNCHANGED domain /\ Goto(p, "undefine")
     \/ Fault /\ UNCHANGED domain /\ Finish(p, "error")
     \/ Fault /\ PowerOff /\ Finish(p, "error")
  /\ UNCHANGED <<storage, answers>>

VirshUndefine ==
  /\ persistent
  /\ persistent' = FALSE
  /\ state' = IF state = "shut off" THEN "absent" ELSE state
  /\ snaps' = (snaps /\ state # "shut off")

\* undefine_with_snapshot_cleanup, its two calls
SnapshotsBlock == state = "shut off" /\ snaps

UndefineCall(p) ==
  \/ Fine /\ VirshUndefine /\ Goto(p, "rmtree")
  \/ Fine /\ ~persistent /\ UNCHANGED domain /\ Finish(p, "error")
  \/ Fault /\ UNCHANGED domain /\ Finish(p, "error")
  \/ Fault /\ VirshUndefine /\ Finish(p, "error")

Undefine_IgnoresError(p) ==
  /\ At(p, "undefine")
  /\ \/ Fine /\ ~SnapshotsBlock /\ VirshUndefine /\ Goto(p, "rmtree")
     \/ Fine /\ (SnapshotsBlock \/ ~persistent) /\ UNCHANGED domain /\ Goto(p, "rmtree")
     \/ Fault /\ UNCHANGED domain /\ Goto(p, "rmtree")
  /\ UNCHANGED <<storage, answers>>

Undefine(p) ==
  /\ At(p, "undefine")
  /\ \/ ~SnapshotsBlock /\ UndefineCall(p)
     \/ SnapshotsBlock /\ Fine /\ UNCHANGED domain /\ Goto(p, "undefine metadata")
     \/ SnapshotsBlock /\ Fault /\ UNCHANGED domain /\ Finish(p, "error")
  /\ UNCHANGED <<storage, answers>>

UndefineMetadata(p) ==
  /\ At(p, "undefine metadata")
  /\ UndefineCall(p)
  /\ UNCHANGED <<storage, answers>>

RmTree(p) ==
  /\ At(p, "rmtree")
  /\ RemoveTree(p, "ok")
  /\ UNCHANGED <<domain, answers>>

-----------------------------------------------------------------------------
(* The guest powers off, and somebody starts it again or takes a snapshot. *)

Guest == PowerOff /\ UNCHANGED <<storage, pc, cmd, result, answers, faults>>

OperatorStarts ==
  /\ state = "shut off"
  /\ disk # "none"
  /\ state' = "running"
  /\ disk' = IF disk = "whole" THEN "guest" ELSE disk
  /\ UNCHANGED <<persistent, snaps, dir, pc, cmd, result, answers, faults>>

OperatorSnapshots ==
  /\ state # "absent"
  /\ SnapshotsRace \/ OnlyBeside("createvm")
  /\ snaps' = TRUE
  /\ UNCHANGED <<state, persistent, storage, pc, cmd, result, answers, faults>>

Create(p) ==
  \/ CheckDir(p) \/ CheckVm(p) \/ EnsureImage(p) \/ MkDir(p) \/ Render(p)
  \/ Copy(p) \/ CopyEnds(p) \/ Resize(p) \/ Install(p) \/ InstallEnds(p)
  \/ Cleanup(p)

Delete(p) ==
  \/ Exists(p) \/ HasSnapshots(p) \/ Tier1(p) \/ Tier2(p) \/ Destroy(p)
  \/ Undefine(p) \/ UndefineMetadata(p) \/ RmTree(p)

Next ==
  \/ Guest \/ OperatorStarts \/ OperatorSnapshots
  \/ \E p \in Procs :
       Create(p) \/ Delete(p) \/ Kill(p) \/ \E c \in AllCommands : Issue(p, c)

Spec == Init /\ [][Next]_vars

-----------------------------------------------------------------------------
(* Properties *)

\* However many processes create the machine, one at a time provisions it,
\* in a directory that is its own (mkdir(exist_ok=False) in createvm).
OneProvisioner ==
  \A p \in Procs : pc[p] \in Provisioning =>
    dir /\ \A q \in Procs \ {p} : pc[q] \notin Provisioning

\* What that process finds of its disk between two of its steps.  A domain
\* that an earlier, failed virt-install left can be started on it.
ProvisionInv(p) ==
  /\ pc[p] \in {"render", "copy"} => disk = "none"
  /\ pc[p] = "copying" => disk = "partial"
  /\ pc[p] \in {"resize", "install"} =>
       disk = "whole" \/ (disk = "guest" /\ persistent)

\* No createvm runs beside a deletevm, which has seen what snapshots there
\* are, has the user's consent to lose them, and has undefined the machine
\* when it removes the files.
DeleteInv(p) ==
  /\ pc[p] # "idle" => OnlyBeside(cmd[p])
  /\ pc[p] # "idle" => (cmd[p] = "deletevm" <=> pc[p] \in Deleting)
  /\ pc[p] \in Deleting \ {"exists", "snapshots"} /\ snaps /\ ~SnapshotsRace => seen[p]
  /\ pc[p] \in {"destroy", "undefine", "undefine metadata"} /\ seen[p] =>
       consent[p] = "snapshots"
  /\ pc[p] = "rmtree" => ~persistent

OneoffInv ==
  /\ TypeOK
  /\ persistent => state # "absent"
  /\ state = "shut off" => persistent
  /\ disk # "none" => dir
  /\ OneProvisioner
  /\ \A p \in Procs : ProvisionInv(p) /\ DeleteInv(p)

\* virt-install never imports a disk that was not copied to its end.
BootsWhole ==
  [][state = "absent" /\ state' = "running" => disk = "whole"]_vars

\* A disk a guest has used is removed only after an undefine that was carried
\* out, or by the createvm that made it.
StorageKept ==
  [][disk = "guest" /\ disk' = "none" =>
       ~persistent \/ \E p \in Procs : At(p, "cleanup")]_vars

\* Snapshots go with the definition only if the user agreed to lose them:
\* "`--force` by itself does not consent to it" (deletevm).  This holds as
\* long as no snapshot is taken after deletevm has looked for them.
ConsentKept ==
  [][\A p \in Procs :
       /\ pc[p] \in {"undefine", "undefine metadata"}
       /\ persistent /\ ~persistent' /\ snaps /\ ~snaps'
       => consent[p] = "snapshots"]_vars

=============================================================================
