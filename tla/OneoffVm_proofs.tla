-------------------------- MODULE OneoffVm_proofs ---------------------------
(***************************************************************************)
(* Safety of a standalone machine: proved for any number of processes that *)
(* create it or delete it, failing calls and killed processes.             *)
(***************************************************************************)
EXTENDS OneoffVm, TLAPS

CreateLabels == {"check dir", "check vm", "image", "mkdir"} \cup Provisioning

WorldInv ==
  /\ persistent => state # "absent"
  /\ state = "shut off" => persistent
  /\ disk # "none" => dir

\* What a process and its command rely on, of one process.
ProcInv(p) == ProvisionInv(p) /\ DeleteInv(p)

LEMMA Parts ==
  OneoffInv <=> TypeOK /\ WorldInv /\ OneProvisioner /\ \A p \in Procs : ProcInv(p)
  BY DEF OneoffInv, WorldInv, ProcInv

LEMMA PartsNext ==
  OneoffInv' <=> TypeOK' /\ WorldInv' /\ OneProvisioner' /\ \A p \in Procs : ProcInv(p)'
  BY DEF OneoffInv, WorldInv, ProcInv

LEMMA FaultCount ==
  ASSUME faults \in 0..MaxFaults, Fine \/ Fault
  PROVE  faults' \in 0..MaxFaults
  BY OneoffAssumption DEF Fine, Fault

LEMMA Moved ==
  ASSUME TypeOK, NEW p \in Procs, NEW l \in Labels, Goto(p, l)
  PROVE  /\ pc' \in [Procs -> Labels]
         /\ pc'[p] = l
         /\ \A q \in Procs \ {p} : pc'[q] = pc[q]
         /\ cmd' = cmd
         /\ result' = result
  BY DEF TypeOK, Goto

LEMMA Stopped ==
  ASSUME TypeOK, NEW p \in Procs, NEW r, Finish(p, r),
         r \in {"ok", "declined", "error", "killed"}
  PROVE  /\ pc' \in [Procs -> Labels]
         /\ pc'[p] = "idle"
         /\ \A q \in Procs \ {p} : pc'[q] = pc[q]
         /\ cmd' = cmd
         /\ result' \in [Procs -> {"none", "ok", "declined", "error", "killed"}]
  BY DEF TypeOK, Finish, Labels

\* While one process creates, none deletes, and the other way round.
LEMMA NoDeleter ==
  ASSUME OneoffInv, NEW p \in Procs, pc[p] \in CreateLabels, NEW q \in Procs
  PROVE  pc[q] \notin Deleting
  BY DEF OneoffInv, DeleteInv, TypeOK, OnlyBeside, At, CreateLabels, Provisioning,
         Deleting, AllCommands

LEMMA NoCreator ==
  ASSUME OneoffInv, NEW p \in Procs, pc[p] \in Deleting, NEW q \in Procs
  PROVE  pc[q] \notin CreateLabels
  BY DEF OneoffInv, DeleteInv, TypeOK, OnlyBeside, At, CreateLabels, Provisioning,
         Deleting, AllCommands

LEMMA InitInv == Init => OneoffInv
<1> SUFFICES ASSUME Init PROVE OneoffInv
  OBVIOUS
<1>1. TypeOK
  <2>1. /\ state \in {"absent", "running", "shut off"}
        /\ persistent \in BOOLEAN /\ snaps \in BOOLEAN /\ dir \in BOOLEAN
        /\ disk \in {"none", "partial", "whole", "guest"}
    BY DEF Init
  <2>2. /\ pc \in [Procs -> Labels]
        /\ cmd \in [Procs -> AllCommands]
        /\ result \in [Procs -> {"none", "ok", "declined", "error", "killed"}]
        /\ seen \in [Procs -> BOOLEAN]
        /\ consent \in [Procs -> {"none", "data", "snapshots"}]
    BY DEF Init, Labels, AllCommands
  <2>3. faults = 0 /\ MaxFaults \in Nat
    BY OneoffAssumption DEF Init
  <2>4. faults \in 0..MaxFaults
    BY <2>3
  <2> QED
    BY <2>1, <2>2, <2>4 DEF TypeOK
<1>2. \A p \in Procs : pc[p] = "idle"
  BY DEF Init
<1>3. WorldInv
  BY DEF Init, WorldInv
<1> QED
  BY <1>1, <1>2, <1>3, Parts
  DEF OneProvisioner, ProcInv, ProvisionInv, DeleteInv, Provisioning, Deleting

-----------------------------------------------------------------------------
(* createvm *)

\* A process that stays in createvm, or ends, and whose machine is as the
\* label it arrives at relies on.
LEMMA CreateStep ==
  ASSUME OneoffInv, NEW p \in Procs, pc[p] \in CreateLabels,
         TypeOK', WorldInv',
         \A q \in Procs \ {p} : pc'[q] = pc[q],
         cmd' = cmd, UNCHANGED answers,
         snaps' => snaps,
         persistent => persistent',
         pc'[p] \in CreateLabels \cup {"idle"},
         pc'[p] \in Provisioning => pc[p] \in Provisioning \/ ~dir,
         pc'[p] \in Provisioning => dir',
         disk' # disk \/ dir' # dir => pc[p] \in Provisioning \/ ~dir,
         ProvisionInv(p)'
  PROVE  OneoffInv'
<1>1. OneProvisioner'
  BY DEF OneoffInv, OneProvisioner
<1>2. ASSUME NEW q \in Procs PROVE ProcInv(q)'
  <2>1. pc[q] \notin Deleting /\ pc'[q] \notin Deleting
    BY NoDeleter DEF CreateLabels, Deleting, Provisioning
  <2>2. ProvisionInv(q)'
    <3>1. CASE q = p
      BY <3>1
    <3>2. CASE q # p /\ pc[q] \in Provisioning
      <4>1. pc[p] \notin Provisioning /\ dir
        BY <3>2 DEF OneoffInv, OneProvisioner
      <4>2. disk' = disk
        BY <4>1
      <4> QED
        BY <3>2, <4>2 DEF OneoffInv, ProvisionInv, TypeOK
    <3>3. CASE q # p /\ pc[q] \notin Provisioning
      BY <3>3 DEF ProvisionInv, Provisioning
    <3> QED
      BY <3>1, <3>2, <3>3
  <2>3. DeleteInv(q)'
    <3>1. \A r \in Procs : pc'[r] # "idle" => pc[r] # "idle"
      BY DEF CreateLabels, Provisioning
    <3>2. pc'[q] # "idle" => OnlyBeside(cmd[q])'
      BY <3>1 DEF OneoffInv, DeleteInv, OnlyBeside, At
    <3>3. pc'[q] # "idle" => cmd'[q] # "deletevm"
      BY <2>1, <3>1 DEF OneoffInv, DeleteInv
    <3> QED
      BY <2>1, <3>2, <3>3 DEF DeleteInv, Deleting
  <2> QED
    BY <2>2, <2>3 DEF ProcInv
<1> QED
  BY <1>1, <1>2, PartsNext

LEMMA CreateInv ==
  ASSUME OneoffInv, NEW p \in Procs, Create(p)
  PROVE  OneoffInv'
<1>1. TypeOK /\ WorldInv /\ ProvisionInv(p)
  BY Parts DEF ProcInv
<1>2. faults' \in 0..MaxFaults
  BY <1>1, FaultCount
  DEF TypeOK, Create, CheckDir, CheckVm, EnsureImage, MkDir, Render, Copy, CopyEnds,
      Resize, Install, InstallEnds, Cleanup, RemoveTree, Fine
<1> USE DEF CreateLabels, Provisioning
\* Steps that change neither the machine nor its files
<1>3. ASSUME pc[p] \in CreateLabels, UNCHANGED <<domain, storage, answers>>,
             NEW l \in {"check vm", "image", "mkdir"} \cup (Provisioning \ {"render", "copying"}),
             Goto(p, l),
             l = "copy" => pc[p] = "render",
             l = "resize" => pc[p] = "copying",
             l = "install" => pc[p] = "resize",
             l \in Provisioning => pc[p] \in Provisioning,
             l # "resize"
      PROVE  OneoffInv'
  <2>1. /\ pc' \in [Procs -> Labels] /\ pc'[p] = l /\ cmd' = cmd /\ result' = result
        /\ \A q \in Procs \ {p} : pc'[q] = pc[q]
    BY <1>1, <1>3, Moved DEF Labels
  <2>2. TypeOK'
    BY <1>1, <1>2, <1>3, <2>1 DEF TypeOK, domain, storage, answers
  <2>3. WorldInv'
    BY <1>1, <1>3 DEF WorldInv, domain, storage
  <2>4. ProvisionInv(p)'
    BY <1>1, <1>3, <2>1 DEF ProvisionInv, domain, storage
  <2>5. l \in Provisioning => dir
    BY <1>3 DEF OneoffInv, OneProvisioner
  <2> QED
    BY <1>3, <2>1, <2>2, <2>3, <2>4, <2>5, CreateStep DEF domain, storage
<1>4. ASSUME pc[p] \in CreateLabels, UNCHANGED <<domain, storage, answers>>,
             NEW r \in {"ok", "error"}, Finish(p, r)
      PROVE  OneoffInv'
  <2>1. /\ pc' \in [Procs -> Labels] /\ pc'[p] = "idle" /\ cmd' = cmd
        /\ result' \in [Procs -> {"none", "ok", "declined", "error", "killed"}]
        /\ \A q \in Procs \ {p} : pc'[q] = pc[q]
    BY <1>1, <1>4, Stopped
  <2>2. TypeOK'
    BY <1>1, <1>2, <1>4, <2>1 DEF TypeOK, domain, storage, answers
  <2>3. WorldInv' /\ ProvisionInv(p)'
    BY <1>1, <1>4, <2>1 DEF WorldInv, ProvisionInv, domain, storage
  <2> QED
    BY <1>4, <2>1, <2>2, <2>3, CreateStep DEF domain, storage
<1>5. CASE CheckDir(p) \/ CheckVm(p) \/ EnsureImage(p)
  BY <1>3, <1>4, <1>5 DEF CheckDir, CheckVm, EnsureImage, At
<1>6. CASE Render(p) \/ Resize(p) \/ InstallEnds(p)
  BY <1>3, <1>4, <1>6 DEF Render, Resize, InstallEnds, At
<1>7. CASE MkDir(p)
  <2>1. CASE UNCHANGED dir
    BY <1>4, <1>7, <2>1 DEF MkDir, At, storage
  <2>2. CASE ~dir /\ dir' = TRUE /\ Goto(p, "render")
    <3>1. /\ pc' \in [Procs -> Labels] /\ pc'[p] = "render" /\ cmd' = cmd
          /\ result' = result /\ \A q \in Procs \ {p} : pc'[q] = pc[q]
      BY <1>1, <2>2, Moved DEF Labels
    <3>2. UNCHANGED domain /\ UNCHANGED disk /\ UNCHANGED answers /\ disk = "none"
      BY <1>1, <1>7, <2>2 DEF MkDir, WorldInv
    <3>3. TypeOK' /\ WorldInv' /\ ProvisionInv(p)'
      BY <1>1, <1>2, <2>2, <3>1, <3>2
      DEF TypeOK, WorldInv, ProvisionInv, domain, answers
    <3>4. pc[p] \in CreateLabels /\ dir' /\ (snaps' => snaps) /\ (persistent => persistent')
      BY <1>7, <2>2, <3>2 DEF MkDir, At, domain
    <3> QED
      BY <2>2, <3>1, <3>2, <3>3, <3>4, CreateStep
  <2> QED
    BY <1>7, <2>1, <2>2 DEF MkDir
<1>8. ASSUME pc[p] \in Provisioning, UNCHANGED <<dir, answers>>,
             NEW l \in {"copying", "resize", "installed", "cleanup"}, Goto(p, l),
             disk' \in {"partial", "whole", "guest", disk},
             l = "copying" => disk' = "partial",
             l = "resize" => disk' = "whole",
             \/ UNCHANGED domain
             \/ state' = "running" /\ persistent' = TRUE /\ snaps' = FALSE
      PROVE  OneoffInv'
  <2>1. /\ pc' \in [Procs -> Labels] /\ pc'[p] = l /\ cmd' = cmd /\ result' = result
        /\ \A q \in Procs \ {p} : pc'[q] = pc[q]
    BY <1>1, <1>8, Moved DEF Labels
  <2>2. dir
    BY <1>8 DEF OneoffInv, OneProvisioner
  <2>3. TypeOK'
    BY <1>1, <1>2, <1>8, <2>1 DEF TypeOK, domain, answers
  <2>4. WorldInv'
    <3>1. dir'
      BY <1>8, <2>2
    <3>2. CASE UNCHANGED domain
      BY <1>1, <3>1, <3>2 DEF WorldInv, domain
    <3>3. CASE state' = "running"
      BY <3>1, <3>3 DEF WorldInv
    <3> QED
      BY <1>8, <3>2, <3>3
  <2>6. ProvisionInv(p)'
    BY <1>8, <2>1 DEF ProvisionInv
  <2>5. (snaps' => snaps) /\ (persistent => persistent')
    BY <1>8 DEF domain
  <2> QED
    BY <1>8, <2>1, <2>2, <2>3, <2>4, <2>5, <2>6, CreateStep
<1>9. CASE Copy(p) \/ CopyEnds(p)
  BY <1>8, <1>9 DEF Copy, CopyEnds, At
<1>10. CASE Install(p)
  <2>1. disk' \in {disk, "guest"}
    BY <1>10 DEF Install
  <2> QED
    BY <1>8, <1>10, <2>1 DEF Install, At
<1>11. CASE Cleanup(p)
  <2>1. /\ pc' \in [Procs -> Labels] /\ pc'[p] = "idle" /\ cmd' = cmd
        /\ result' \in [Procs -> {"none", "ok", "declined", "error", "killed"}]
        /\ \A q \in Procs \ {p} : pc'[q] = pc[q]
    BY <1>1, <1>11, Stopped DEF Cleanup, RemoveTree
  <2>2. \/ dir' = FALSE /\ disk' = "none"
        \/ dir' = dir /\ disk' \in {disk, "none"}
    BY <1>11 DEF Cleanup, RemoveTree
  <2>3. UNCHANGED domain /\ UNCHANGED answers /\ pc[p] = "cleanup"
    BY <1>11 DEF Cleanup, At
  <2>4. TypeOK' /\ WorldInv' /\ ProvisionInv(p)'
    BY <1>1, <1>2, <2>1, <2>2, <2>3
    DEF TypeOK, WorldInv, ProvisionInv, domain, answers
  <2> QED
    BY <2>1, <2>3, <2>4, CreateStep DEF domain
<1> QED
  BY <1>5, <1>6, <1>7, <1>9, <1>10, <1>11 DEF Create

-----------------------------------------------------------------------------
(* deletevm *)

\* A process that stays in deletevm, or ends, and has what the label it
\* arrives at relies on.
LEMMA DeleteStep ==
  ASSUME OneoffInv, NEW p \in Procs, pc[p] \in Deleting,
         TypeOK', WorldInv',
         \A q \in Procs \ {p} : pc'[q] = pc[q] /\ seen'[q] = seen[q]
                                               /\ consent'[q] = consent[q],
         cmd' = cmd,
         snaps' => snaps,
         persistent' => persistent,
         pc'[p] \in Deleting \cup {"idle"},
         /\ pc'[p] \in Deleting \ {"exists", "snapshots"} /\ snaps' /\ ~SnapshotsRace
              => seen'[p]
         /\ pc'[p] \in {"destroy", "undefine", "undefine metadata"} /\ seen'[p] =>
              consent'[p] = "snapshots"
         /\ pc'[p] = "rmtree" => ~persistent'
  PROVE  OneoffInv'
<1>1. \A q \in Procs : pc[q] \notin CreateLabels /\ pc'[q] \notin CreateLabels
  BY NoCreator DEF CreateLabels, Deleting, Provisioning
<1>2. OneProvisioner' /\ \A q \in Procs : ProvisionInv(q)'
  BY <1>1 DEF OneProvisioner, ProvisionInv, CreateLabels, Provisioning
<1>3. ASSUME NEW q \in Procs PROVE DeleteInv(q)'
  <2>1. \A r \in Procs : pc'[r] # "idle" => pc[r] # "idle"
    BY DEF Deleting
  <2>2. pc'[q] # "idle" => OnlyBeside(cmd[q])'
    BY <2>1 DEF OneoffInv, DeleteInv, OnlyBeside, At
  <2>3. pc'[q] # "idle" => cmd'[q] = "deletevm" /\ pc'[q] \in Deleting
    BY <1>1, <2>1 DEF OneoffInv, DeleteInv, TypeOK, Labels, CreateLabels
  <2>4. CASE q = p
    BY <2>2, <2>3, <2>4 DEF DeleteInv, Deleting
  <2>5. CASE q # p
    BY <2>2, <2>3, <2>5 DEF OneoffInv, DeleteInv, Deleting
  <2> QED
    BY <2>4, <2>5
<1> QED
  BY <1>2, <1>3, PartsNext DEF ProcInv

\* A step of deletevm that decides something and touches nothing
LEMMA DecideInv ==
  ASSUME OneoffInv, NEW p \in Procs,
         Exists(p) \/ HasSnapshots(p) \/ Tier1(p) \/ Tier2(p)
  PROVE  OneoffInv'
<1> USE DEF Deleting
<1>1. TypeOK /\ WorldInv /\ DeleteInv(p)
  BY Parts DEF ProcInv
<1>2. UNCHANGED <<domain, storage>> /\ pc[p] \in {"exists", "snapshots", "tier 1", "tier 2"}
  BY DEF Exists, HasSnapshots, Tier1, Tier2, At
<1>3. faults' \in 0..MaxFaults
  BY <1>1, FaultCount
  DEF TypeOK, Exists, HasSnapshots, Tier1, Tier2, Fine
<1>4. \/ \E l \in {"snapshots", "tier 1", "tier 2", "destroy"} : Goto(p, l)
      \/ \E r \in {"declined", "error"} : Finish(p, r)
  BY DEF Exists, HasSnapshots, Tier1, Tier2, Prompt
<1>5. /\ pc' \in [Procs -> Labels] /\ cmd' = cmd
      /\ pc'[p] \in {"snapshots", "tier 1", "tier 2", "destroy", "idle"}
      /\ result' \in [Procs -> {"none", "ok", "declined", "error", "killed"}]
      /\ \A q \in Procs \ {p} : pc'[q] = pc[q]
  <2>1. ASSUME NEW l \in {"snapshots", "tier 1", "tier 2", "destroy"}, Goto(p, l)
        PROVE  <1>5!:
    BY <1>1, <2>1, Moved DEF Labels, TypeOK
  <2>2. ASSUME NEW r \in {"declined", "error"}, Finish(p, r)
        PROVE  <1>5!:
    BY <1>1, <2>2, Stopped
  <2> QED
    BY <1>4, <2>1, <2>2
<1>6. /\ seen' \in [Procs -> BOOLEAN]
      /\ consent' \in [Procs -> {"none", "data", "snapshots"}]
      /\ \A q \in Procs \ {p} : seen'[q] = seen[q] /\ consent'[q] = consent[q]
  BY <1>1 DEF TypeOK, Exists, HasSnapshots, Tier1, Tier2, Prompt, answers
<1>7. TypeOK' /\ WorldInv'
  BY <1>1, <1>2, <1>3, <1>5, <1>6 DEF TypeOK, WorldInv, domain, storage
<1>8. /\ pc'[p] \in Deleting \ {"exists", "snapshots"} /\ snaps' /\ ~SnapshotsRace
           => seen'[p]
      /\ pc'[p] = "destroy" /\ seen'[p] => consent'[p] = "snapshots"
  <2>1. CASE Exists(p)
    BY <1>1, <2>1 DEF Exists, Goto, Finish, TypeOK
  <2>2. CASE HasSnapshots(p)
    BY <1>1, <2>2 DEF HasSnapshots, Goto, Finish, TypeOK, domain
  <2>3. CASE Tier1(p)
    BY <1>1, <2>3 DEF Tier1, Prompt, Goto, Finish, TypeOK, DeleteInv, At, domain
  <2>4. CASE Tier2(p)
    BY <1>1, <2>4
    DEF Tier2, Prompt, AsksForSnapshots, Goto, Finish, TypeOK, DeleteInv, At, domain
  <2> QED
    BY <2>1, <2>2, <2>3, <2>4
<1>9. snaps' = snaps /\ persistent' = persistent
  BY <1>2 DEF domain
<1> QED
  BY <1>2, <1>5, <1>6, <1>7, <1>8, <1>9, DeleteStep

\* What power-off and undefine do to the machine
LEMMA PowerOffWorld ==
  ASSUME OneoffInv, PowerOff, UNCHANGED storage
  PROVE  /\ WorldInv'
         /\ state' \in {"absent", "running", "shut off"}
         /\ snaps' \in BOOLEAN
         /\ persistent' = persistent
         /\ snaps' => snaps
<1>1. CASE persistent
  BY <1>1, Parts DEF PowerOff, WorldInv, TypeOK, storage
<1>2. CASE ~persistent
  BY <1>2, Parts DEF PowerOff, WorldInv, TypeOK, storage
<1> QED
  BY <1>1, <1>2

LEMMA UndefineWorld ==
  ASSUME OneoffInv, VirshUndefine, UNCHANGED storage
  PROVE  /\ WorldInv'
         /\ state' \in {"absent", "running", "shut off"}
         /\ snaps' \in BOOLEAN
         /\ persistent' = FALSE
         /\ snaps' => snaps
<1>1. CASE state = "shut off"
  BY <1>1, Parts DEF VirshUndefine, WorldInv, TypeOK, storage
<1>2. CASE state # "shut off"
  BY <1>2, Parts DEF VirshUndefine, WorldInv, TypeOK, storage
<1> QED
  BY <1>1, <1>2

\* Where a step of deletevm that calls virsh or removes files leads
LEMMA DeleteMoves ==
  ASSUME OneoffInv, NEW p \in Procs,
         Destroy(p) \/ Undefine(p) \/ UndefineMetadata(p) \/ RmTree(p)
  PROVE  /\ pc' \in [Procs -> Labels] /\ cmd' = cmd
         /\ pc'[p] \in {"undefine", "undefine metadata", "rmtree", "idle"}
         /\ result' \in [Procs -> {"none", "ok", "declined", "error", "killed"}]
         /\ \A q \in Procs \ {p} : pc'[q] = pc[q]
<1> DEFINE Led ==
      /\ pc' \in [Procs -> Labels] /\ cmd' = cmd
      /\ pc'[p] \in {"undefine", "undefine metadata", "rmtree", "idle"}
      /\ result' \in [Procs -> {"none", "ok", "declined", "error", "killed"}]
      /\ \A q \in Procs \ {p} : pc'[q] = pc[q]
<1>1. TypeOK
  BY Parts
<1>2. \/ \E l \in {"undefine", "undefine metadata", "rmtree"} : Goto(p, l)
      \/ \E r \in {"ok", "error"} : Finish(p, r)
  BY DEF Destroy, Undefine, UndefineMetadata, UndefineCall, RmTree, RemoveTree
<1>3. ASSUME NEW l \in {"undefine", "undefine metadata", "rmtree"}, Goto(p, l)
      PROVE  Led
  BY <1>1, <1>3, Moved DEF Labels, Deleting, TypeOK
<1>4. ASSUME NEW r \in {"ok", "error"}, Finish(p, r)
      PROVE  Led
  BY <1>1, <1>4, Stopped
<1> QED
  BY <1>2, <1>3, <1>4

LEMMA RemoveInv ==
  ASSUME OneoffInv, NEW p \in Procs,
         Destroy(p) \/ Undefine(p) \/ UndefineMetadata(p) \/ RmTree(p)
  PROVE  OneoffInv'
<1> USE DEF Deleting
<1>1. TypeOK /\ WorldInv /\ DeleteInv(p)
  BY Parts DEF ProcInv
<1>2. faults' \in 0..MaxFaults
  BY <1>1, FaultCount
  DEF TypeOK, Destroy, Undefine, UndefineMetadata, UndefineCall, RmTree, RemoveTree, Fine
<1>3. /\ pc' \in [Procs -> Labels] /\ cmd' = cmd
      /\ pc'[p] \in {"undefine", "undefine metadata", "rmtree", "idle"}
      /\ result' \in [Procs -> {"none", "ok", "declined", "error", "killed"}]
      /\ \A q \in Procs \ {p} : pc'[q] = pc[q]
  BY DeleteMoves
<1>4. UNCHANGED answers
  BY DEF Destroy, Undefine, UndefineMetadata, RmTree
<1>5. pc[p] \in {"destroy", "undefine", "undefine metadata", "rmtree"}
  BY DEF Destroy, Undefine, UndefineMetadata, RmTree, At
<1>6. /\ TypeOK' /\ WorldInv'
      /\ snaps' => snaps
      /\ persistent' => persistent
      /\ pc'[p] = "rmtree" => ~persistent'
  <2>1. CASE Destroy(p)
    <3>1. UNCHANGED storage /\ pc'[p] # "rmtree"
      BY <1>1, <2>1 DEF Destroy, Goto, Finish, TypeOK
    <3>2. CASE UNCHANGED domain
      BY <1>1, <1>2, <1>3, <1>4, <3>1, <3>2
      DEF TypeOK, WorldInv, domain, storage, answers
    <3>3. CASE PowerOff
      <4>1. /\ WorldInv' /\ state' \in {"absent", "running", "shut off"}
            /\ snaps' \in BOOLEAN /\ persistent' = persistent /\ (snaps' => snaps)
        BY <3>1, <3>3, PowerOffWorld
      <4> QED
        BY <1>1, <1>2, <1>3, <1>4, <3>1, <4>1 DEF TypeOK, storage, answers
    <3> QED
      BY <2>1, <3>2, <3>3 DEF Destroy
  <2>2. CASE Undefine(p) \/ UndefineMetadata(p)
    <3>1. /\ UNCHANGED storage
          /\ VirshUndefine \/ (UNCHANGED domain /\ pc'[p] # "rmtree")
      <4>1. UNCHANGED storage
        BY <2>2 DEF Undefine, UndefineMetadata
      <4>2. \/ VirshUndefine
            \/ UNCHANGED domain /\ Finish(p, "error")
            \/ UNCHANGED domain /\ Goto(p, "undefine metadata")
        BY <2>2 DEF Undefine, UndefineMetadata, UndefineCall
      <4>3. Finish(p, "error") \/ Goto(p, "undefine metadata") => pc'[p] # "rmtree"
        BY <1>1 DEF Goto, Finish, TypeOK
      <4> QED
        BY <4>1, <4>2, <4>3
    <3>2. CASE UNCHANGED domain /\ pc'[p] # "rmtree"
      BY <1>1, <1>2, <1>3, <1>4, <3>1, <3>2
      DEF TypeOK, WorldInv, domain, storage, answers
    <3>3. CASE VirshUndefine
      <4>1. /\ WorldInv' /\ state' \in {"absent", "running", "shut off"}
            /\ snaps' \in BOOLEAN /\ persistent' = FALSE /\ (snaps' => snaps)
        BY <3>1, <3>3, UndefineWorld
      <4> QED
        BY <1>1, <1>2, <1>3, <1>4, <3>1, <4>1 DEF TypeOK, storage, answers
    <3> QED
      BY <3>1, <3>2, <3>3
  <2>3. CASE RmTree(p)
    <3>1. /\ UNCHANGED domain /\ pc'[p] # "rmtree"
          /\ \/ dir' = FALSE /\ disk' = "none"
             \/ dir' = dir /\ disk' \in {disk, "none"}
      BY <1>1, <2>3 DEF RmTree, RemoveTree, Finish, TypeOK
    <3>2. TypeOK'
      BY <1>1, <1>2, <1>3, <1>4, <3>1 DEF TypeOK, domain, answers
    <3>3. state' = state /\ snaps' = snaps /\ persistent' = persistent
      BY <3>1 DEF domain
    <3>4. disk' # "none" => dir'
      <4> SUFFICES ASSUME disk' # "none" PROVE dir'
        OBVIOUS
      <4>1. disk # "none" /\ dir' = dir
        BY <3>1
      <4> QED
        BY <1>1, <4>1 DEF WorldInv
    <3>5. WorldInv'
      BY <1>1, <3>3, <3>4 DEF WorldInv
    <3> QED
      BY <3>1, <3>2, <3>3, <3>5
  <2> QED
    BY <2>1, <2>2, <2>3
<1>7. /\ snaps /\ ~SnapshotsRace => seen[p]
      /\ pc[p] # "rmtree" /\ seen[p] => consent[p] = "snapshots"
      /\ pc[p] = "rmtree" => pc'[p] = "idle"
  BY <1>1, <1>5
  DEF DeleteInv, Destroy, Undefine, UndefineMetadata, RmTree, RemoveTree, Finish,
      TypeOK, At
<1>8. seen' = seen /\ consent' = consent
  BY <1>4 DEF answers
<1> QED
  BY <1>3, <1>5, <1>6, <1>7, <1>8, DeleteStep

-----------------------------------------------------------------------------
(* Users, kills and guests *)

\* The process that starts or stops is idle on one side of the step.
LEMMA IssueInv ==
  ASSUME OneoffInv, NEW p \in Procs, NEW c \in AllCommands, Issue(p, c)
  PROVE  OneoffInv'
<1> DEFINE l == IF c = "createvm" THEN "check dir" ELSE "exists"
<1>1. TypeOK /\ WorldInv
  BY Parts
<1>2. /\ pc' \in [Procs -> Labels] /\ pc'[p] = l
      /\ cmd' \in [Procs -> AllCommands] /\ cmd'[p] = c
      /\ \A q \in Procs \ {p} : pc'[q] = pc[q] /\ cmd'[q] = cmd[q]
                               /\ seen'[q] = seen[q] /\ consent'[q] = consent[q]
  BY <1>1 DEF Issue, TypeOK, Labels, Deleting
<1>3. /\ result' \in [Procs -> {"none", "ok", "declined", "error", "killed"}]
      /\ seen' \in [Procs -> BOOLEAN]
      /\ consent' \in [Procs -> {"none", "data", "snapshots"}]
  BY <1>1 DEF Issue, TypeOK
<1>4. UNCHANGED <<domain, storage, faults>>
  BY DEF Issue
<1>5. TypeOK' /\ WorldInv'
  BY <1>1, <1>2, <1>3, <1>4 DEF TypeOK, WorldInv, domain, storage
<1>6. OneProvisioner'
  BY <1>2, <1>4 DEF OneoffInv, OneProvisioner, Provisioning, storage
<1>7. ASSUME NEW q \in Procs PROVE ProcInv(q)'
  <2>1. pc[p] = "idle" /\ OnlyBeside(c)
    BY DEF Issue, At
  <2>2. OnlyBeside(c)'
    BY <1>2, <2>1 DEF OnlyBeside, At
  <2>3. CASE q = p
    BY <1>2, <2>2, <2>3
    DEF ProcInv, ProvisionInv, DeleteInv, Deleting, AllCommands
  <2>4. CASE q # p
    <3>1. pc[q] # "idle" => cmd[q] = c
      BY <2>1 DEF OnlyBeside, At
    <3>2. ProvisionInv(q)'
      BY <1>2, <1>4, <2>4 DEF OneoffInv, ProvisionInv, domain, storage
    <3>3. DeleteInv(q)'
      BY <1>2, <1>4, <2>2, <2>4, <3>1 DEF OneoffInv, DeleteInv, domain
    <3> QED
      BY <3>2, <3>3 DEF ProcInv
  <2> QED
    BY <2>3, <2>4
<1> QED
  BY <1>5, <1>6, <1>7, PartsNext

LEMMA KillInv ==
  ASSUME OneoffInv, NEW p \in Procs, Kill(p)
  PROVE  OneoffInv'
<1>1. TypeOK /\ WorldInv
  BY Parts
<1>2. /\ pc' \in [Procs -> Labels] /\ pc'[p] = "idle" /\ cmd' = cmd
      /\ result' \in [Procs -> {"none", "ok", "declined", "error", "killed"}]
      /\ \A q \in Procs \ {p} : pc'[q] = pc[q]
  BY <1>1, Stopped DEF Kill
<1>3. UNCHANGED <<domain, storage, answers>> /\ faults' \in 0..MaxFaults
  BY <1>1, FaultCount DEF Kill, TypeOK
<1>4. TypeOK' /\ WorldInv'
  BY <1>1, <1>2, <1>3 DEF TypeOK, WorldInv, domain, storage, answers
<1>5. OneProvisioner'
  BY <1>2, <1>3 DEF OneoffInv, OneProvisioner, Provisioning, storage
<1>6. ASSUME NEW q \in Procs PROVE ProcInv(q)'
  <2>1. CASE q = p
    BY <1>2, <2>1 DEF ProcInv, ProvisionInv, DeleteInv, Deleting
  <2>2. CASE q # p
    <3>1. ProvisionInv(q)'
      BY <1>2, <1>3, <2>2 DEF OneoffInv, ProvisionInv, domain, storage
    <3>2. DeleteInv(q)'
      BY <1>2, <1>3, <2>2 DEF OneoffInv, DeleteInv, OnlyBeside, At, domain, answers
    <3> QED
      BY <3>1, <3>2 DEF ProcInv
  <2> QED
    BY <2>1, <2>2
<1> QED
  BY <1>4, <1>5, <1>6, PartsNext

LEMMA GuestInv ==
  ASSUME OneoffInv, Guest \/ OperatorStarts \/ OperatorSnapshots
  PROVE  OneoffInv'
<1>1. TypeOK /\ WorldInv
  BY Parts
<1>2. UNCHANGED <<pc, cmd, result, answers, faults, dir>>
  BY DEF Guest, OperatorStarts, OperatorSnapshots, storage
<1>3. /\ TypeOK' /\ WorldInv' /\ persistent' = persistent
      /\ disk' = disk \/ (disk = "whole" /\ disk' = "guest" /\ persistent)
      /\ (snaps' => snaps) \/ SnapshotsRace \/ OnlyBeside("createvm")
  <2>1. CASE Guest
    <3>1. UNCHANGED storage /\ PowerOff
      BY <2>1 DEF Guest
    <3>2. /\ WorldInv' /\ state' \in {"absent", "running", "shut off"}
          /\ snaps' \in BOOLEAN /\ persistent' = persistent /\ (snaps' => snaps)
      BY <3>1, PowerOffWorld
    <3> QED
      BY <1>1, <1>2, <3>1, <3>2 DEF TypeOK, storage, answers
  <2>2. CASE OperatorStarts
    <3>1. /\ state = "shut off" /\ state' = "running" /\ disk # "none"
          /\ disk' = IF disk = "whole" THEN "guest" ELSE disk
          /\ persistent' = persistent /\ snaps' = snaps
      BY <2>2 DEF OperatorStarts
    <3>2. WorldInv' /\ persistent
      BY <1>1, <1>2, <3>1 DEF WorldInv
    <3>3. TypeOK'
      BY <1>1, <1>2, <3>1 DEF TypeOK, answers
    <3> QED
      BY <3>1, <3>2, <3>3
  <2>3. CASE OperatorSnapshots
    <3>1. /\ SnapshotsRace \/ OnlyBeside("createvm")
          /\ snaps' = TRUE /\ UNCHANGED <<state, persistent, storage>>
      BY <2>3 DEF OperatorSnapshots
    <3>2. TypeOK'
      BY <1>1, <1>2, <3>1 DEF TypeOK, storage, answers
    <3>3. WorldInv'
      BY <1>1, <3>1 DEF WorldInv, storage
    <3>4. persistent' = persistent /\ disk' = disk
      BY <3>1 DEF storage
    <3> QED
      BY <3>1, <3>2, <3>3, <3>4
  <2> QED
    BY <2>1, <2>2, <2>3
<1>4. OneProvisioner'
  BY <1>2 DEF OneoffInv, OneProvisioner
<1>5. ASSUME NEW q \in Procs PROVE ProcInv(q)'
  <2>1. ProvisionInv(q)'
    BY <1>2, <1>3 DEF OneoffInv, ProvisionInv
  <2>2. DeleteInv(q)'
    BY <1>2, <1>3
    DEF OneoffInv, DeleteInv, OnlyBeside, At, answers, Deleting
  <2> QED
    BY <2>1, <2>2 DEF ProcInv
<1> QED
  BY <1>3, <1>4, <1>5, PartsNext

LEMMA StepInv == OneoffInv /\ [Next]_vars => OneoffInv'
<1> SUFFICES ASSUME OneoffInv, [Next]_vars PROVE OneoffInv'
  OBVIOUS
<1>1. CASE Guest \/ OperatorStarts \/ OperatorSnapshots
  BY <1>1, GuestInv
<1>2. CASE \E p \in Procs : Create(p)
  BY <1>2, CreateInv
<1>3. CASE \E p \in Procs : Delete(p)
  BY <1>3, DecideInv, RemoveInv DEF Delete
<1>4. CASE \E p \in Procs : Kill(p) \/ \E c \in AllCommands : Issue(p, c)
  BY <1>4, KillInv, IssueInv
<1>5. CASE UNCHANGED vars
  <2> USE <1>5 DEF vars
  <2>1. TypeOK' /\ WorldInv' /\ OneProvisioner'
    BY Parts DEF TypeOK, WorldInv, OneProvisioner
  <2>2. \A p \in Procs : ProcInv(p)'
    BY Parts DEF ProcInv, ProvisionInv, DeleteInv, OnlyBeside, At
  <2> QED
    BY <2>1, <2>2, PartsNext
<1> QED
  BY <1>1, <1>2, <1>3, <1>4, <1>5 DEF Next

\* However many createvm, or deletevm, overlap on one name, with any failures
\* and kills: one process at a time provisions the machine, in a directory and
\* on a disk that are its own, and files are removed only from a machine that
\* is undefined (the mkdir of createvm, the order of deletevm).
THEOREM OneoffSafety == Spec => []OneoffInv
  BY InitInv, StepInv, PTL DEF Spec

\* virt-install is given a disk that was copied to its end, or none
\* (_provision_vm).
THEOREM OneoffBootsWhole == Spec => BootsWhole
<1>1. OneoffInv /\ [Next]_vars =>
        [state = "absent" /\ state' = "running" => disk = "whole"]_vars
  <2> SUFFICES ASSUME OneoffInv, Next, state = "absent", state' = "running"
               PROVE  disk = "whole"
    BY DEF vars
  <2>1. PICK p \in Procs : Install(p)
    BY DEF Next, Guest, PowerOff, OperatorStarts, OperatorSnapshots, Create, CheckDir,
           CheckVm, EnsureImage, MkDir, Render, Copy, CopyEnds, Resize, InstallEnds,
           Cleanup, Delete, Exists, HasSnapshots, Tier1, Tier2, Destroy, Undefine,
           UndefineMetadata, UndefineCall, VirshUndefine, RmTree, Kill, Issue, domain
  <2> QED
    BY <2>1 DEF OneoffInv, ProvisionInv, Install, At
<1> QED
  BY <1>1, OneoffSafety, PTL DEF Spec, BootsWhole

\* What one step does to a definition, and to a disk a guest has used
LEMMA StepKinds ==
  ASSUME OneoffInv, Next
  PROVE  \/ UNCHANGED <<persistent, disk>>
         \/ \E p \in Procs : CopyEnds(p) \/ Copy(p) \/ Install(p) \/ Cleanup(p)
         \/ \E p \in Procs : RmTree(p) \/ Undefine(p) \/ UndefineMetadata(p)
         \/ OperatorStarts
  BY DEF Next, Guest, PowerOff, OperatorSnapshots, Create, CheckDir, CheckVm,
         EnsureImage, MkDir, Render, Resize, InstallEnds, Delete, Exists,
         HasSnapshots, Tier1, Tier2, Destroy, Kill, Issue, domain, storage

\* A disk a guest has used is lost only with a machine that is undefined, or
\* to the createvm that made it (deletevm, _cleanup_failed_vm_dir).
THEOREM OneoffStorageKept == Spec => StorageKept
<1>1. OneoffInv /\ [Next]_vars =>
        [disk = "guest" /\ disk' = "none" =>
           ~persistent \/ \E p \in Procs : At(p, "cleanup")]_vars
  <2> SUFFICES ASSUME OneoffInv, Next, disk = "guest", disk' = "none"
               PROVE  ~persistent \/ \E p \in Procs : At(p, "cleanup")
    BY DEF vars
  <2>1. \E p \in Procs : RmTree(p) \/ Cleanup(p)
    BY StepKinds
    DEF CopyEnds, Copy, Install, Undefine, UndefineMetadata, OperatorStarts, storage
  <2> QED
    BY <2>1 DEF OneoffInv, DeleteInv, RmTree, Cleanup, At
<1> QED
  BY <1>1, OneoffSafety, PTL DEF Spec, StorageKept

\* Unless a snapshot is taken while a deletevm runs, no deletevm undefines a
\* machine with snapshots that its user did not agree to lose (deletevm).
THEOREM OneoffConsentKept ==
  ASSUME ~SnapshotsRace
  PROVE  Spec => ConsentKept
<1>1. OneoffInv /\ [Next]_vars =>
        [\A p \in Procs :
           /\ pc[p] \in {"undefine", "undefine metadata"}
           /\ persistent /\ ~persistent' /\ snaps /\ ~snaps'
           => consent[p] = "snapshots"]_vars
  BY DEF OneoffInv, DeleteInv, Deleting
<1> QED
  BY <1>1, OneoffSafety, PTL DEF Spec, ConsentKept
=============================================================================
