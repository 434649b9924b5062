------------------------- MODULE LvlabMachine_proofs -------------------------
(***************************************************************************)
(* Safety of one machine, proved for every set of snapshots, commands and  *)
(* guest states, either strategy, and any number of failing calls and      *)
(* killed processes: first of commands that are run one after the other,   *)
(* then of any number of processes that interleave, as long as none of     *)
(* them brings the machine up.                                             *)
(***************************************************************************)
EXTENDS LvlabMachine, TLAPS

\* The invariant in two halves: the machine itself, and the processes.
WorldInv ==
  /\ state \in States \cup {"absent"}
  /\ persistent \in BOOLEAN
  /\ snaps \in SUBSET Snapshots
  /\ dir \in BOOLEAN
  /\ files \in [Entries -> Contents]
  /\ faults \in 0..MaxFaults
  /\ DomainInv
  /\ DirInv

ProcessTypes ==
  /\ pc \in [Procs -> Labels]
  /\ cmd \in [Procs -> AllCommands]
  /\ todo \in [Procs -> SUBSET Entries]
  /\ result \in [Procs -> Results]

ProcessInv == ProcessTypes /\ \A p \in Procs : ControlInv(p)

\* Labels at which a process relies on nothing it has seen.
PlainLabels == {"idle", "probe list", "probe state", "confirm", "list", "state",
                "verb", "force", "recheck", "render", "iso", "iso write", "deploy"}

LEMMA Halves == MachineInv <=> WorldInv /\ ProcessInv
  BY DEF MachineInv, TypeOK, WorldInv, ProcessInv, ProcessTypes

LEMMA HalvesNext == MachineInv' <=> WorldInv' /\ ProcessInv'
  BY DEF MachineInv, TypeOK, WorldInv, ProcessInv, ProcessTypes

LEMMA PlainControl ==
  ASSUME NEW p \in Procs, pc[p] \in PlainLabels
  PROVE  ControlInv(p)
  BY DEF ControlInv, CheckInv, ClearInv, WriterInv, PlainLabels

LEMMA PlainControlNext ==
  ASSUME NEW p \in Procs, pc'[p] \in PlainLabels
  PROVE  ControlInv(p)'
  BY DEF ControlInv, CheckInv, ClearInv, WriterInv, PlainLabels

LEMMA FinishInv ==
  ASSUME NEW me, Procs = {me}, ProcessTypes, NEW r \in Results, Finish(me, r)
  PROVE  ProcessInv'
<1>1. ProcessTypes' /\ pc'[me] = "idle"
  BY DEF Finish, ProcessTypes, Labels
<1>2. ControlInv(me)'
  BY <1>1, PlainControlNext DEF PlainLabels
<1> QED
  BY <1>1, <1>2 DEF ProcessInv

LEMMA GotoTypes ==
  ASSUME NEW me, Procs = {me}, ProcessTypes, NEW l \in Labels, Goto(me, l)
  PROVE  ProcessTypes' /\ pc'[me] = l /\ todo' = todo /\ cmd' = cmd
  BY DEF Goto, ProcessTypes

LEMMA GotoInv ==
  ASSUME NEW me, Procs = {me}, ProcessTypes, NEW l \in PlainLabels, Goto(me, l)
  PROVE  ProcessInv'
<1>1. ProcessTypes' /\ pc'[me] = l
  BY GotoTypes DEF PlainLabels, Labels
<1>2. ControlInv(me)'
  BY <1>1, PlainControlNext
<1> QED
  BY <1>1, <1>2 DEF ProcessInv

LEMMA VisitTypes ==
  ASSUME NEW me, Procs = {me}, ProcessTypes, NEW l \in Labels,
         NEW s \in SUBSET Entries, Visit(me, l, s)
  PROVE  ProcessTypes' /\ pc'[me] = l /\ todo'[me] = s /\ cmd' = cmd
  BY DEF Visit, ProcessTypes

\* A process moves to a step that relies on something: it holds there.
LEMMA ArriveInv ==
  ASSUME NEW me, Procs = {me}, ProcessTypes', ControlInv(me)'
  PROVE  ProcessInv'
  BY DEF ProcessInv

LEMMA FaultCount ==
  ASSUME faults \in 0..MaxFaults, Fine \/ Fault
  PROVE  faults' \in 0..MaxFaults
  BY MachineAssumption DEF Fine, Fault

LEMMA SameWorld ==
  ASSUME WorldInv, UNCHANGED <<domain, disk>>, Fine \/ Fault
  PROVE  WorldInv'
<1>1. faults' \in 0..MaxFaults
  BY FaultCount DEF WorldInv
<1> QED
  BY <1>1 DEF WorldInv, DomainInv, DirInv, FilesInDir, domain, disk

LEMMA InitInv ==
  ASSUME NEW me, Procs = {me}, Init
  PROVE  MachineInv
<1> USE DEF Entries, Disks, Contents
<1>1. files \in [Entries -> Contents] /\ DirInv
  BY DEF Init, NoFiles, DirInv, FilesInDir
<1>2. DomainInv
  BY MachineAssumption
  DEF Init, NoFiles, DomainInv, LIVE_STATES, SHUTDOWNABLE_STATES, DEAD_STATES
<1>3. state \in States \cup {"absent"} /\ persistent \in BOOLEAN
  BY MachineAssumption
  DEF Init, States, LIVE_STATES, SHUTDOWNABLE_STATES, DEAD_STATES
<1>5. snaps \in SUBSET Snapshots /\ dir \in BOOLEAN
  BY DEF Init
<1>6. faults \in 0..MaxFaults
  BY MachineAssumption DEF Init
<1>4. ProcessTypes /\ pc[me] = "idle"
  <2>1. pc \in [Procs -> Labels] /\ result \in [Procs -> Results] /\ pc[me] = "idle"
    BY DEF Init, Labels, Results
  <2>2. cmd \in [Procs -> AllCommands] /\ todo \in [Procs -> SUBSET Entries]
    BY DEF Init, AllCommands
  <2> QED
    BY <2>1, <2>2 DEF ProcessTypes
<1>7. ControlInv(me)
  BY <1>4, PlainControl DEF PlainLabels
<1> QED
  BY <1>1, <1>2, <1>3, <1>4, <1>5, <1>6, <1>7, Halves DEF WorldInv, ProcessInv

-----------------------------------------------------------------------------
(* Queries, prompts and decisions leave the machine alone. *)

LEMMA AbsentInv ==
  ASSUME NEW me, Procs = {me}, ProcessTypes, OnAbsent(me)
  PROVE  ProcessInv'
<1>1. CASE Visit(me, "disks", Disks)
  <2>1. ProcessTypes' /\ pc'[me] = "disks" /\ todo'[me] = Disks
    BY <1>1, VisitTypes DEF Labels, Entries
  <2>2. ControlInv(me)'
    BY <2>1 DEF ControlInv, CheckInv, ClearInv, WriterInv
  <2> QED
    BY <2>1, <2>2, ArriveInv
<1>2. CASE Finish(me, "noop")
  BY <1>2, FinishInv DEF Results
<1> QED
  BY <1>1, <1>2 DEF OnAbsent

LEMMA PresentInv ==
  ASSUME NEW me, Procs = {me}, ProcessTypes, OnPresent(me)
  PROVE  ProcessInv'
<1>1. CASE Finish(me, "noop") \/ Finish(me, "error")
  BY <1>1, FinishInv DEF Results
<1>2. CASE Goto(me, "confirm") \/ Goto(me, "list")
  BY <1>2, GotoInv DEF PlainLabels
<1> QED
  BY <1>1, <1>2 DEF OnPresent

LEMMA DestroyStateInv ==
  ASSUME NEW me, Procs = {me}, ProcessTypes, OnDestroyState(me), state' = state
  PROVE  ProcessInv'
<1>1. CASE Undefinable(state) /\ Goto(me, "undefine")
  <2>1. ProcessTypes' /\ pc'[me] = "undefine"
    BY <1>1, GotoTypes DEF Labels
  <2>2. ControlInv(me)'
    BY <1>1, <2>1
    DEF ControlInv, CheckInv, ClearInv, WriterInv, Undefinable, DEAD_STATES,
        LIVE_STATES, SHUTDOWNABLE_STATES
  <2> QED
    BY <2>1, <2>2, ArriveInv
<1>2. CASE Finish(me, "error")
  BY <1>2, FinishInv DEF Results
<1> QED
  BY <1>1, <1>2 DEF OnDestroyState

LEMMA QueryInv ==
  ASSUME NEW me, Procs = {me}, MachineInv,
         \/ \E c \in Commands : Issue(me, c)
         \/ Kill(me) \/ Decline(me) \/ Confirm(me)
         \/ ProbeList(me) \/ ProbeState(me) \/ List(me) \/ State(me) \/ Recheck(me)
  PROVE  MachineInv'
<1> USE Halves, HalvesNext, SameWorld
<1>1. WorldInv /\ ProcessTypes
  BY DEF ProcessInv
<1>2. ASSUME NEW c \in Commands, Issue(me, c) PROVE MachineInv'
  <2>1. WorldInv'
    BY <1>1, <1>2 DEF Issue, Fine, domain, disk
  <2>2. ProcessTypes' /\ pc'[me] \in {"render", "probe list"}
    BY <1>1, <1>2, MachineAssumption DEF Issue, ProcessTypes, Labels, Results
  <2> QED
    BY <2>1, <2>2, PlainControlNext, ArriveInv DEF PlainLabels
<1>3. CASE Kill(me)
  BY <1>1, <1>3, FinishInv DEF Kill, Results
<1>4. CASE Decline(me)
  BY <1>1, <1>4, FinishInv DEF Decline, Results, Fine
<1>5. CASE Confirm(me)
  BY <1>1, <1>5, GotoInv DEF Confirm, PlainLabels, Fine
<1>6. CASE ProbeList(me)
  <2>1. Goto(me, "probe state") \/ OnAbsent(me) \/ Finish(me, "error")
    BY <1>6 DEF ProbeList
  <2>2. ProcessInv'
    BY <1>1, <2>1, GotoInv, AbsentInv, FinishInv DEF PlainLabels, Results
  <2> QED
    BY <1>1, <1>6, <2>2 DEF ProbeList
<1>7. CASE ProbeState(me)
  <2>1. OnPresent(me) \/ OnAbsent(me)
    BY <1>7 DEF ProbeState
  <2>2. ProcessInv'
    BY <1>1, <2>1, PresentInv, AbsentInv
  <2> QED
    BY <1>1, <1>7, <2>2 DEF ProbeState
<1>8. CASE List(me)
  <2>1. \/ Goto(me, "state") \/ Goto(me, "verb")
        \/ Finish(me, "ok") \/ Finish(me, "error")
    BY <1>8 DEF List
  <2>2. ProcessInv'
    BY <1>1, <2>1, GotoInv, FinishInv DEF PlainLabels, Results
  <2> QED
    BY <1>1, <1>8, <2>2 DEF List
<1>9. CASE State(me)
  <2>1. \/ Goto(me, "verb") \/ Goto(me, "force") \/ OnDestroyState(me)
        \/ Finish(me, "ok") \/ Finish(me, "error")
    BY <1>9 DEF State
  <2>2. ProcessInv'
    BY <1>1, <1>9, <2>1, GotoInv, FinishInv, DestroyStateInv
    DEF State, domain, PlainLabels, Results
  <2> QED
    BY <1>1, <1>9, <2>2 DEF State
<1>10. CASE Recheck(me)
  <2>1. OnDestroyState(me) \/ Finish(me, "error")
    BY <1>10 DEF Recheck
  <2>2. ProcessInv'
    BY <1>1, <1>10, <2>1, FinishInv, DestroyStateInv DEF Recheck, domain, Results
  <2> QED
    BY <1>1, <1>10, <2>2 DEF Recheck
<1> QED
  BY <1>2, <1>3, <1>4, <1>5, <1>6, <1>7, <1>8, <1>9, <1>10

-----------------------------------------------------------------------------
(* Verbs change the domain and no file. *)

LEMMA SameFiles ==
  ASSUME WorldInv, UNCHANGED disk, Fine \/ Fault,
         state' \in States \cup {"absent"}, persistent' \in BOOLEAN,
         snaps' \in SUBSET Snapshots, persistent' <=> state' # "absent",
         state' # "absent" => state # "absent"
  PROVE  WorldInv'
<1>1. faults' \in 0..MaxFaults
  BY FaultCount DEF WorldInv
<1> QED
  BY <1>1 DEF WorldInv, DomainInv, DirInv, FilesInDir, disk

LEMMA VirshStartWorld ==
  ASSUME WorldInv, VirshStart, UNCHANGED disk, Fine \/ Fault
  PROVE  WorldInv'
  BY SameFiles
  DEF VirshStart, WorldInv, DomainInv, States, LIVE_STATES, SHUTDOWNABLE_STATES,
      DEAD_STATES

LEMMA VirshShutdownWorld ==
  ASSUME WorldInv, VirshShutdown, UNCHANGED disk, Fine \/ Fault
  PROVE  WorldInv'
  BY SameFiles
  DEF VirshShutdown, WorldInv, DomainInv, States, LIVE_STATES

LEMMA PowerOffWorld ==
  ASSUME WorldInv, state \in LIVE_STATES, PowerOff, UNCHANGED disk, Fine \/ Fault
  PROVE  WorldInv' /\ state' = "shut off"
<1>1. persistent /\ state' = "shut off" /\ snaps' = snaps /\ persistent' = persistent
  BY DEF PowerOff, WorldInv, DomainInv, LIVE_STATES, SHUTDOWNABLE_STATES
<1>2. WorldInv'
  BY <1>1, SameFiles
  DEF WorldInv, DomainInv, States, DEAD_STATES, LIVE_STATES, SHUTDOWNABLE_STATES
<1> QED
  BY <1>1, <1>2

LEMMA SnapshotWorld ==
  ASSUME WorldInv, NEW s \in Snapshots, VirshSnapshot(s) \/ VirshSnapshotDelete(s),
         UNCHANGED disk, Fine \/ Fault
  PROVE  WorldInv'
  BY SameFiles DEF VirshSnapshot, VirshSnapshotDelete, WorldInv, DomainInv

LEMMA UndefineWorld ==
  ASSUME WorldInv, state \notin LIVE_STATES, VirshUndefine, UNCHANGED disk,
         Fine \/ Fault
  PROVE  WorldInv' /\ state' = "absent"
<1>1. state \in DEAD_STATES
  BY DEF WorldInv, DomainInv, VirshUndefine, States
<1>2. persistent' = FALSE /\ state' = "absent" /\ snaps' = {}
  BY <1>1 DEF VirshUndefine
<1> QED
  BY <1>2, SameFiles

LEMMA VerbInv ==
  ASSUME NEW me, Procs = {me}, MachineInv, Verb(me)
  PROVE  MachineInv'
<1> USE Halves, HalvesNext
<1>1. WorldInv /\ ProcessTypes
  BY DEF ProcessInv
<1>2. Finish(me, "ok") \/ Finish(me, "error")
  BY DEF Verb, Call
<1>3. ProcessInv'
  BY <1>1, <1>2, FinishInv DEF Results
<1>4. UNCHANGED disk /\ (Fine \/ Fault)
  BY DEF Verb, Call
<1>5. \/ UNCHANGED domain \/ VirshStart \/ VirshShutdown
      \/ \E s \in Snapshots : VirshSnapshot(s) \/ VirshSnapshotDelete(s)
  BY DEF Verb, Call
<1>6. WorldInv'
  BY <1>1, <1>4, <1>5, SameWorld, VirshStartWorld, VirshShutdownWorld, SnapshotWorld
<1> QED
  BY <1>3, <1>6

LEMMA ForceOffInv ==
  ASSUME NEW me, Procs = {me}, MachineInv, ForceOff(me)
  PROVE  MachineInv'
<1> USE Halves, HalvesNext
<1>1. WorldInv /\ ProcessTypes
  BY DEF ProcessInv
<1>2. Goto(me, "recheck") \/ Finish(me, "error")
  BY DEF ForceOff, Call
<1>3. ProcessInv'
  BY <1>1, <1>2, GotoInv, FinishInv DEF Results, PlainLabels
<1>4. UNCHANGED disk /\ (Fine \/ Fault) /\ (UNCHANGED domain \/ VirshDestroy)
  BY DEF ForceOff, Call
<1>5. WorldInv'
  BY <1>1, <1>4, SameWorld, PowerOffWorld DEF VirshDestroy
<1> QED
  BY <1>3, <1>5

LEMMA UndefineInv ==
  ASSUME NEW me, Procs = {me}, MachineInv, Undefine(me) \/ UndefineMetadata(me)
  PROVE  MachineInv'
<1> USE Halves, HalvesNext
<1>1. WorldInv /\ ProcessTypes /\ ControlInv(me)
  BY DEF ProcessInv
<1>2. state \notin LIVE_STATES
  BY <1>1 DEF Undefine, UndefineMetadata, At, ControlInv, CheckInv
<1>3. UNCHANGED disk /\ (Fine \/ Fault) /\ (UNCHANGED domain \/ VirshUndefine)
  BY DEF Undefine, UndefineMetadata, Call
<1>4. WorldInv'
  BY <1>1, <1>2, <1>3, SameWorld, UndefineWorld
<1>5. \/ UNCHANGED domain /\ Goto(me, "undefine metadata")
      \/ VirshUndefine /\ Goto(me, "glob")
      \/ Finish(me, "error")
  BY DEF Undefine, UndefineMetadata, Call
<1>6. CASE UNCHANGED domain /\ Goto(me, "undefine metadata")
  <2>1. ProcessTypes' /\ pc'[me] = "undefine metadata" /\ state' = state
    BY <1>1, <1>6, GotoTypes DEF Labels, domain
  <2>2. ControlInv(me)'
    BY <1>2, <2>1 DEF ControlInv, CheckInv, ClearInv, WriterInv
  <2> QED
    BY <1>4, <2>1, <2>2, ArriveInv
<1>7. CASE VirshUndefine /\ Goto(me, "glob")
  <2>1. ProcessTypes' /\ pc'[me] = "glob"
    BY <1>1, <1>7, GotoTypes DEF Labels
  <2>2. state' = "absent"
    BY <1>1, <1>2, <1>3, <1>7, UndefineWorld
  <2>3. ControlInv(me)'
    BY <2>1, <2>2 DEF ControlInv, CheckInv, ClearInv, WriterInv
  <2> QED
    BY <1>4, <2>1, <2>3, ArriveInv
<1>8. CASE Finish(me, "error")
  BY <1>1, <1>4, <1>8, FinishInv DEF Results
<1> QED
  BY <1>5, <1>6, <1>7, <1>8

LEMMA GuestInv ==
  ASSUME NEW me, Procs = {me}, MachineInv, Guest
  PROVE  MachineInv'
<1> USE Halves, HalvesNext
<1>1. WorldInv /\ ProcessTypes /\ ControlInv(me)
  BY DEF ProcessInv
<1>2. state \in LIVE_STATES
  BY DEF Guest, GuestMove, GuestCrash, GuestOff, LIVE_STATES, SHUTDOWNABLE_STATES
<1>3. UNCHANGED disk /\ Fine /\ UNCHANGED <<pc, cmd, todo, result, files>>
  BY DEF Guest, disk, Fine
<1>4. WorldInv' /\ state' \in States
  <2>1. CASE GuestOff
    BY <1>1, <1>2, <1>3, <2>1, PowerOffWorld DEF GuestOff, States, DEAD_STATES
  <2>2. CASE GuestMove \/ GuestCrash
    BY <1>1, <1>2, <1>3, <2>2, SameFiles, MachineAssumption
    DEF GuestMove, GuestCrash, WorldInv, DomainInv, States, DEAD_STATES,
        LIVE_STATES, SHUTDOWNABLE_STATES
  <2> QED
    BY <2>1, <2>2 DEF Guest
<1>5. ProcessTypes' /\ state # "absent"
  BY <1>1, <1>2, <1>3 DEF ProcessTypes, LIVE_STATES, SHUTDOWNABLE_STATES
<1>6. ControlInv(me)'
  BY <1>1, <1>2, <1>3, <1>5 DEF ControlInv, CheckInv, ClearInv, WriterInv
<1> QED
  BY <1>4, <1>5, <1>6, ArriveInv

-----------------------------------------------------------------------------
(* File steps leave the domain alone, except for virt-install. *)

LEMMA PutWorld ==
  ASSUME WorldInv, UNCHANGED domain, Fine \/ Fault, NEW e \in Entries,
         NEW c \in Contents \ {"none", "guest"}, Put(e, c), dir'
  PROVE  WorldInv'
<1>1. faults' \in 0..MaxFaults
  BY FaultCount DEF WorldInv
<1>2. files' \in [Entries -> Contents] /\ files' = [files EXCEPT ![e] = c]
  BY DEF WorldInv, Put
<1>3. \A d \in Entries : files'[d] = IF d = e THEN c ELSE files[d]
  BY <1>2 DEF WorldInv
<1>4. dir' \in BOOLEAN
  BY DEF Put
<1> QED
  BY <1>1, <1>2, <1>3, <1>4
  DEF WorldInv, DomainInv, DirInv, FilesInDir, domain, Entries, Disks

LEMMA DirWorld ==
  ASSUME WorldInv, UNCHANGED domain, Fine \/ Fault, UNCHANGED files, dir' \in {dir, TRUE}
  PROVE  WorldInv'
<1>1. faults' \in 0..MaxFaults
  BY FaultCount DEF WorldInv
<1>2. dir' \in BOOLEAN /\ (dir => dir')
  BY DEF WorldInv
<1> QED
  BY <1>1, <1>2 DEF WorldInv, DomainInv, DirInv, FilesInDir, domain

LEMMA GlobInv ==
  ASSUME NEW me, Procs = {me}, MachineInv, Glob(me)
  PROVE  MachineInv'
<1> USE Halves, HalvesNext
<1>1. WorldInv /\ ProcessTypes /\ ControlInv(me)
  BY DEF ProcessInv
<1>2. WorldInv'
  BY <1>1, SameWorld DEF Glob, domain, disk, Fine
<1>3. state = "absent" /\ UNCHANGED <<state, files>>
  BY <1>1 DEF Glob, At, ControlInv, CheckInv, domain, disk
<1> DEFINE found == {e \in Entries : files[e] # "none"}
<1>4. ProcessTypes' /\ pc'[me] = "remove" /\ todo'[me] = found
  <2>1. found \in SUBSET Entries /\ Visit(me, "remove", found)
    BY DEF Glob
  <2> HIDE DEF found
  <2> QED
    BY <1>1, <2>1, VisitTypes DEF Labels
<1>5. state' = "absent" /\ \A e \in Entries \ found : files'[e] \in {"none", "subdir"}
  BY <1>3
<1>6. ControlInv(me)'
  BY <1>4, <1>5 DEF ControlInv, CheckInv, ClearInv, WriterInv
<1> QED
  BY <1>2, <1>4, <1>6, ArriveInv

LEMMA RemoveInv ==
  ASSUME NEW me, Procs = {me}, MachineInv, Remove(me)
  PROVE  MachineInv'
<1> USE Halves, HalvesNext
<1>1. WorldInv /\ ProcessTypes /\ ControlInv(me) /\ todo[me] \in SUBSET Entries
  BY DEF ProcessInv, ProcessTypes
<1>2. /\ state = "absent" /\ UNCHANGED domain
      /\ \A e \in Entries \ todo[me] : files[e] \in {"none", "subdir"}
  BY <1>1 DEF Remove, At, ControlInv, CheckInv, ClearInv, WriterInv
<1>3. CASE Fine /\ todo[me] = {} /\ Goto(me, "rmdir") /\ UNCHANGED disk
  <2>1. ProcessTypes' /\ pc'[me] = "rmdir"
    BY <1>1, <1>3, GotoTypes DEF Labels
  <2>2. ControlInv(me)'
    BY <1>2, <1>3, <2>1
    DEF ControlInv, CheckInv, ClearInv, WriterInv, domain, disk
  <2> QED
    BY <1>1, <1>2, <1>3, <2>1, <2>2, SameWorld, ArriveInv
<1>4. ASSUME NEW e \in todo[me], Fine, Visit(me, "remove", todo[me] \ {e}),
             IF files[e] = "subdir" THEN UNCHANGED files ELSE Put(e, "none"),
             UNCHANGED dir
      PROVE  MachineInv'
  <2>1. ProcessTypes' /\ pc'[me] = "remove" /\ todo'[me] = todo[me] \ {e}
    <3>1. todo[me] \ {e} \in SUBSET Entries
      BY <1>1
    <3> QED
      BY <1>1, <1>4, <3>1, VisitTypes DEF Labels
  <2>2. /\ files' \in [Entries -> Contents]
        /\ \A d \in Entries : d # e => files'[d] = files[d]
        /\ files'[e] \in {"none", "subdir"}
    BY <1>1, <1>4 DEF WorldInv, Put, Contents
  <2>3. \A d \in Entries : files'[d] # "none" => files[d] # "none"
    BY <1>1, <1>4, <2>2 DEF Put, WorldInv
  <2>4. ControlInv(me)'
    <3>1. state' = "absent" /\ \A d \in Entries \ todo'[me] : files'[d] \in {"none", "subdir"}
      BY <1>2, <2>1, <2>2 DEF domain
    <3> QED
      BY <2>1, <3>1 DEF ControlInv, CheckInv, ClearInv, WriterInv
  <2>5. files'["disk1"] # "guest"
    BY <1>1, <2>2 DEF WorldInv, DirInv, FilesInDir, Entries, Disks
  <2>6. WorldInv'
    BY <1>1, <1>2, <1>4, <2>2, <2>3, <2>5, FaultCount
    DEF WorldInv, DomainInv, DirInv, FilesInDir, domain
  <2> QED
    BY <2>1, <2>4, <2>6, ArriveInv
<1>5. CASE Fault /\ Finish(me, "error") /\ UNCHANGED disk
  BY <1>1, <1>2, <1>5, SameWorld, FinishInv DEF Results
<1> QED
  BY <1>3, <1>4, <1>5 DEF Remove

LEMMA RmdirInv ==
  ASSUME NEW me, Procs = {me}, MachineInv, Rmdir(me)
  PROVE  MachineInv'
<1> USE Halves, HalvesNext
<1>1. WorldInv /\ ProcessTypes
  BY DEF ProcessInv
<1>2. Finish(me, "ok") \/ Finish(me, "error")
  BY DEF Rmdir
<1>3. ProcessInv'
  BY <1>1, <1>2, FinishInv DEF Results
<1>4. faults' \in 0..MaxFaults
  BY <1>1, FaultCount DEF Rmdir, WorldInv
<1>5. /\ UNCHANGED domain /\ UNCHANGED files
      /\ dir' = dir \/ dir' = (dir /\ files # NoFiles)
  BY DEF Rmdir
<1>6. dir' \in BOOLEAN
  BY <1>1, <1>5 DEF WorldInv
<1>7. \A e \in Entries : files[e] # "none" => dir /\ files # NoFiles
  BY <1>1 DEF WorldInv, DirInv, FilesInDir, NoFiles
<1>8. WorldInv'
  BY <1>1, <1>4, <1>5, <1>6, <1>7 DEF WorldInv, DomainInv, DirInv, FilesInDir, domain
<1> QED
  BY <1>3, <1>8

LEMMA DisksArrive ==
  ASSUME NEW me, Procs = {me}, ProcessTypes, NEW s \in SUBSET Disks,
         Visit(me, "disks", s)
  PROVE  ProcessInv'
<1>1. ProcessTypes' /\ pc'[me] = "disks" /\ todo'[me] = s
  BY VisitTypes DEF Labels, Entries
<1>2. ControlInv(me)'
  BY <1>1 DEF ControlInv, CheckInv, ClearInv, WriterInv
<1> QED
  BY <1>1, <1>2, ArriveInv

LEMMA ConsiderDiskInv ==
  ASSUME NEW me, Procs = {me}, MachineInv, ConsiderDisk(me)
  PROVE  MachineInv'
<1> USE Halves, HalvesNext
<1> DEFINE d == NextDisk(todo[me])
<1>1. WorldInv /\ ProcessTypes /\ ControlInv(me) /\ todo[me] \subseteq Disks
  BY DEF ProcessInv, ConsiderDisk, At, ControlInv, WriterInv
<1>2. todo[me] \ {d} \in SUBSET Disks /\ d \in Disks /\ d \in Entries
  BY <1>1 DEF NextDisk, Disks, Entries
<1>3. UNCHANGED domain /\ UNCHANGED state
  BY DEF ConsiderDisk, domain
<1>4. CASE Fine /\ Goto(me, "render") /\ UNCHANGED disk
  BY <1>1, <1>3, <1>4, GotoInv, SameWorld DEF PlainLabels
<1>5. CASE Fine /\ Visit(me, "disks", todo[me] \ {d}) /\ UNCHANGED disk
  <2> HIDE DEF d
  <2> QED
    BY <1>1, <1>2, <1>3, <1>5, DisksArrive, SameWorld
<1>6. CASE /\ Fine /\ todo[me] # {} /\ Missing(files[d])
           /\ Goto(me, "copy") /\ Put(d, "partial") /\ dir' = TRUE
  <2>1. WorldInv'
    <3> HIDE DEF d
    <3> QED
      BY <1>1, <1>2, <1>3, <1>6, PutWorld DEF Contents
  <2>2. ProcessTypes' /\ pc'[me] = "copy" /\ todo' = todo
    BY <1>1, <1>6, GotoTypes DEF Labels
  <2>3. files'[d] = "partial"
    <3> HIDE DEF d
    <3> QED
      BY <1>1, <1>2, <1>6 DEF WorldInv, Put
  <2>4. d = "disk0" => state' = "absent"
    BY <1>1, <1>3, <1>6 DEF WorldInv, DomainInv, Missing
  <2>5. ControlInv(me)'
    BY <1>1, <1>6, <2>2, <2>3, <2>4
    DEF ControlInv, CheckInv, ClearInv, WriterInv
  <2> QED
    BY <2>1, <2>2, <2>5, ArriveInv
<1>7. CASE /\ Fault /\ Visit(me, "disks", todo[me] \ {d})
           /\ dir' \in {dir, TRUE} /\ UNCHANGED files
  <2> HIDE DEF d
  <2> QED
    BY <1>1, <1>2, <1>3, <1>7, DisksArrive, DirWorld
<1> QED
  BY <1>4, <1>5, <1>6, <1>7 DEF ConsiderDisk

LEMMA WriteDiskWorld ==
  ASSUME WorldInv, UNCHANGED domain, UNCHANGED dir, Fine \/ Fault, NEW d \in Disks,
         files[d] # "none", NEW c \in {"base", "sized"},
         UNCHANGED files \/ Put(d, c)
  PROVE  WorldInv' /\ files'[d] \in {files[d], c}
<1>1. dir
  BY DEF WorldInv, DirInv, FilesInDir, Entries
<1>2. CASE UNCHANGED files
  BY <1>2, SameWorld DEF disk
<1>3. CASE Put(d, c)
  <2>1. WorldInv'
    BY <1>1, <1>3, PutWorld DEF Contents, Entries
  <2> QED
    BY <1>3, <2>1 DEF WorldInv, Put, Entries
<1> QED
  BY <1>2, <1>3

LEMMA CopyDiskInv ==
  ASSUME NEW me, Procs = {me}, MachineInv, CopyDisk(me) \/ ResizeDisk(me)
  PROVE  MachineInv'
<1> USE Halves, HalvesNext
<1> DEFINE d == NextDisk(todo[me])
<1>1. /\ WorldInv /\ ProcessTypes
      /\ todo[me] \in SUBSET Disks /\ todo[me] # {}
      /\ files[d] \in {"partial", "base"} /\ (d = "disk0" => state = "absent")
  BY DEF ProcessInv, CopyDisk, ResizeDisk, At, ControlInv, WriterInv
<1>2. d \in Disks
  BY DEF NextDisk, Disks
<1>3. UNCHANGED domain /\ UNCHANGED <<state, dir>> /\ (Fine \/ Fault)
  BY DEF CopyDisk, ResizeDisk, domain
<1>4. PICK c \in {"base", "sized"} :
        /\ UNCHANGED files \/ Put(d, c)
        /\ \/ Visit(me, "disks", todo[me] \ {d})
           \/ c = "base" /\ Goto(me, "resize")
  BY MachineAssumption DEF CopyDisk, ResizeDisk
<1> HIDE DEF d
<1>5. WorldInv' /\ files'[d] \in {files[d], c}
  BY <1>1, <1>2, <1>3, <1>4, WriteDiskWorld
<1>6. CASE Visit(me, "disks", todo[me] \ {d})
  <2>1. todo[me] \ {d} \in SUBSET Disks
    BY <1>1
  <2> QED
    BY <1>1, <1>5, <1>6, <2>1, DisksArrive
<1>7. CASE c = "base" /\ Goto(me, "resize")
  <2>1. ProcessTypes' /\ pc'[me] = "resize" /\ todo' = todo
    BY <1>1, <1>7, GotoTypes DEF Labels
  <2>2. files'[d] \in {"partial", "base"}
    BY <1>1, <1>5, <1>7
  <2>3. ControlInv(me)'
    BY <1>1, <1>3, <2>1, <2>2
    DEF ControlInv, CheckInv, ClearInv, WriterInv, d
  <2> QED
    BY <1>5, <2>1, <2>3, ArriveInv
<1> QED
  BY <1>4, <1>6, <1>7

LEMMA SeedInv ==
  ASSUME NEW me, Procs = {me}, MachineInv, Render(me) \/ OpenIso(me) \/ WriteIso(me)
  PROVE  MachineInv'
<1> USE Halves, HalvesNext
<1>1. WorldInv /\ ProcessTypes
  BY DEF ProcessInv
<1>2. \/ Goto(me, "iso") \/ Goto(me, "iso write") \/ Goto(me, "deploy")
      \/ Finish(me, "ok") \/ Finish(me, "error")
  BY DEF Render, OpenIso, WriteIso
<1>3. ProcessInv'
  BY <1>1, <1>2, GotoInv, FinishInv DEF PlainLabels, Results
<1>4. UNCHANGED domain /\ (Fine \/ Fault)
  BY DEF Render, OpenIso, WriteIso
<1>5. \/ UNCHANGED files /\ dir' \in {dir, TRUE}
      \/ Put("docs", "whole") /\ dir'
      \/ Put("docs", "partial") /\ dir'
      \/ Put("iso", "partial") /\ dir'
      \/ Put("iso", "whole") /\ dir'
  <2>1. /\ files["iso"] # "none" => dir
        /\ files["docs"] # "none" => dir
        /\ dir \in BOOLEAN
    BY <1>1 DEF WorldInv, DirInv, FilesInDir, Entries
  <2>2. CASE Render(me)
    BY <2>2 DEF Render
  <2>3. CASE OpenIso(me)
    <3>1. UNCHANGED files \/ (files["docs"] # "none" /\ Put("iso", "partial"))
      BY <2>3 DEF OpenIso
    <3>2. dir' = dir
      BY <2>3 DEF OpenIso
    <3> QED
      BY <2>1, <3>1, <3>2
  <2>4. CASE WriteIso(me)
    <3>1. UNCHANGED files \/ (files["iso"] # "none" /\ Put("iso", "whole"))
      BY <2>4 DEF WriteIso
    <3>2. dir' = dir
      BY <2>4 DEF WriteIso
    <3> QED
      BY <2>1, <3>1, <3>2
  <2> QED
    BY <2>2, <2>3, <2>4
<1>6. WorldInv'
  BY <1>1, <1>4, <1>5, DirWorld, PutWorld DEF Contents, Entries
<1> QED
  BY <1>3, <1>6

LEMMA DeployInv ==
  ASSUME NEW me, Procs = {me}, MachineInv, Deploy(me)
  PROVE  MachineInv'
<1> USE Halves, HalvesNext
<1>1. WorldInv /\ ProcessTypes
  BY DEF ProcessInv
<1>2. Finish(me, "ok") \/ Finish(me, "error")
  BY DEF Deploy
<1>3. ProcessInv'
  BY <1>1, <1>2, FinishInv DEF Results
<1>4. CASE (Fine \/ Fault) /\ UNCHANGED <<domain, files>>
  BY <1>1, <1>3, <1>4, SameWorld DEF Deploy, disk
<1>5. CASE (Fine \/ Fault) /\ Install
  <2>1. faults' \in 0..MaxFaults
    BY <1>1, <1>5, FaultCount DEF WorldInv
  <2>2. /\ files' \in [Entries -> Contents]
        /\ \A e \in Entries : files'[e] # "none" => files[e] # "none"
        /\ files'["disk0"] # "none" /\ files'["iso"] # "none"
        /\ files'["disk1"] # "guest"
    BY <1>1, <1>5
    DEF Install, Deployable, WorldInv, DirInv, FilesInDir, Put, Entries, Disks,
        Contents
  <2>3. WorldInv'
    BY <1>1, <1>5, <2>1, <2>2
    DEF Deploy, Install, WorldInv, DomainInv, DirInv, FilesInDir, States,
        LIVE_STATES,
        SHUTDOWNABLE_STATES
  <2> QED
    BY <1>3, <2>3
<1> QED
  BY <1>4, <1>5 DEF Deploy

-----------------------------------------------------------------------------

LEMMA StepInv ==
  ASSUME NEW me, Procs = {me}, MachineInv, [Next]_vars
  PROVE  MachineInv'
<1>1. CASE Guest
  BY <1>1, GuestInv
<1>2. CASE \/ \E c \in Commands : Issue(me, c)
           \/ Kill(me) \/ Decline(me) \/ Confirm(me)
           \/ ProbeList(me) \/ ProbeState(me) \/ List(me) \/ State(me)
           \/ Recheck(me)
  BY <1>2, QueryInv
<1>3. CASE Verb(me) \/ ForceOff(me) \/ Undefine(me) \/ UndefineMetadata(me)
  BY <1>3, VerbInv, ForceOffInv, UndefineInv
<1>4. CASE Glob(me) \/ Remove(me) \/ Rmdir(me)
  BY <1>4, GlobInv, RemoveInv, RmdirInv
<1>5. CASE ConsiderDisk(me) \/ CopyDisk(me) \/ ResizeDisk(me)
  BY <1>5, ConsiderDiskInv, CopyDiskInv
<1>6. CASE Render(me) \/ OpenIso(me) \/ WriteIso(me) \/ Deploy(me)
  BY <1>6, SeedInv, DeployInv
<1>7. CASE UNCHANGED vars
  BY <1>7
  DEF vars, MachineInv, TypeOK, DomainInv, DirInv, FilesInDir, ControlInv,
      CheckInv, ClearInv, WriterInv
<1> QED
  BY <1>1, <1>2, <1>3, <1>4, <1>5, <1>6, <1>7 DEF Next, Step

\* With one process, whatever fails and wherever a command is killed, a machine
\* in libvirt has its definition and its files, and a command that undefines,
\* writes or removes acts on the state it checked (_DomainDestroyer, Machine).
THEOREM SequentialSafety ==
  ASSUME NEW me, Procs = {me}
  PROVE  Spec => []MachineInv
<1>1. Init => MachineInv
  BY InitInv
<1>2. MachineInv /\ [Next]_vars => MachineInv'
  BY StepInv
<1> QED
  BY <1>1, <1>2, PTL DEF Spec

-----------------------------------------------------------------------------
(* What one step does to the machine: it writes files, removes files, has   *)
(* libvirt change the domain, or deploys the machine.  The action           *)
(* properties and the refinement follow from that.                          *)

Rewrites(e) ==
  /\ files'[e] # "none"
  /\ e = "disk0" =>
       /\ files[e] \in {"none", "partial", "base"}
       /\ files'[e] \in {"partial", "base", "sized"}
       /\ files[e] = "none" => state = "absent"

WriteStep ==
  /\ UNCHANGED domain
  /\ \A e \in Entries : files'[e] = files[e] \/ Rewrites(e)

RemoveStep ==
  /\ UNCHANGED domain
  /\ state = "absent"
  /\ \A e \in Entries : files'[e] = files[e] \/ files'[e] = "none"

TurnsOn == state \in DEAD_STATES /\ state' = "running" /\ persistent' = persistent
StaysLive == state \in LIVE_STATES /\ state' \in LIVE_STATES /\ persistent' = persistent
TurnsOff == state \in LIVE_STATES /\ state' \in DEAD_STATES /\ persistent' = persistent
Forgets == state \in DEAD_STATES /\ state' = "absent" /\ persistent' = FALSE
SnapshotsOnly == state' = state /\ persistent' = persistent

DomainStep ==
  /\ UNCHANGED files
  /\ TurnsOn \/ StaysLive \/ TurnsOff \/ Forgets \/ SnapshotsOnly

DeployStep ==
  /\ state = "absent"
  /\ state' = "running"
  /\ persistent' = TRUE
  /\ files["disk0"] # "none"
  /\ \A e \in Entries \ {"disk0"} : files'[e] = files[e]
  /\ files'["disk0"] \in {files["disk0"], "guest"}

MachineStep == WriteStep \/ RemoveStep \/ DomainStep \/ DeployStep

LEMMA PowerOffStep ==
  ASSUME persistent <=> state # "absent", state \in LIVE_STATES, PowerOff
  PROVE  TurnsOff
  BY DEF PowerOff, TurnsOff, LIVE_STATES,
         SHUTDOWNABLE_STATES, DEAD_STATES

LEMMA CallStep ==
  ASSUME NEW me, TypeOK, persistent <=> state # "absent", CheckInv(me),
         \/ Verb(me) \/ ForceOff(me) \/ Undefine(me) \/ UndefineMetadata(me)
  PROVE  DomainStep
<1>1. CASE Verb(me)
  <2>1. \/ UNCHANGED domain \/ VirshStart \/ VirshShutdown
        \/ \E s \in Snapshots : VirshSnapshot(s) \/ VirshSnapshotDelete(s)
    BY <1>1 DEF Verb, Call
  <2>2. CASE VirshStart
    BY <1>1, <2>2 DEF Verb, VirshStart, DomainStep, TurnsOn, disk
  <2>3. CASE VirshShutdown
    BY <1>1, <2>3
    DEF Verb, VirshShutdown, DomainStep, StaysLive, disk, LIVE_STATES,
        SHUTDOWNABLE_STATES
  <2>4. CASE UNCHANGED domain
    BY <1>1, <2>4 DEF Verb, DomainStep, SnapshotsOnly, domain, disk
  <2>5. CASE \E s \in Snapshots : VirshSnapshot(s) \/ VirshSnapshotDelete(s)
    BY <1>1, <2>5
    DEF Verb, VirshSnapshot, VirshSnapshotDelete, DomainStep, SnapshotsOnly, disk
  <2> QED
    BY <2>1, <2>2, <2>3, <2>4, <2>5
<1>2. CASE ForceOff(me)
  <2>1. UNCHANGED files /\ (UNCHANGED domain \/ VirshDestroy)
    BY <1>2 DEF ForceOff, Call, disk
  <2>2. CASE UNCHANGED domain
    BY <2>1, <2>2 DEF DomainStep, SnapshotsOnly, domain
  <2>3. CASE VirshDestroy
    BY <2>1, <2>3, PowerOffStep DEF VirshDestroy, DomainStep
  <2> QED
    BY <2>1, <2>2, <2>3
<1>3. CASE Undefine(me) \/ UndefineMetadata(me)
  <2>1. UNCHANGED files /\ (UNCHANGED domain \/ VirshUndefine)
    BY <1>3 DEF Undefine, UndefineMetadata, Call, disk
  <2>2. state \notin LIVE_STATES
    BY <1>3 DEF Undefine, UndefineMetadata, At, CheckInv
  <2>3. CASE UNCHANGED domain
    BY <2>1, <2>3 DEF DomainStep, SnapshotsOnly, domain
  <2>4. CASE VirshUndefine
    <3>1. state \in DEAD_STATES
      BY <2>2, <2>4 DEF TypeOK, VirshUndefine, States
    <3> QED
      BY <2>1, <2>4, <3>1 DEF VirshUndefine, DomainStep, Forgets
  <2> QED
    BY <2>1, <2>3, <2>4
<1> QED
  BY <1>1, <1>2, <1>3

LEMMA GuestStep ==
  ASSUME persistent <=> state # "absent", Guest
  PROVE  DomainStep
<1>1. UNCHANGED files /\ state \in LIVE_STATES
  BY DEF Guest, GuestMove, GuestCrash, GuestOff, LIVE_STATES, SHUTDOWNABLE_STATES
<1>2. CASE GuestMove
  BY <1>1, <1>2, MachineAssumption DEF GuestMove, DomainStep, StaysLive
<1>3. CASE GuestCrash
  BY <1>1, <1>3 DEF GuestCrash, DomainStep, TurnsOff, DEAD_STATES
<1>4. CASE GuestOff
  BY <1>1, <1>4, PowerOffStep DEF GuestOff, DomainStep
<1> QED
  BY <1>2, <1>3, <1>4 DEF Guest

\* A step that changes one entry.
LEMMA PutStep ==
  ASSUME TypeOK, UNCHANGED domain, NEW e \in Entries,
         NEW c \in Contents \ {"none"}, Put(e, c), e # "disk0" \/ Rewrites(e)
  PROVE  WriteStep
<1>1. \A f \in Entries : files'[f] = IF f = e THEN c ELSE files[f]
  BY DEF TypeOK, Put
<1> QED
  BY <1>1 DEF WriteStep, Rewrites

LEMMA DiskStep ==
  ASSUME NEW me, Procs = {me}, MachineInv,
         ConsiderDisk(me) \/ CopyDisk(me) \/ ResizeDisk(me)
  PROVE  WriteStep
<1> DEFINE d == NextDisk(todo[me])
<1>1. UNCHANGED domain /\ d \in Entries /\ files \in [Entries -> Contents]
  BY DEF ConsiderDisk, CopyDisk, ResizeDisk, NextDisk, Entries, Disks, MachineInv,
         TypeOK
<1>2. CASE UNCHANGED files
  BY <1>1, <1>2 DEF WriteStep
<1>3. CASE /\ ConsiderDisk(me)
           /\ Missing(files[d]) /\ Put(d, "partial")
  <2>1. d = "disk0" => state = "absent"
    BY <1>3 DEF MachineInv, DomainInv, Missing
  <2> HIDE DEF d
  <2>2. Rewrites(d)
    BY <1>1, <1>3, <2>1 DEF Rewrites, Missing, Put
  <2> QED
    BY <1>1, <1>3, <2>2, PutStep DEF Contents, MachineInv
<1>4. CASE /\ CopyDisk(me) \/ ResizeDisk(me)
           /\ \E c \in {"base", "sized"} : Put(d, c)
  <2>1. PICK c \in {"base", "sized"} : Put(d, c)
    BY <1>4
  <2>2. files[d] \in {"partial", "base"}
    BY <1>4 DEF MachineInv, ControlInv, WriterInv, CopyDisk, ResizeDisk, At
  <2> HIDE DEF d
  <2>3. Rewrites(d)
    BY <1>1, <2>1, <2>2 DEF Rewrites, Put
  <2> QED
    BY <1>1, <2>1, <2>3, PutStep DEF Contents, MachineInv
<1>5. CASE ConsiderDisk(me)
  BY <1>2, <1>3, <1>5 DEF ConsiderDisk, disk
<1>6. CASE CopyDisk(me) \/ ResizeDisk(me)
  BY <1>2, <1>4, <1>6 DEF CopyDisk, ResizeDisk
<1> QED
  BY <1>5, <1>6

LEMMA SeedStep ==
  ASSUME NEW me, TypeOK, Render(me) \/ OpenIso(me) \/ WriteIso(me)
  PROVE  WriteStep
<1>1. UNCHANGED domain
  BY DEF Render, OpenIso, WriteIso
<1>2. \/ UNCHANGED files
      \/ \E e \in {"docs", "iso"}, c \in {"whole", "partial"} : Put(e, c)
  <2>1. CASE Render(me)
    BY <2>1 DEF Render
  <2>2. CASE OpenIso(me)
    BY <2>2 DEF OpenIso
  <2>3. CASE WriteIso(me)
    BY <2>3 DEF WriteIso
  <2> QED
    BY <2>1, <2>2, <2>3
<1>3. CASE UNCHANGED files
  BY <1>1, <1>3 DEF WriteStep
<1>4. CASE \E e \in {"docs", "iso"}, c \in {"whole", "partial"} : Put(e, c)
  BY <1>1, <1>4, PutStep DEF Contents, Entries
<1> QED
  BY <1>2, <1>3, <1>4

LEMMA RemovalStep ==
  ASSUME NEW me, TypeOK, CheckInv(me), Remove(me)
  PROVE  RemoveStep
<1>1. state = "absent" /\ UNCHANGED domain /\ files \in [Entries -> Contents]
  BY DEF TypeOK, CheckInv, Remove, At
<1>2. CASE UNCHANGED files
  BY <1>1, <1>2 DEF RemoveStep
<1>3. CASE \E e \in todo[me] : Put(e, "none")
  BY <1>1, <1>3 DEF RemoveStep, Put
<1> QED
  BY <1>2, <1>3 DEF Remove, disk

LEMMA DeploymentStep ==
  ASSUME NEW me, TypeOK, Deploy(me)
  PROVE  DeployStep \/ (UNCHANGED domain /\ UNCHANGED files)
  BY DEF Deploy, Install, Deployable, DeployStep, TypeOK, Put, Entries, Disks

LEMMA StepKinds ==
  ASSUME NEW me, Procs = {me}, MachineInv, [Next]_vars
  PROVE  MachineStep
<1> USE DEF MachineStep
<1>0. TypeOK /\ (persistent <=> state # "absent") /\ CheckInv(me)
  BY DEF MachineInv, DomainInv, ControlInv
<1>1. CASE UNCHANGED domain /\ UNCHANGED files
  BY <1>1 DEF WriteStep
<1>2. CASE \/ \E c \in Commands : Issue(me, c)
           \/ Kill(me) \/ Decline(me) \/ Confirm(me)
           \/ ProbeList(me) \/ ProbeState(me) \/ List(me) \/ State(me)
           \/ Recheck(me) \/ Glob(me) \/ Rmdir(me)
  <2>1. UNCHANGED domain /\ UNCHANGED files
    BY <1>2
    DEF Issue, Kill, Decline, Confirm, ProbeList, ProbeState, List, State,
        Recheck, Glob, Rmdir, disk
  <2> QED
    BY <1>1, <2>1
<1>3. CASE \/ Guest
           \/ Verb(me) \/ ForceOff(me) \/ Undefine(me) \/ UndefineMetadata(me)
  BY <1>0, <1>3, CallStep, GuestStep
<1>4. CASE \/ ConsiderDisk(me) \/ CopyDisk(me) \/ ResizeDisk(me)
           \/ Render(me) \/ OpenIso(me) \/ WriteIso(me)
  BY <1>0, <1>4, DiskStep, SeedStep
<1>5. CASE Remove(me) \/ Deploy(me)
  BY <1>0, <1>1, <1>5, RemovalStep, DeploymentStep
<1>6. CASE UNCHANGED vars
  BY <1>1, <1>6 DEF vars, domain
<1> QED
  BY <1>2, <1>3, <1>4, <1>5, <1>6 DEF Next, Step

\* What follows from the kind of a step.

LEMMA KindUndefine ==
  ASSUME MachineStep
  PROVE  persistent /\ ~persistent' => state \in DEAD_STATES
  BY DEF MachineStep, WriteStep, RemoveStep, DomainStep, DeployStep, TurnsOn,
         StaysLive, TurnsOff, Forgets, SnapshotsOnly, domain

LEMMA KindFiles ==
  ASSUME MachineStep, state # "absent"
  PROVE  \A e \in Entries : files[e] # "none" => files'[e] # "none"
  BY DEF MachineStep, WriteStep, Rewrites, RemoveStep, DomainStep, DeployStep

LEMMA KindGuestData ==
  ASSUME MachineStep, files["disk0"] = "guest"
  PROVE  \/ files'["disk0"] = "guest"
         \/ files'["disk0"] = "none" /\ state = "absent"
  BY DEF MachineStep, WriteStep, Rewrites, RemoveStep, DomainStep, DeployStep,
         Entries, Disks

\* No sequence of commands, failures and kills undefines a live domain, as
\* long as commands do not overlap (_DomainDestroyer.destroy).
THEOREM SequentialUndefine ==
  ASSUME NEW me, Procs = {me}
  PROVE  Spec => NeverUndefineLive
<1>1. MachineInv /\ [Next]_vars =>
        [persistent /\ ~persistent' => state \in DEAD_STATES]_vars
  BY StepKinds, KindUndefine
<1> QED
  BY <1>1, SequentialSafety, PTL DEF Spec, NeverUndefineLive

\* As long as commands do not overlap, no file is removed under a machine that
\* is in libvirt (_DomainDestroyer._cleanup_files).
THEOREM SequentialFilesStay ==
  ASSUME NEW me, Procs = {me}
  PROVE  Spec => FilesStay
<1>1. MachineInv /\ [Next]_vars =>
        [state # "absent" =>
           \A e \in Entries : files[e] # "none" => files'[e] # "none"]_vars
  BY StepKinds, KindFiles
<1> QED
  BY <1>1, SequentialSafety, PTL DEF Spec, FilesStay

\* As long as commands do not overlap, a guest's disk is never written by the
\* tool (create_vdisks) and is removed only once the machine is out of libvirt.
THEOREM SequentialGuestData ==
  ASSUME NEW me, Procs = {me}
  PROVE  Spec => GuestDataKept
<1>1. MachineInv /\ [Next]_vars =>
        [files["disk0"] = "guest" =>
           \/ files'["disk0"] = "guest"
           \/ files'["disk0"] = "none" /\ state = "absent"]_vars
  BY StepKinds, KindGuestData
<1> QED
  BY <1>1, SequentialSafety, PTL DEF Spec, GuestDataKept

-----------------------------------------------------------------------------
(* Refinement: the commands implement the lifecycle contract. *)

LEMMA ContractInit ==
  Init => Contract!Init
<1> SUFFICES ASSUME Init PROVE Contract!Init
  OBVIOUS
<1>1. CASE state = "absent" /\ files = NoFiles
  <2>1. DiskOf(files["disk0"]) = "missing"
    BY <1>1 DEF DiskOf, NoFiles, Entries, Disks
  <2>2. state = "absent" /\ state \notin LIVE_STATES
    BY <1>1 DEF LIVE_STATES, SHUTDOWNABLE_STATES
  <2> QED
    BY <2>1, <2>2 DEF Contract!Init
<1>2. CASE /\ state \in GuestStates \cup DEAD_STATES \cup {"running"}
           /\ files["disk0"] = "guest"
  <2>1. DiskOf(files["disk0"]) = "used"
    BY <1>2 DEF DiskOf
  <2>2. state # "absent"
    BY <1>2, MachineAssumption DEF LIVE_STATES, SHUTDOWNABLE_STATES, DEAD_STATES
  <2> QED
    BY <2>1, <2>2 DEF Contract!Init
<1> QED
  BY <1>1, <1>2 DEF Init, NoFiles, Entries, Disks

LEMMA KindContract ==
  ASSUME MachineStep
  PROVE  [Contract!Next]_(Contract!view)
<1>1. "disk0" \in Entries
  BY DEF Entries, Disks
<1>2. CASE WriteStep
  <2>1. CASE files'["disk0"] = files["disk0"]
    BY <1>2, <2>1 DEF WriteStep, domain, Contract!view
  <2>2. CASE files["disk0"] = "none" /\ Rewrites("disk0")
    BY <1>2, <2>2
    DEF WriteStep, Rewrites, domain, DiskOf, Contract!Next, Contract!CreateStorage
  <2>3. CASE files["disk0"] # "none" /\ Rewrites("disk0")
    BY <1>2, <2>3 DEF WriteStep, Rewrites, domain, DiskOf, Contract!view
  <2> QED
    BY <1>1, <1>2, <2>1, <2>2, <2>3 DEF WriteStep
<1>3. CASE RemoveStep
  <2>1. CASE files'["disk0"] = files["disk0"]
    BY <1>3, <2>1 DEF RemoveStep, domain, Contract!view
  <2>2. CASE files'["disk0"] = "none" /\ files["disk0"] # "none"
    BY <1>3, <2>2
    DEF RemoveStep, domain, DiskOf, Contract!Next, Contract!RemoveStorage
  <2> QED
    BY <1>1, <1>3, <2>1, <2>2 DEF RemoveStep
<1>4. CASE DomainStep
  <2>1. CASE TurnsOn
    <3>1. /\ state # "absent" /\ state \notin LIVE_STATES
          /\ state' # "absent" /\ state' \in LIVE_STATES
      BY <2>1 DEF TurnsOn, LIVE_STATES, SHUTDOWNABLE_STATES, DEAD_STATES
    <3> QED
      BY <1>4, <3>1 DEF DomainStep, Contract!Next, Contract!PowerOn
  <2>2. CASE TurnsOff
    <3>1. /\ state # "absent" /\ state \in LIVE_STATES
          /\ state' # "absent" /\ state' \notin LIVE_STATES
      BY <2>2 DEF TurnsOff, LIVE_STATES, SHUTDOWNABLE_STATES, DEAD_STATES
    <3> QED
      BY <1>4, <3>1 DEF DomainStep, Contract!Next, Contract!PowerOff
  <2>3. CASE Forgets
    <3>1. /\ state # "absent" /\ state \notin LIVE_STATES
          /\ state' = "absent" /\ state' \notin LIVE_STATES
      BY <2>3 DEF Forgets, LIVE_STATES, SHUTDOWNABLE_STATES, DEAD_STATES
    <3> QED
      BY <1>4, <3>1 DEF DomainStep, Contract!Next, Contract!Forget
  <2>4. CASE StaysLive \/ SnapshotsOnly
    <3>1. /\ (state # "absent") = (state' # "absent")
          /\ (state \in LIVE_STATES) = (state' \in LIVE_STATES)
      BY <2>4 DEF StaysLive, SnapshotsOnly, LIVE_STATES, SHUTDOWNABLE_STATES
    <3> QED
      BY <1>4, <3>1 DEF DomainStep, Contract!view
  <2> QED
    BY <1>4, <2>1, <2>2, <2>3, <2>4 DEF DomainStep
<1>5. CASE DeployStep
  <2>1. state = "absent" /\ state' # "absent" /\ state' \in LIVE_STATES
        /\ state \notin LIVE_STATES
    BY <1>5 DEF DeployStep, LIVE_STATES, SHUTDOWNABLE_STATES
  <2>2. /\ DiskOf(files["disk0"]) # "missing"
        /\ DiskOf(files'["disk0"]) \in {DiskOf(files["disk0"]), "used"}
    BY <1>5 DEF DeployStep, DiskOf
  <2> QED
    BY <2>1, <2>2 DEF Contract!Next, Contract!Deploy
<1> QED
  BY <1>2, <1>3, <1>4, <1>5 DEF MachineStep

\* Commands run one after the other, with any failures and kills, take a
\* machine only through the steps of the lifecycle contract.
THEOREM SequentialContract ==
  ASSUME NEW me, Procs = {me}
  PROVE  Spec => ImplementsContract
<1>1. Init => Contract!Init
  BY ContractInit
<1>2. MachineInv /\ [Next]_vars => [Contract!Next]_(Contract!view)
  BY StepKinds, KindContract
<1> QED
  BY <1>1, <1>2, SequentialSafety, PTL DEF Spec, Contract!Spec, ImplementsContract

-----------------------------------------------------------------------------
(* Any number of processes: what a step does to the process that takes it,  *)
(* and that it leaves the others where they are.                            *)

\* The types of the machine, and what is in its directory.
StoreInv ==
  /\ state \in States \cup {"absent"}
  /\ persistent \in BOOLEAN
  /\ snaps \in SUBSET Snapshots
  /\ dir \in BOOLEAN
  /\ files \in [Entries -> Contents]
  /\ faults \in 0..MaxFaults
  /\ FilesInDir
  /\ \A e \in Entries : files[e] = "subdir" => e = "other"

LEMMA CommandsHalves ==
  CommandsInv <=> StoreInv /\ ProcessTypes /\ \A p \in Procs : PhaseInv(p)
  BY DEF CommandsInv, TypeOK, StoreInv, ProcessTypes

LEMMA CommandsHalvesNext ==
  CommandsInv' <=> StoreInv' /\ ProcessTypes' /\ \A p \in Procs : PhaseInv(p)'
  BY DEF CommandsInv, TypeOK, StoreInv, ProcessTypes

OthersStay(p) ==
  \A q \in Procs \ {p} : /\ pc'[q] = pc[q] /\ cmd'[q] = cmd[q]
                         /\ todo'[q] = todo[q] /\ result'[q] = result[q]

Ends(p) == \E r \in Results : Finish(p, r)

Moves(p) ==
  \E l \in Labels :
    /\ Belongs(l, cmd[p])
    /\ Goto(p, l) \/ \E s \in SUBSET Entries : Visit(p, l, s)

LEMMA EndsTo ==
  ASSUME NEW p \in Procs, ProcessTypes, Ends(p)
  PROVE  ProcessTypes' /\ OthersStay(p) /\ pc'[p] = "idle"
  BY DEF Ends, Finish, ProcessTypes, OthersStay, Labels

LEMMA MovesTo ==
  ASSUME NEW p \in Procs, ProcessTypes, Moves(p)
  PROVE  /\ ProcessTypes' /\ OthersStay(p)
         /\ cmd'[p] = cmd[p] /\ result'[p] = result[p] /\ Belongs(pc'[p], cmd[p])
  BY DEF Moves, Goto, Visit, ProcessTypes, OthersStay

LEMMA PhasesKept ==
  ASSUME NEW p \in Procs, CommandsInv, pc[p] # "idle", Ends(p) \/ Moves(p)
  PROVE  ProcessTypes' /\ \A q \in Procs : PhaseInv(q)'
<1>1. ProcessTypes /\ PhaseInv(p) /\ \A q \in Procs : PhaseInv(q)
  BY CommandsHalves
<1>2. ProcessTypes' /\ OthersStay(p)
  BY <1>1, EndsTo, MovesTo
<1>3. \A q \in Procs \ {p} : PhaseInv(q)'
  BY <1>1, <1>2 DEF PhaseInv, OthersStay
<1>4. PhaseInv(p)'
  BY <1>1, EndsTo, MovesTo DEF PhaseInv
<1> QED
  BY <1>2, <1>3, <1>4

\* A command at one of its steps goes to another step of that command.
LEMMA ProcessStep ==
  ASSUME NEW p \in Procs, CommandsInv, Step(p) \/ Decline(p) \/ Kill(p)
  PROVE  pc[p] # "idle" /\ (Ends(p) \/ Moves(p))
<1> USE DEF At, Destroying, Creating, Labels, Results
<1>1. /\ pc[p] \in Labels /\ cmd[p] \in AllCommands /\ todo[p] \in SUBSET Entries
      /\ pc[p] # "idle" => Belongs(pc[p], cmd[p])
  BY DEF CommandsInv, TypeOK, PhaseInv
<1>2. CASE Decline(p) \/ Kill(p)
  BY <1>2 DEF Decline, Kill, Ends
<1>3. ASSUME OnAbsent(p) PROVE Ends(p) \/ Moves(p)
  BY <1>3 DEF OnAbsent, Ends, Moves, Belongs, Entries
<1>4. ASSUME OnPresent(p) PROVE Ends(p) \/ Moves(p)
  <2>1. Goto(p, "confirm") \/ Goto(p, "list") \/ Ends(p)
    BY <1>4 DEF OnPresent, Ends
  <2> QED
    BY <2>1 DEF Moves, Belongs
<1>5. ASSUME OnDestroyState(p), cmd[p] = "destroy" PROVE Ends(p) \/ Moves(p)
  BY <1>5 DEF OnDestroyState, Ends, Moves, Belongs
<1>6. CASE ProbeList(p) \/ ProbeState(p)
  BY <1>3, <1>4, <1>6 DEF ProbeList, ProbeState, Ends, Moves, Belongs
<1>7. CASE Confirm(p) \/ List(p)
  BY <1>7 DEF Confirm, List, Ends, Moves, Belongs
<1>8. CASE State(p)
  BY <1>5, <1>8 DEF State, Ends, Moves, Belongs
<1>9. CASE Recheck(p)
  BY <1>1, <1>5, <1>9 DEF Recheck, Ends, Belongs
<1>10. CASE Verb(p)
  BY <1>10 DEF Verb, Call, Ends
<1>11. CASE ForceOff(p)
  BY <1>1, <1>11 DEF ForceOff, Call, Ends, Moves, Belongs
<1>12. CASE Undefine(p) \/ UndefineMetadata(p)
  BY <1>1, <1>12 DEF Undefine, UndefineMetadata, Call, Ends, Moves, Belongs
<1>13. CASE Glob(p)
  <2>1. Visit(p, "remove", {e \in Entries : files[e] # "none"}) /\ pc[p] = "glob"
    BY <1>13 DEF Glob
  <2> QED
    BY <1>1, <2>1 DEF Moves, Belongs
<1>14. CASE Remove(p)
  BY <1>1, <1>14 DEF Remove, Ends, Moves, Belongs
<1>15. CASE Rmdir(p)
  BY <1>15 DEF Rmdir, Ends
<1>16. CASE ConsiderDisk(p)
  BY <1>1, <1>16 DEF ConsiderDisk, Moves, Belongs
<1>17. CASE CopyDisk(p) \/ ResizeDisk(p)
  BY <1>1, <1>17 DEF CopyDisk, ResizeDisk, Moves, Belongs
<1>18. CASE Render(p)
  BY <1>18 DEF Render, Ends, Moves, Belongs
<1>19. CASE OpenIso(p) \/ WriteIso(p)
  BY <1>1, <1>19 DEF OpenIso, WriteIso, Ends, Moves, Belongs
<1>20. CASE Deploy(p)
  BY <1>20 DEF Deploy, Ends
<1> QED
  BY <1>2, <1>6, <1>7, <1>8, <1>9, <1>10, <1>11, <1>12, <1>13, <1>14, <1>15,
     <1>16, <1>17, <1>18, <1>19, <1>20 DEF Step

-----------------------------------------------------------------------------
(* Types and the directory, step by step. *)

LEMMA SameStore ==
  ASSUME StoreInv, UNCHANGED <<domain, disk>>, Fine \/ Fault
  PROVE  StoreInv'
<1>1. faults' \in 0..MaxFaults
  BY FaultCount DEF StoreInv
<1> QED
  BY <1>1 DEF StoreInv, FilesInDir, domain, disk

LEMMA DomainStore ==
  ASSUME StoreInv, UNCHANGED disk, Fine \/ Fault,
         state' \in States \cup {"absent"}, persistent' \in BOOLEAN,
         snaps' \in SUBSET Snapshots
  PROVE  StoreInv'
<1>1. faults' \in 0..MaxFaults
  BY FaultCount DEF StoreInv
<1> QED
  BY <1>1 DEF StoreInv, FilesInDir, disk

\* What libvirt does with a verb.
LEMMA VerbTypes ==
  ASSUME StoreInv,
         \/ VirshStart \/ VirshShutdown \/ VirshUndefine \/ PowerOff
         \/ \E s \in Snapshots : VirshSnapshot(s) \/ VirshSnapshotDelete(s)
  PROVE  /\ state' \in States \cup {"absent"} /\ persistent' \in BOOLEAN
         /\ snaps' \in SUBSET Snapshots
<1> USE DEF States, LIVE_STATES, SHUTDOWNABLE_STATES, DEAD_STATES
<1>1. CASE VirshStart \/ VirshShutdown
  BY <1>1 DEF StoreInv, VirshStart, VirshShutdown
<1>2. CASE VirshUndefine \/ PowerOff
  BY <1>2 DEF StoreInv, VirshUndefine, PowerOff
<1>3. CASE \E s \in Snapshots : VirshSnapshot(s) \/ VirshSnapshotDelete(s)
  BY <1>3 DEF StoreInv, VirshSnapshot, VirshSnapshotDelete
<1> QED
  BY <1>1, <1>2, <1>3

\* One entry is written or removed.
LEMMA PutStore ==
  ASSUME StoreInv, Fine \/ Fault, NEW e \in Entries,
         NEW c \in Contents \ {"subdir"}, Put(e, c),
         dir' \in BOOLEAN, dir => dir', c # "none" => dir',
         state' \in States \cup {"absent"}, persistent' \in BOOLEAN,
         snaps' \in SUBSET Snapshots
  PROVE  StoreInv'
<1>1. faults' \in 0..MaxFaults
  BY FaultCount DEF StoreInv
<1>2. files' \in [Entries -> Contents]
      /\ \A f \in Entries : files'[f] = IF f = e THEN c ELSE files[f]
  BY DEF StoreInv, Put
<1> QED
  BY <1>1, <1>2 DEF StoreInv, FilesInDir

LEMMA CallStore ==
  ASSUME NEW p, StoreInv,
         Verb(p) \/ ForceOff(p) \/ Undefine(p) \/ UndefineMetadata(p)
  PROVE  StoreInv'
<1>1. UNCHANGED disk /\ (Fine \/ Fault)
  <2>1. CASE Verb(p) \/ ForceOff(p)
    BY <2>1 DEF Verb, ForceOff, Call
  <2>2. CASE Undefine(p) \/ UndefineMetadata(p)
    BY <2>2 DEF Undefine, UndefineMetadata, Call
  <2> QED
    BY <2>1, <2>2
<1>2. \/ UNCHANGED domain
      \/ VirshStart \/ VirshShutdown \/ VirshUndefine \/ PowerOff
      \/ \E s \in Snapshots : VirshSnapshot(s) \/ VirshSnapshotDelete(s)
  <2>1. CASE Verb(p)
    BY <2>1 DEF Verb, Call
  <2>2. CASE ForceOff(p)
    BY <2>2 DEF ForceOff, Call, VirshDestroy
  <2>3. CASE Undefine(p) \/ UndefineMetadata(p)
    BY <2>3 DEF Undefine, UndefineMetadata, Call
  <2> QED
    BY <2>1, <2>2, <2>3
<1>3. CASE UNCHANGED domain
  BY <1>1, <1>3, SameStore
<1> QED
  BY <1>1, <1>2, <1>3, VerbTypes, DomainStore

LEMMA GuestStore ==
  ASSUME StoreInv, Guest
  PROVE  StoreInv'
<1>1. UNCHANGED disk /\ Fine
  BY DEF Guest, disk, Fine
<1>2. CASE GuestMove
  BY <1>1, <1>2, DomainStore, MachineAssumption DEF GuestMove, StoreInv, States
<1>3. CASE GuestCrash
  BY <1>1, <1>3, DomainStore DEF GuestCrash, StoreInv, States, DEAD_STATES
<1>4. CASE GuestOff
  BY <1>1, <1>4, VerbTypes, DomainStore DEF GuestOff
<1> QED
  BY <1>2, <1>3, <1>4 DEF Guest

LEMMA CleanupStore ==
  ASSUME NEW p \in Procs, StoreInv, todo[p] \in SUBSET Entries,
         Glob(p) \/ Remove(p) \/ Rmdir(p)
  PROVE  StoreInv'
<1>1. CASE Glob(p)
  BY <1>1, SameStore DEF Glob, Fine
<1>2. CASE Remove(p)
  <2>1. CASE UNCHANGED disk
    BY <1>2, <2>1, SameStore DEF Remove
  <2>2. CASE ~UNCHANGED disk
    <3>1. PICK e \in todo[p] : Put(e, "none") \/ UNCHANGED files
      BY <1>2, <2>2 DEF Remove
    <3>2. UNCHANGED dir /\ UNCHANGED domain /\ Fine
      BY <1>2, <2>2 DEF Remove
    <3>3. Put(e, "none")
      BY <2>2, <3>1, <3>2 DEF disk
    <3>4. /\ e \in Entries /\ "none" \in Contents \ {"subdir"}
          /\ state' \in States \cup {"absent"} /\ persistent' \in BOOLEAN
          /\ snaps' \in SUBSET Snapshots /\ dir' \in BOOLEAN
      BY <3>1, <3>2 DEF StoreInv, domain, Contents
    <3> QED
      BY <3>2, <3>3, <3>4, PutStore
  <2> QED
    BY <2>1, <2>2
<1>3. CASE Rmdir(p)
  <2>1. faults' \in 0..MaxFaults
    BY <1>3, FaultCount DEF Rmdir, StoreInv
  <2>2. UNCHANGED domain /\ UNCHANGED files /\ dir' \in {dir, dir /\ files # NoFiles}
    BY <1>3 DEF Rmdir
  <2>3. FilesInDir'
    BY <2>2 DEF StoreInv, FilesInDir, NoFiles
  <2> QED
    BY <2>1, <2>2, <2>3 DEF StoreInv, domain
<1> QED
  BY <1>1, <1>2, <1>3

LEMMA BuildStore ==
  ASSUME NEW p \in Procs, StoreInv,
         \/ ConsiderDisk(p) \/ CopyDisk(p) \/ ResizeDisk(p)
         \/ Render(p) \/ OpenIso(p) \/ WriteIso(p)
  PROVE  StoreInv'
<1>1. UNCHANGED domain /\ (Fine \/ Fault) /\ (dir' = dir \/ dir' = TRUE)
  <2>1. CASE ConsiderDisk(p) \/ CopyDisk(p) \/ ResizeDisk(p)
    BY <2>1 DEF ConsiderDisk, CopyDisk, ResizeDisk, disk
  <2>2. CASE Render(p) \/ OpenIso(p) \/ WriteIso(p)
    BY <2>2 DEF Render, OpenIso, WriteIso
  <2> QED
    BY <2>1, <2>2
<1>6. dir \in BOOLEAN /\ (dir \/ \A f \in Entries : files[f] = "none")
  BY DEF StoreInv, FilesInDir
<1>7. dir' \in BOOLEAN /\ (dir => dir')
  <2>1. dir' = dir \/ dir' = TRUE
    BY <1>1
  <2> QED
    BY <1>6, <2>1
<1>2. \/ UNCHANGED files
      \/ \E e \in Entries, c \in Contents \ {"none", "subdir"} :
           Put(e, c) /\ (dir' \/ files[e] # "none")
      \/ \E c \in Contents \ {"none", "subdir"} :
           Put("iso", c) /\ (dir' \/ files["docs"] # "none")
  <2> USE DEF Entries, Disks, Contents
  <2>1. \A s : NextDisk(s) \in Entries
    BY DEF NextDisk
  <2>2. CASE ConsiderDisk(p)
    BY <2>1, <2>2 DEF ConsiderDisk, disk
  <2>3. CASE CopyDisk(p)
    BY <2>1, <2>3 DEF CopyDisk
  <2>4. CASE ResizeDisk(p)
    BY <2>1, <2>4 DEF ResizeDisk
  <2>5. CASE Render(p)
    BY <2>5 DEF Render
  <2>6. CASE OpenIso(p)
    BY <2>6 DEF OpenIso
  <2>7. CASE WriteIso(p)
    BY <2>7 DEF WriteIso
  <2> QED
    BY <2>2, <2>3, <2>4, <2>5, <2>6, <2>7
<1>3. CASE UNCHANGED files
  <2>1. faults' \in 0..MaxFaults
    BY <1>1, FaultCount DEF StoreInv
  <2>2. FilesInDir'
    BY <1>3, <1>7 DEF StoreInv, FilesInDir
  <2> QED
    BY <1>1, <1>3, <1>7, <2>1, <2>2 DEF StoreInv, domain
<1>4. ASSUME NEW e \in Entries, NEW c \in Contents \ {"none", "subdir"}, Put(e, c),
             dir' \/ \E f \in Entries : files[f] # "none"
      PROVE  StoreInv'
  <2>1. dir' /\ dir' \in BOOLEAN
    BY <1>4, <1>6, <1>7
  <2>2. /\ state' \in States \cup {"absent"} /\ persistent' \in BOOLEAN
        /\ snaps' \in SUBSET Snapshots
    BY <1>1 DEF StoreInv, domain
  <2> QED
    BY <1>1, <1>4, <2>1, <2>2, PutStore
<1>5. "iso" \in Entries /\ "docs" \in Entries
  BY DEF Entries
<1> QED
  BY <1>2, <1>3, <1>4, <1>5

LEMMA DeployStore ==
  ASSUME NEW p \in Procs, StoreInv, Deploy(p)
  PROVE  StoreInv'
<1>1. UNCHANGED dir /\ (Fine \/ Fault)
  BY DEF Deploy
<1>2. CASE Install
  <2>1. /\ state' \in States \cup {"absent"} /\ persistent' \in BOOLEAN
        /\ snaps' \in SUBSET Snapshots /\ dir
    BY <1>2
    DEF Install, Deployable, States, LIVE_STATES, SHUTDOWNABLE_STATES, StoreInv,
        FilesInDir, Entries, Disks
  <2>2. CASE UNCHANGED files
    BY <1>1, <2>1, <2>2, DomainStore DEF disk
  <2>3. CASE Put("disk0", "guest")
    BY <1>1, <2>1, <2>3, PutStore DEF Contents, Entries, Disks, StoreInv
  <2> QED
    BY <1>2, <2>2, <2>3 DEF Install
<1>3. CASE UNCHANGED <<domain, files>>
  BY <1>1, <1>3, SameStore DEF disk
<1> QED
  BY <1>2, <1>3 DEF Deploy

LEMMA CommandsInit ==
  Init => CommandsInv
<1> SUFFICES ASSUME Init PROVE CommandsInv
  OBVIOUS
<1> USE DEF Entries, Disks, Contents
<1>1. files \in [Entries -> Contents] /\ FilesInDir
      /\ \A e \in Entries : files[e] = "subdir" => e = "other"
  BY DEF Init, NoFiles, FilesInDir
<1>2. state \in States \cup {"absent"} /\ persistent \in BOOLEAN
  BY MachineAssumption
  DEF Init, States, LIVE_STATES, SHUTDOWNABLE_STATES, DEAD_STATES
<1>3. snaps \in SUBSET Snapshots /\ dir \in BOOLEAN
  BY DEF Init
<1>6. faults \in 0..MaxFaults
  BY MachineAssumption DEF Init
<1>4. pc \in [Procs -> Labels] /\ result \in [Procs -> Results]
      /\ \A p \in Procs : PhaseInv(p)
  BY DEF Init, Labels, Results, PhaseInv
<1>5. cmd \in [Procs -> AllCommands] /\ todo \in [Procs -> SUBSET Entries]
  BY DEF Init, AllCommands
<1> QED
  BY <1>1, <1>2, <1>3, <1>4, <1>5, <1>6 DEF CommandsInv, TypeOK

LEMMA CommandsStep ==
  ASSUME CommandsInv, [Next]_vars
  PROVE  CommandsInv'
<1> USE CommandsHalves, CommandsHalvesNext
<1>1. CASE UNCHANGED vars
  BY <1>1
  DEF vars, CommandsInv, TypeOK, FilesInDir, PhaseInv
<1>2. CASE Guest
  <2>1. ProcessTypes' /\ \A p \in Procs : PhaseInv(p)'
    BY <1>2 DEF Guest, ProcessTypes, PhaseInv
  <2> QED
    BY <1>2, <2>1, GuestStore
<1>3. ASSUME NEW p \in Procs, NEW c \in Commands, Issue(p, c) PROVE CommandsInv'
  <2>1. StoreInv'
    BY <1>3, SameStore DEF Issue, Fine
  <2>2. ProcessTypes' /\ OthersStay(p)
    BY <1>3, MachineAssumption
    DEF Issue, ProcessTypes, OthersStay, Labels, Results
  <2>3. PhaseInv(p)'
    BY <1>3 DEF Issue, ProcessTypes, PhaseInv, Belongs, Destroying, Creating
  <2>4. \A q \in Procs \ {p} : PhaseInv(q)'
    BY <2>2 DEF OthersStay, PhaseInv
  <2> QED
    BY <2>1, <2>2, <2>3, <2>4
<1>4. ASSUME NEW p \in Procs, Step(p) \/ Decline(p) \/ Kill(p) PROVE CommandsInv'
  <2>1. ProcessTypes' /\ \A q \in Procs : PhaseInv(q)'
    BY <1>4, ProcessStep, PhasesKept
  <2>2. CASE \/ Decline(p) \/ Kill(p) \/ Confirm(p)
             \/ ProbeList(p) \/ ProbeState(p) \/ List(p) \/ State(p) \/ Recheck(p)
    <3>1. UNCHANGED <<domain, disk>> /\ (Fine \/ Fault)
      BY <2>2
      DEF Decline, Kill, Confirm, ProbeList, ProbeState, List, State, Recheck, Fine
    <3> QED
      BY <2>1, <3>1, SameStore
  <2>3. CASE \/ Verb(p) \/ ForceOff(p) \/ Undefine(p) \/ UndefineMetadata(p)
             \/ Glob(p) \/ Remove(p) \/ Rmdir(p)
    BY <2>1, <2>3, CallStore, CleanupStore DEF ProcessTypes
  <2>4. CASE \/ ConsiderDisk(p) \/ CopyDisk(p) \/ ResizeDisk(p)
             \/ Render(p) \/ OpenIso(p) \/ WriteIso(p) \/ Deploy(p)
    BY <2>1, <2>4, BuildStore, DeployStore
  <2> QED
    BY <1>4, <2>2, <2>3, <2>4 DEF Step
<1> QED
  BY <1>1, <1>2, <1>3, <1>4 DEF Next

\* Any number of processes running any commands, with any failures and kills:
\* every command keeps to its own steps, no directory is removed with a file in
\* it, and the tool makes no directory inside it (Rmdir, _cleanup_files).
THEOREM ConcurrentCommands == Spec => []CommandsInv
<1>1. Init => CommandsInv
  BY CommandsInit
<1>2. CommandsInv /\ [Next]_vars => CommandsInv'
  BY CommandsStep
<1> QED
  BY <1>1, <1>2, PTL DEF Spec

-----------------------------------------------------------------------------
(* A destroy that reports success.                                          *)

\* The only step with which a destroy succeeds is the last one.
LEMMA DestroyEnds ==
  ASSUME NEW p \in Procs, CommandsInv, Step(p) \/ Decline(p) \/ Kill(p),
         cmd[p] = "destroy", result'[p] = "ok"
  PROVE  Rmdir(p)
<1> USE DEF At
<1>1. /\ pc[p] # "idle" /\ Belongs(pc[p], cmd[p]) /\ result[p] = "none"
      /\ result \in [Procs -> Results]
  BY ProcessStep DEF CommandsInv, TypeOK, PhaseInv
<1>2. \A r \in Results : Finish(p, r) => r = "ok"
  BY <1>1 DEF Finish
<1>3. \A l : ~Goto(p, l) /\ \A s : ~Visit(p, l, s)
  BY <1>1 DEF Goto, Visit
<1>4. ~Finish(p, "error") /\ ~Finish(p, "noop") /\ ~Finish(p, "killed")
  BY <1>2 DEF Results
<1>5. ~OnAbsent(p) /\ ~OnPresent(p) /\ ~OnDestroyState(p)
  BY <1>3, <1>4 DEF OnAbsent, OnPresent, OnDestroyState
<1>6. ~Decline(p) /\ ~Kill(p) /\ ~ProbeList(p) /\ ~ProbeState(p) /\ ~Confirm(p)
  BY <1>3, <1>4, <1>5 DEF Decline, Kill, ProbeList, ProbeState, Confirm
<1>7. ~List(p) /\ ~State(p) /\ ~Recheck(p)
  BY <1>3, <1>4, <1>5 DEF List, State, Recheck
<1>8. ~Verb(p) /\ ~ForceOff(p) /\ ~Undefine(p) /\ ~UndefineMetadata(p)
  BY <1>3, <1>4 DEF Verb, ForceOff, Undefine, UndefineMetadata, Call
<1>9. ~Glob(p) /\ ~Remove(p) /\ ~ConsiderDisk(p) /\ ~CopyDisk(p) /\ ~ResizeDisk(p)
  BY <1>3, <1>4 DEF Glob, Remove, ConsiderDisk, CopyDisk, ResizeDisk
<1>10. ~Render(p) /\ ~OpenIso(p) /\ ~WriteIso(p) /\ ~Deploy(p)
  BY <1>1 DEF Belongs, Creating, Render, OpenIso, WriteIso, Deploy
<1> QED
  BY <1>6, <1>7, <1>8, <1>9, <1>10 DEF Step

\* Nobody but the process itself changes its result.
LEMMA ResultStep ==
  ASSUME NEW p \in Procs, CommandsInv, [Next]_vars, pc[p] # "idle", result'[p] = "ok"
  PROVE  Step(p) \/ Decline(p) \/ Kill(p)
<1>1. result[p] = "none" /\ ProcessTypes
  BY CommandsHalves DEF PhaseInv
<1>2. ~UNCHANGED vars /\ ~Guest
  BY <1>1 DEF vars, Guest
<1>3. PICK q \in Procs :
        Step(q) \/ Decline(q) \/ Kill(q) \/ \E c \in Commands : Issue(q, c)
  BY <1>2 DEF Next
<1>4. ASSUME q # p PROVE FALSE
  <2>1. CASE Step(q) \/ Decline(q) \/ Kill(q)
    <3>1. OthersStay(q)
      BY <1>1, <2>1, ProcessStep, EndsTo, MovesTo
    <3> QED
      BY <1>1, <1>4, <3>1 DEF OthersStay
  <2>2. CASE \E c \in Commands : Issue(q, c)
    BY <1>1, <1>4, <2>2 DEF Issue, ProcessTypes
  <2> QED
    BY <1>3, <2>1, <2>2
<1>5. ASSUME q = p, \E c \in Commands : Issue(q, c) PROVE FALSE
  BY <1>5 DEF Issue, At
<1> QED
  BY <1>3, <1>4, <1>5

LEMMA HonestStep ==
  ASSUME NEW p \in Procs, CommandsInv, CheckInv(p), ClearInv(p), [Next]_vars,
         cmd[p] = "destroy", pc[p] # "idle", result'[p] = "ok"
  PROVE  /\ state' = "absent"
         /\ \A e \in Entries : files'[e] \in {"none", "subdir"}
         /\ dir' => files'["other"] = "subdir"
<1>1. Rmdir(p)
  BY ResultStep, DestroyEnds
<1>2. state = "absent" /\ \A e \in Entries : files[e] \in {"none", "subdir"}
  BY <1>1 DEF CheckInv, ClearInv, Rmdir, At
<1>3. state' = "absent" /\ files' = files
  BY <1>1, <1>2 DEF Rmdir, domain
<1>4. ~Finish(p, "error")
  BY DEF Finish, CommandsInv, TypeOK
<1>5. dir' = (dir /\ files # NoFiles)
  BY <1>1, <1>4 DEF Rmdir
<1>6. ASSUME files # NoFiles PROVE files["other"] = "subdir"
  <2>1. PICK e \in Entries : files[e] # "none"
    BY <1>6 DEF CommandsInv, TypeOK, NoFiles
  <2> QED
    BY <1>2, <2>1 DEF CommandsInv
<1> QED
  BY <1>2, <1>3, <1>5, <1>6

\* As long as commands do not overlap, a destroy that reports success has left
\* no domain and no file of the machine (_DomainDestroyer.destroy).
THEOREM SequentialDestroyHonest ==
  ASSUME NEW me, Procs = {me}
  PROVE  Spec => DestroyHonest
<1>1. CommandsInv /\ MachineInv /\ [Next]_vars =>
        [\A p \in Procs :
           cmd[p] = "destroy" /\ pc[p] # "idle" /\ result'[p] = "ok" =>
             /\ state' = "absent"
             /\ \A e \in Entries : files'[e] \in {"none", "subdir"}
             /\ dir' => files'["other"] = "subdir"]_vars
  BY HonestStep DEF MachineInv, ControlInv
<1> QED
  BY <1>1, SequentialSafety, ConcurrentCommands, PTL DEF Spec, DestroyHonest

-----------------------------------------------------------------------------
(* Any number of processes, none of which runs up: nothing comes to life.   *)

CheckedLabels == {"undefine", "undefine metadata", "glob", "remove", "rmdir"}

LEMMA PlainCheckNext ==
  ASSUME NEW p, pc'[p] \notin CheckedLabels
  PROVE  CheckInv(p)'
  BY DEF CheckInv, CheckedLabels

\* How a machine changes when nobody runs up.
CalmWorld ==
  \/ WriteStep
  \/ RemoveStep
  \/ UNCHANGED files /\ (StaysLive \/ TurnsOff \/ Forgets \/ SnapshotsOnly)

\* Only up starts a domain.
LEMMA NoStart ==
  ASSUME NEW p \in Procs, CommandsInv, "up" \notin Commands,
         \/ Verb(p) \/ ForceOff(p) \/ Undefine(p) \/ UndefineMetadata(p)
  PROVE  ~TurnsOn
<1> USE DEF LIVE_STATES, SHUTDOWNABLE_STATES, DEAD_STATES
<1>1. pc[p] # "idle" /\ cmd[p] # "up"
  BY ProcessStep DEF CommandsInv, PhaseInv, Step
<1>2. CASE Verb(p)
  <2>1. \/ UNCHANGED domain \/ VirshShutdown
        \/ \E s \in Snapshots : VirshSnapshot(s) \/ VirshSnapshotDelete(s)
    BY <1>1, <1>2 DEF Verb, Call
  <2> QED
    BY <2>1 DEF domain, VirshShutdown, VirshSnapshot, VirshSnapshotDelete, TurnsOn
<1>3. CASE ForceOff(p)
  <2>1. UNCHANGED domain \/ VirshDestroy
    BY <1>3 DEF ForceOff, Call
  <2> QED
    BY <2>1 DEF domain, VirshDestroy, TurnsOn
<1>4. CASE Undefine(p) \/ UndefineMetadata(p)
  <2>1. UNCHANGED domain \/ VirshUndefine
    BY <1>4 DEF Undefine, UndefineMetadata, Call
  <2> QED
    BY <2>1 DEF domain, VirshUndefine, TurnsOn
<1> QED
  BY <1>2, <1>3, <1>4

LEMMA CalmKinds ==
  ASSUME CalmInv, "up" \notin Commands, [Next]_vars
  PROVE  CalmWorld
<1> USE DEF CalmWorld
<1>1. CommandsInv /\ TypeOK /\ (persistent <=> state # "absent")
  BY DEF CalmInv, CommandsInv
<1>2. CASE UNCHANGED domain /\ UNCHANGED files
  BY <1>2 DEF WriteStep
<1>3. CASE UNCHANGED vars
  BY <1>2, <1>3 DEF vars, domain
<1>4. CASE Guest
  <2>1. DomainStep /\ ~TurnsOn
    BY <1>1, <1>4, GuestStep
    DEF Guest, GuestMove, GuestCrash, GuestOff, TurnsOn, LIVE_STATES,
        SHUTDOWNABLE_STATES, DEAD_STATES
  <2> QED
    BY <2>1 DEF DomainStep
<1>5. ASSUME NEW p \in Procs, NEW c \in Commands, Issue(p, c) PROVE CalmWorld
  BY <1>2, <1>5 DEF Issue, disk
<1>6. ASSUME NEW p \in Procs, Step(p) \/ Decline(p) \/ Kill(p) PROVE CalmWorld
  <2>1. pc[p] # "idle" /\ cmd[p] # "up" /\ Belongs(pc[p], cmd[p]) /\ CheckInv(p)
    BY <1>1, <1>6, ProcessStep DEF CalmInv, CommandsInv, PhaseInv
  <2>2. CASE \/ Kill(p) \/ Decline(p) \/ Confirm(p)
             \/ ProbeList(p) \/ ProbeState(p) \/ List(p) \/ State(p)
             \/ Recheck(p) \/ Glob(p) \/ Rmdir(p)
    <3>1. UNCHANGED domain /\ UNCHANGED files
      BY <2>2
      DEF Kill, Decline, Confirm, ProbeList, ProbeState, List, State, Recheck,
          Glob, Rmdir, disk
    <3> QED
      BY <1>2, <3>1
  <2>3. CASE Verb(p) \/ ForceOff(p) \/ Undefine(p) \/ UndefineMetadata(p)
    <3>1. DomainStep /\ ~TurnsOn
      BY <1>1, <2>1, <2>3, CallStep, NoStart
    <3> QED
      BY <3>1 DEF DomainStep
  <2>4. CASE Remove(p) \/ Render(p)
    BY <1>1, <2>1, <2>4, RemovalStep, SeedStep
  <2>5. CASE \/ ConsiderDisk(p) \/ CopyDisk(p) \/ ResizeDisk(p)
             \/ OpenIso(p) \/ WriteIso(p) \/ Deploy(p)
    BY <2>1, <2>5
    DEF Belongs, Creating, At, ConsiderDisk, CopyDisk, ResizeDisk, OpenIso,
        WriteIso, Deploy
  <2> QED
    BY <1>6, <2>2, <2>3, <2>4, <2>5 DEF Step
<1> QED
  BY <1>3, <1>4, <1>5, <1>6 DEF Next

\* What was seen dead or gone stays so.
LEMMA CalmStays ==
  ASSUME TypeOK, persistent <=> state # "absent", CalmWorld
  PROVE  /\ state \notin LIVE_STATES => state' \notin LIVE_STATES
         /\ state = "absent" => state' = "absent"
         /\ persistent' <=> state' # "absent"
<1> USE DEF LIVE_STATES, SHUTDOWNABLE_STATES, DEAD_STATES
<1>1. CASE WriteStep \/ RemoveStep
  BY <1>1 DEF WriteStep, RemoveStep, domain
<1>2. CASE StaysLive \/ TurnsOff
  BY <1>2 DEF StaysLive, TurnsOff
<1>3. CASE Forgets \/ SnapshotsOnly
  BY <1>3 DEF Forgets, SnapshotsOnly
<1> QED
  BY <1>1, <1>2, <1>3 DEF CalmWorld

\* The process that moves checks before it comes to a step that relies on it.
LEMMA CalmMover ==
  ASSUME NEW p \in Procs, CalmInv, CalmWorld, Step(p) \/ Decline(p) \/ Kill(p)
  PROVE  CheckInv(p)'
<1> USE DEF At
<1>1. CommandsInv /\ TypeOK /\ (persistent <=> state # "absent") /\ CheckInv(p)
  BY DEF CalmInv, CommandsInv
<1>2. /\ \A r : Finish(p, r) => pc'[p] = "idle"
      /\ \A l : Goto(p, l) => pc'[p] = l
      /\ \A l, s : Visit(p, l, s) => pc'[p] = l
  BY <1>1 DEF TypeOK, Finish, Goto, Visit
<1>3. ASSUME OnDestroyState(p), state' = state PROVE CheckInv(p)'
  BY <1>2, <1>3
  DEF OnDestroyState, Undefinable, CheckInv, DEAD_STATES, LIVE_STATES,
      SHUTDOWNABLE_STATES
<1>4. CASE cmd[p] # "destroy"
  <2>1. pc'[p] \notin Destroying
    BY <1>1, <1>4, ProcessStep, EndsTo, MovesTo, CommandsHalves
    DEF Belongs, Destroying
  <2> QED
    BY <2>1, PlainCheckNext DEF Destroying, CheckedLabels
<1>5. CASE \/ Decline(p) \/ Kill(p) \/ Confirm(p)
           \/ ProbeList(p) \/ ProbeState(p) \/ List(p) \/ Verb(p) \/ ForceOff(p)
  <2>1. pc'[p] \notin CheckedLabels
    BY <1>2, <1>5
    DEF Decline, Kill, Confirm, ProbeList, ProbeState, OnAbsent, OnPresent, List,
        Verb, ForceOff, Call, CheckedLabels
  <2> QED
    BY <2>1, PlainCheckNext
<1>6. CASE State(p)
  <2>1. CASE OnDestroyState(p)
    BY <1>3, <1>6, <2>1 DEF State, domain
  <2>2. CASE ~OnDestroyState(p)
    BY <1>2, <1>6, <2>2, PlainCheckNext DEF State, CheckedLabels
  <2> QED
    BY <2>1, <2>2
<1>7. CASE Recheck(p)
  <2>1. CASE OnDestroyState(p)
    BY <1>3, <1>7, <2>1 DEF Recheck, domain
  <2>2. CASE ~OnDestroyState(p)
    BY <1>2, <1>7, <2>2, PlainCheckNext DEF Recheck, CheckedLabels
  <2> QED
    BY <2>1, <2>2
<1>8. CASE Undefine(p) \/ UndefineMetadata(p)
  <2>1. state \notin LIVE_STATES
    BY <1>1, <1>8 DEF Undefine, UndefineMetadata, CheckInv
  <2>2. CASE Finish(p, "error")
    BY <1>2, <2>2, PlainCheckNext DEF CheckedLabels
  <2>3. CASE Goto(p, "undefine metadata") /\ UNCHANGED domain
    BY <1>2, <2>1, <2>3 DEF CheckInv, domain
  <2>4. CASE persistent /\ VirshUndefine /\ Goto(p, "glob")
    <3>1. state' = "absent"
      BY <1>1, <2>1, <2>4 DEF VirshUndefine, TypeOK, States
    <3> QED
      BY <1>2, <2>4, <3>1 DEF CheckInv, LIVE_STATES, SHUTDOWNABLE_STATES
  <2> QED
    BY <1>8, <2>2, <2>3, <2>4 DEF Undefine, UndefineMetadata, Call
<1>9. CASE Glob(p) \/ Remove(p) \/ Rmdir(p)
  <2>1. state = "absent" /\ state' = "absent"
    BY <1>1, <1>9, CalmStays DEF Glob, Remove, Rmdir, CheckInv
  <2>2. pc'[p] \in {"remove", "rmdir", "idle"}
    BY <1>2, <1>9 DEF Glob, Remove, Rmdir
  <2> QED
    BY <2>1, <2>2 DEF CheckInv
<1>10. CASE cmd[p] = "destroy" /\
            \/ ConsiderDisk(p) \/ CopyDisk(p) \/ ResizeDisk(p)
            \/ Render(p) \/ OpenIso(p) \/ WriteIso(p) \/ Deploy(p)
  <2>1. Belongs(pc[p], cmd[p])
    BY <1>1, <1>10, ProcessStep DEF CommandsInv, PhaseInv, Step
  <2> QED
    BY <1>10, <2>1
    DEF Belongs, Creating, ConsiderDisk, CopyDisk, ResizeDisk, Render, OpenIso,
        WriteIso, Deploy
<1> QED
  BY <1>4, <1>5, <1>6, <1>7, <1>8, <1>9, <1>10 DEF Step

LEMMA CalmInit ==
  Init => CalmInv
<1> SUFFICES ASSUME Init PROVE CalmInv
  OBVIOUS
<1>1. persistent <=> state # "absent"
  BY MachineAssumption
  DEF Init, LIVE_STATES, SHUTDOWNABLE_STATES, DEAD_STATES
<1>2. \A p \in Procs : CheckInv(p)
  BY DEF Init, CheckInv
<1> QED
  BY <1>1, <1>2, CommandsInit DEF CalmInv

LEMMA CalmStep ==
  ASSUME "up" \notin Commands, CalmInv, [Next]_vars
  PROVE  CalmInv'
<1>1. TypeOK /\ CommandsInv' /\ CalmWorld
  BY CommandsStep, CalmKinds DEF CalmInv, CommandsInv
<1>2. /\ state \notin LIVE_STATES => state' \notin LIVE_STATES
      /\ state = "absent" => state' = "absent"
      /\ persistent' <=> state' # "absent"
  BY <1>1, CalmStays DEF CalmInv
<1>3. ASSUME NEW q \in Procs, pc'[q] = pc[q] PROVE CheckInv(q)'
  BY <1>2, <1>3 DEF CalmInv, CheckInv
<1>4. CASE UNCHANGED vars \/ Guest
  BY <1>1, <1>2, <1>3, <1>4 DEF vars, Guest, CalmInv
<1>5. ASSUME NEW p \in Procs, NEW c \in Commands, Issue(p, c) PROVE CalmInv'
  <2>1. \A q \in Procs : pc'[q] = pc[q] \/ pc'[q] \notin CheckedLabels
    BY <1>1, <1>5 DEF TypeOK, Issue, CheckedLabels
  <2> QED
    BY <1>1, <1>2, <1>3, <2>1, PlainCheckNext DEF CalmInv
<1>6. ASSUME NEW p \in Procs, Step(p) \/ Decline(p) \/ Kill(p) PROVE CalmInv'
  <2>1. OthersStay(p)
    BY <1>6, ProcessStep, EndsTo, MovesTo, CommandsHalves DEF CalmInv
  <2>2. CheckInv(p)'
    BY <1>1, <1>6, CalmMover
  <2> QED
    BY <1>1, <1>2, <1>3, <2>1, <2>2 DEF CalmInv, OthersStay
<1> QED
  BY <1>4, <1>5, <1>6 DEF Next

\* However many processes overlap, as long as none of them runs up, what a
\* destroy has checked still holds when it undefines the machine and removes
\* its files (_DomainDestroyer.destroy).
THEOREM ConcurrentCalm ==
  ASSUME "up" \notin Commands
  PROVE  Spec => []CalmInv
<1>1. Init => CalmInv
  BY CalmInit
<1>2. CalmInv /\ [Next]_vars => CalmInv'
  BY CalmStep
<1> QED
  BY <1>1, <1>2, PTL DEF Spec

LEMMA CalmMachineStep ==
  ASSUME "up" \notin Commands, CalmInv, [Next]_vars
  PROVE  MachineStep
  BY CalmKinds DEF CalmWorld, MachineStep, DomainStep

\* Without up, overlapping commands never undefine a live domain ...
THEOREM ConcurrentUndefine ==
  ASSUME "up" \notin Commands
  PROVE  Spec => NeverUndefineLive
<1>1. CalmInv /\ [Next]_vars =>
        [persistent /\ ~persistent' => state \in DEAD_STATES]_vars
  BY CalmMachineStep, KindUndefine
<1> QED
  BY <1>1, ConcurrentCalm, PTL DEF Spec, NeverUndefineLive

\* ... nor remove a file of a machine that is in libvirt ...
THEOREM ConcurrentFilesStay ==
  ASSUME "up" \notin Commands
  PROVE  Spec => FilesStay
<1>1. CalmInv /\ [Next]_vars =>
        [state # "absent" =>
           \A e \in Entries : files[e] # "none" => files'[e] # "none"]_vars
  BY CalmMachineStep, KindFiles
<1> QED
  BY <1>1, ConcurrentCalm, PTL DEF Spec, FilesStay

\* ... nor touch the disk of a guest before it is out of libvirt ...
THEOREM ConcurrentGuestData ==
  ASSUME "up" \notin Commands
  PROVE  Spec => GuestDataKept
<1>1. CalmInv /\ [Next]_vars =>
        [files["disk0"] = "guest" =>
           \/ files'["disk0"] = "guest"
           \/ files'["disk0"] = "none" /\ state = "absent"]_vars
  BY CalmMachineStep, KindGuestData
<1> QED
  BY <1>1, ConcurrentCalm, PTL DEF Spec, GuestDataKept

\* ... and still take the machine only through the steps of the contract.
THEOREM ConcurrentContract ==
  ASSUME "up" \notin Commands
  PROVE  Spec => ImplementsContract
<1>1. Init => Contract!Init
  BY ContractInit
<1>2. CalmInv /\ [Next]_vars => [Contract!Next]_(Contract!view)
  BY CalmMachineStep, KindContract
<1> QED
  BY <1>1, <1>2, ConcurrentCalm, PTL
  DEF Spec, Contract!Spec, ImplementsContract

-----------------------------------------------------------------------------
(* Several destroys at once, and nobody who writes to the directory.        *)

QuietInv == CalmInv /\ \A p \in Procs : ClearInv(p)

LEMMA QuietFiles ==
  ASSUME "up" \notin Commands, "cloudinit" \notin Commands, QuietInv, [Next]_vars
  PROVE  \A e \in Entries : files'[e] \in {files[e], "none"}
<1>1. CASE \E p \in Procs : Render(p)
  <2>1. PICK p \in Procs : Render(p)
    BY <1>1
  <2>2. pc[p] = "render" /\ PhaseInv(p)
    BY <2>1 DEF Render, At, QuietInv, CalmInv, CommandsInv
  <2> QED
    BY <2>2 DEF PhaseInv, Belongs
<1>2. CASE ~\E p \in Procs : Render(p)
  <2>1. CASE UNCHANGED files
    BY <2>1
  <2>2. CASE RemoveStep
    BY <2>2 DEF RemoveStep
  <2>3. ASSUME NEW p \in Procs,
               \/ ConsiderDisk(p) \/ CopyDisk(p) \/ ResizeDisk(p)
               \/ OpenIso(p) \/ WriteIso(p) \/ Deploy(p)
        PROVE  FALSE
    <3>1. pc[p] \in Creating
      BY <2>3
      DEF Creating, At, ConsiderDisk, CopyDisk, ResizeDisk, OpenIso, WriteIso, Deploy
    <3>2. PhaseInv(p) /\ pc[p] # "idle"
      BY <3>1 DEF QuietInv, CalmInv, CommandsInv, Creating
    <3> QED
      BY <3>1, <3>2 DEF PhaseInv, Belongs
  <2>4. ASSUME NEW p \in Procs,
               \/ Kill(p) \/ Decline(p) \/ Confirm(p)
               \/ ProbeList(p) \/ ProbeState(p) \/ List(p) \/ State(p)
               \/ Recheck(p) \/ Glob(p) \/ Rmdir(p)
        PROVE  UNCHANGED files
    BY <2>4
    DEF Kill, Decline, Confirm, ProbeList, ProbeState, List, State, Recheck,
        Glob, Rmdir, disk
  <2>5. ASSUME NEW p \in Procs,
               Verb(p) \/ ForceOff(p) \/ Undefine(p) \/ UndefineMetadata(p)
        PROVE  UNCHANGED files
    BY <2>5 DEF Verb, ForceOff, Undefine, UndefineMetadata, Call, disk
  <2>6. ASSUME NEW p \in Procs, Remove(p) PROVE RemoveStep
    BY <2>6, RemovalStep DEF QuietInv, CalmInv, CommandsInv
  <2>7. ASSUME NEW p \in Procs, NEW c \in Commands, Issue(p, c) PROVE UNCHANGED files
    BY <2>7 DEF Issue, disk
  <2>8. ASSUME UNCHANGED vars \/ Guest PROVE UNCHANGED files
    BY <2>8 DEF vars, Guest
  <2> QED
    BY <1>2, <2>1, <2>2, <2>3, <2>4, <2>5, <2>6, <2>7, <2>8 DEF Next, Step
<1> QED
  BY <1>1, <1>2

LEMMA QuietMover ==
  ASSUME NEW p \in Procs, QuietInv, Step(p) \/ Decline(p) \/ Kill(p),
         \A e \in Entries : files'[e] \in {files[e], "none"}
  PROVE  ClearInv(p)'
<1> USE DEF At
<1>1. CommandsInv /\ TypeOK /\ ClearInv(p) /\ pc[p] # "idle"
      /\ Belongs(pc[p], cmd[p])
  BY ProcessStep DEF QuietInv, CalmInv, CommandsInv, PhaseInv
<1>2. /\ \A r : Finish(p, r) => pc'[p] = "idle"
      /\ \A l : Goto(p, l) => pc'[p] = l /\ todo'[p] = todo[p]
      /\ \A l, s : Visit(p, l, s) => pc'[p] = l /\ todo'[p] = s
  BY <1>1 DEF TypeOK, Finish, Goto, Visit
<1>3. /\ \A r : Finish(p, r) => pc'[p] = "idle"
      /\ \A l : Goto(p, l) => pc'[p] = l
      /\ \A l, s : Visit(p, l, s) => pc'[p] = l
  BY <1>2
<1>4. CASE pc'[p] \notin {"remove", "rmdir"}
  BY <1>4 DEF ClearInv
<1>5. CASE Glob(p)
  <2>1. files' = files /\ pc'[p] = "remove"
        /\ todo'[p] = {e \in Entries : files[e] # "none"}
    BY <1>2, <1>5 DEF Glob, disk
  <2> QED
    BY <2>1 DEF ClearInv
<1>6. CASE Remove(p)
  <2>1. pc[p] = "remove" /\ \A e \in Entries \ todo[p] : files[e] \in {"none", "subdir"}
    BY <1>1, <1>6 DEF Remove, ClearInv
  <2>2. CASE todo[p] = {} /\ pc'[p] = "rmdir"
    BY <2>1, <2>2 DEF ClearInv
  <2>3. CASE pc'[p] = "idle"
    BY <2>3 DEF ClearInv
  <2>4. ASSUME NEW e \in todo[p], Visit(p, "remove", todo[p] \ {e}),
               IF files[e] = "subdir" THEN UNCHANGED files ELSE Put(e, "none")
        PROVE  ClearInv(p)'
    <3>1. pc'[p] = "remove" /\ todo'[p] = todo[p] \ {e}
      BY <1>2, <2>4
    <3>2. files'[e] \in {"none", "subdir"}
      BY <1>1, <2>4 DEF TypeOK, Put
    <3> QED
      BY <2>1, <3>1, <3>2 DEF ClearInv
  <2> QED
    BY <1>2, <1>6, <2>2, <2>3, <2>4 DEF Remove
<1>7. CASE \/ Decline(p) \/ Kill(p) \/ Confirm(p)
           \/ ProbeList(p) \/ ProbeState(p) \/ List(p) \/ State(p) \/ Recheck(p)
  <2>1. pc'[p] \notin {"remove", "rmdir"}
    BY <1>3, <1>7
    DEF Decline, Kill, Confirm, ProbeList, ProbeState, OnAbsent, OnPresent, List,
        State, Recheck, OnDestroyState
  <2> QED
    BY <1>4, <2>1
<1>8. CASE \/ Verb(p) \/ ForceOff(p) \/ Undefine(p) \/ UndefineMetadata(p)
           \/ Rmdir(p)
  <2>1. pc'[p] \notin {"remove", "rmdir"}
    BY <1>3, <1>8
    DEF Verb, ForceOff, Undefine, UndefineMetadata, Call, Rmdir
  <2> QED
    BY <1>4, <2>1
<1>9. CASE \/ ConsiderDisk(p) \/ CopyDisk(p) \/ ResizeDisk(p)
           \/ Render(p) \/ OpenIso(p) \/ WriteIso(p) \/ Deploy(p)
  <2>1. pc'[p] \notin {"remove", "rmdir"}
    BY <1>3, <1>9
    DEF ConsiderDisk, CopyDisk, ResizeDisk, Render, OpenIso, WriteIso, Deploy
  <2> QED
    BY <1>4, <2>1
<1> QED
  BY <1>5, <1>6, <1>7, <1>8, <1>9 DEF Step

LEMMA QuietStep ==
  ASSUME "up" \notin Commands, "cloudinit" \notin Commands, QuietInv, [Next]_vars
  PROVE  QuietInv'
<1>1. CalmInv' /\ TypeOK /\ ProcessTypes
  BY CalmStep, CommandsHalves DEF QuietInv, CalmInv, CommandsInv
<1>2. \A e \in Entries : files'[e] \in {files[e], "none"}
  BY QuietFiles
<1>3. ASSUME NEW q \in Procs, pc'[q] = pc[q], todo'[q] = todo[q] PROVE ClearInv(q)'
  BY <1>2, <1>3 DEF QuietInv, ClearInv
<1>4. CASE UNCHANGED vars \/ Guest
  BY <1>1, <1>3, <1>4 DEF vars, Guest, QuietInv
<1>5. ASSUME NEW p \in Procs, NEW c \in Commands, Issue(p, c) PROVE QuietInv'
  <2>1. \A q \in Procs : todo'[q] = todo[q]
                         /\ (pc'[q] = pc[q] \/ pc'[q] \in {"render", "probe list"})
    BY <1>1, <1>5 DEF TypeOK, Issue
  <2>2. \A q \in Procs : pc'[q] \in {"render", "probe list"} => ClearInv(q)'
    BY DEF ClearInv
  <2> QED
    BY <1>1, <1>3, <2>1, <2>2 DEF QuietInv
<1>6. ASSUME NEW p \in Procs, Step(p) \/ Decline(p) \/ Kill(p) PROVE QuietInv'
  <2>1. OthersStay(p)
    BY <1>1, <1>6, ProcessStep, EndsTo, MovesTo DEF QuietInv, CalmInv
  <2>2. ClearInv(p)'
    BY <1>2, <1>6, QuietMover
  <2> QED
    BY <1>1, <1>3, <2>1, <2>2 DEF QuietInv, OthersStay
<1> QED
  BY <1>4, <1>5, <1>6 DEF Next

\* Of any number of destroys of one machine, beside any downs and snapshot
\* commands, each that reports success has left neither a domain nor a file
\* (_DomainDestroyer.destroy).
THEOREM ConcurrentDestroyHonest ==
  ASSUME "up" \notin Commands, "cloudinit" \notin Commands
  PROVE  Spec => DestroyHonest
<1>1. Init => QuietInv
  BY CalmInit DEF QuietInv, Init, ClearInv
<1>2. QuietInv /\ [Next]_vars => QuietInv'
  BY QuietStep
<1>3. QuietInv /\ [Next]_vars =>
        [\A p \in Procs :
           cmd[p] = "destroy" /\ pc[p] # "idle" /\ result'[p] = "ok" =>
             /\ state' = "absent"
             /\ \A e \in Entries : files'[e] \in {"none", "subdir"}
             /\ dir' => files'["other"] = "subdir"]_vars
  BY HonestStep DEF QuietInv, CalmInv
<1> QED
  BY <1>1, <1>2, <1>3, PTL DEF Spec, DestroyHonest
=============================================================================
