---------------------------- MODULE LvlabMachine ----------------------------
(***************************************************************************)
(* One machine of a Lvlab.yml manifest: its libvirt domain, the files of   *)
(* its directory, and the lvlab commands (up, down, destroy, snapshot      *)
(* create/delete, cloudinit) that processes run against it.  A command is  *)
(* a sequence of virsh calls and file operations; nothing locks the        *)
(* machine between two of them, every call can fail, and a process can be  *)
(* killed anywhere.  A virsh verb that fails may have been carried out.    *)
(***************************************************************************)
EXTENDS Naturals

CONSTANTS
  Procs,          \* processes running lvlab commands on this machine
  Snapshots,      \* snapshot names
  Commands,       \* the commands the users issue
  GuestStates,    \* live states the guest can enter on its own
  Strategy,       \* disk strategy of the manifest: "copy" or "backing"
  UriInManifest,  \* whether the environment sets libvirt_uri
  MaxFaults       \* bound on failing calls and killed processes

AllCommands == {"up", "down", "destroy", "snapshot create",
                "snapshot delete", "cloudinit"}

\* What `virsh domstate' prints.
RUNNING_STATES == {"running", "paused"}
DEAD_STATES == {"shut off", "crashed"}
SHUTDOWNABLE_STATES == {"running", "idle", "paused", "pmsuspended"}
LIVE_STATES == SHUTDOWNABLE_STATES \cup {"in shutdown"}
States == LIVE_STATES \cup DEAD_STATES

ASSUME MachineAssumption ==
  /\ Commands \subseteq AllCommands
  /\ GuestStates \subseteq LIVE_STATES
  /\ Strategy \in {"copy", "backing"}
  /\ UriInManifest \in BOOLEAN
  /\ MaxFaults \in Nat

\* disk0 is the disk virt-install attaches; disk1 stands for the others the
\* manifest lists.  "other" is an entry the tool did not create.
Disks == {"disk0", "disk1"}
Entries == Disks \cup {"docs", "iso", "other"}

\* "base" is a full copy at the size of the image, "sized" the disk as the
\* manifest wants it, "guest" a disk a guest has booted from and written to.
Contents == {"none", "partial", "base", "sized", "guest", "whole", "subdir"}

Labels == {"idle", "probe list", "probe state", "confirm", "list", "state",
           "verb", "force", "recheck", "undefine", "undefine metadata",
           "glob", "remove", "rmdir",
           "disks", "copy", "resize", "render", "iso", "iso write", "deploy"}

Results == {"none", "ok", "noop", "error", "killed"}

VARIABLES
  state,       \* state of the domain, or "absent"
  persistent,  \* whether the domain has a persistent definition
  snaps,       \* snapshots libvirt records for the domain
  dir,         \* whether the machine's directory exists
  files,       \* content of the entries of the directory
  pc,          \* next step of each process
  cmd,         \* command of each process
  todo,        \* entries a process still has to visit in its current loop
  result,      \* how the last command of each process ended
  faults       \* failing calls and kills so far

domain == <<state, persistent, snaps>>
disk == <<dir, files>>
vars == <<state, persistent, snaps, dir, files, pc, cmd, todo, result, faults>>

TypeOK ==
  /\ state \in States \cup {"absent"}
  /\ persistent \in BOOLEAN
  /\ snaps \in SUBSET Snapshots
  /\ dir \in BOOLEAN
  /\ files \in [Entries -> Contents]
  /\ pc \in [Procs -> Labels]
  /\ cmd \in [Procs -> AllCommands]
  /\ todo \in [Procs -> SUBSET Entries]
  /\ result \in [Procs -> Results]
  /\ faults \in 0..MaxFaults

NoFiles == [e \in Entries |-> "none"]

\* The machine was never deployed, or a guest runs, or rests, on its files.
Init ==
  /\ \/ /\ state = "absent"
        /\ persistent = FALSE
        /\ dir = FALSE
        /\ files = NoFiles
     \/ /\ state \in GuestStates \cup DEAD_STATES \cup {"running"}
        /\ persistent = TRUE
        /\ dir = TRUE
        /\ \E extra \in {"none", "whole", "subdir"} :
             files = [NoFiles EXCEPT !["disk0"] = "guest", !["disk1"] = "sized",
                                     !["docs"] = "whole", !["iso"] = "whole",
                                     !["other"] = extra]
  /\ snaps = {}
  /\ pc = [p \in Procs |-> "idle"]
  /\ cmd \in [Procs -> {"up"}]
  /\ todo = [p \in Procs |-> {}]
  /\ result = [p \in Procs |-> "none"]
  /\ faults = 0

-----------------------------------------------------------------------------
(* Control *)

Fault == faults < MaxFaults /\ faults' = faults + 1
Fine == faults' = faults

Goto(p, label) ==
  /\ pc' = [pc EXCEPT ![p] = label]
  /\ UNCHANGED <<cmd, todo, result>>

Visit(p, label, entries) ==
  /\ pc' = [pc EXCEPT ![p] = label]
  /\ todo' = [todo EXCEPT ![p] = entries]
  /\ UNCHANGED <<cmd, result>>

Finish(p, r) ==
  /\ pc' = [pc EXCEPT ![p] = "idle"]
  /\ todo' = [todo EXCEPT ![p] = {}]
  /\ result' = [result EXCEPT ![p] = r]
  /\ UNCHANGED cmd

At(p, label) == pc[p] = label

\* A user issues command c; cloudinit never asks libvirt anything.
Issue(p, c) ==
  /\ At(p, "idle")
  /\ cmd' = [cmd EXCEPT ![p] = c]
  /\ pc' = [pc EXCEPT ![p] = IF c = "cloudinit" THEN "render" ELSE "probe list"]
  /\ result' = [result EXCEPT ![p] = "none"]
  /\ UNCHANGED <<domain, disk, todo, faults>>

Kill(p) ==
  /\ ~At(p, "idle")
  /\ Finish(p, "killed")
  /\ Fault
  /\ UNCHANGED <<domain, disk>>

-----------------------------------------------------------------------------
(* Queries: what the command does with each answer *)

ForceOffable_NotPaused(s) == s = "running"
ForceOffable(s) == s \in RUNNING_STATES

\* poweron's check
Startable_OnlyShutOff(s) == s = "shut off"
Startable(s) == s \in DEAD_STATES

Undefinable_Always(s) == TRUE
Undefinable(s) == s \in DEAD_STATES

\* The machine is not in libvirt: up creates it, the others only say so.
OnAbsent(p) ==
  \/ cmd[p] = "up" /\ Visit(p, "disks", Disks)
  \/ cmd[p] # "up" /\ Finish(p, "noop")

\* The machine is in libvirt: what each command does given its state.
OnPresent(p) ==
  LET proceed == \/ cmd[p] = "up" /\ state \in DEAD_STATES
                 \/ cmd[p] = "down" /\ state \in {"running", "paused"}
                 \/ cmd[p] \notin {"up", "down"}
      asks == cmd[p] \in {"destroy", "snapshot delete"}
  IN  \/ /\ proceed
         /\ IF cmd[p] = "up" /\ ~UriInManifest
            THEN Finish(p, "error")     \* poweron(None): TypeError in run_virsh
            ELSE Goto(p, IF asks THEN "confirm" ELSE "list")
      \/ ~proceed /\ Finish(p, "noop")

\* exists_in_libvirt, first call
ProbeList(p) ==
  /\ At(p, "probe list")
  /\ \/ Fine /\ state # "absent" /\ Goto(p, "probe state")
     \/ Fine /\ state = "absent" /\ OnAbsent(p)
     \/ Fault /\ Finish(p, "error")
  /\ UNCHANGED <<domain, disk>>

\* exists_in_libvirt, second call: any failure is read as "absent"
ProbeState(p) ==
  /\ At(p, "probe state")
  /\ \/ Fine /\ state # "absent" /\ OnPresent(p)
     \/ Fine /\ state = "absent" /\ OnAbsent(p)
     \/ Fault /\ OnAbsent(p)
  /\ UNCHANGED <<domain, disk>>

\* The prompt; --force is a user who confirms at once.
Confirm(p) ==
  /\ At(p, "confirm")
  /\ Goto(p, "list")
  /\ UNCHANGED <<domain, disk, faults>>

Decline(p) ==
  /\ At(p, "confirm")
  /\ Finish(p, "noop")
  /\ UNCHANGED <<domain, disk, faults>>

\* virsh_list_all_names at the head of the operation itself
List(p) ==
  /\ At(p, "list")
  /\ \/ /\ Fine
        /\ state # "absent"
        /\ Goto(p, IF cmd[p] \in {"up", "down", "destroy"} THEN "state" ELSE "verb")
     \/ /\ Fine
        /\ state = "absent"
        /\ Finish(p, IF cmd[p] \in {"up", "down"} THEN "ok" ELSE "error")
     \/ Fault /\ Finish(p, "error")
  /\ UNCHANGED <<domain, disk>>

\* destroy's decision on a state it has observed
OnDestroyState(p) ==
  \/ Undefinable(state) /\ Goto(p, "undefine")
  \/ ~Undefinable(state) /\ Finish(p, "error")

State(p) ==
  /\ At(p, "state")
  /\ \/ /\ Fine
        /\ state # "absent"
        /\ \/ /\ cmd[p] = "up"
              /\ \/ Startable(state) /\ Goto(p, "verb")
                 \/ ~Startable(state) /\ Finish(p, "ok")
           \/ /\ cmd[p] = "down"
              /\ \/ state \in SHUTDOWNABLE_STATES /\ Goto(p, "verb")
                 \/ state \notin SHUTDOWNABLE_STATES /\ Finish(p, "ok")
           \/ /\ cmd[p] = "destroy"
              /\ \/ ForceOffable(state) /\ Goto(p, "force")
                 \/ ~ForceOffable(state) /\ OnDestroyState(p)
     \/ Fine /\ state = "absent" /\ Finish(p, "error")
     \/ Fault /\ Finish(p, "error")
  /\ UNCHANGED <<domain, disk>>

-----------------------------------------------------------------------------
(* Verbs.  libvirt's own behaviour is external; a call is carried out and   *)
(* acknowledged, refused, or carried out although the caller sees an error. *)

\* The domain stops running: a transient one disappears with that.
PowerOff ==
  /\ state' = IF persistent THEN "shut off" ELSE "absent"
  /\ snaps' = IF persistent THEN snaps ELSE {}
  /\ UNCHANGED persistent

VirshStart ==
  /\ state \in DEAD_STATES
  /\ state' = "running"
  /\ UNCHANGED <<persistent, snaps>>

\* The guest is asked to power off; when it does is up to it.
VirshShutdown ==
  /\ state \in {"running", "idle", "paused", "pmsuspended"}
  /\ state' \in {state, "in shutdown"}
  /\ UNCHANGED <<persistent, snaps>>

VirshDestroy == state \in LIVE_STATES /\ PowerOff

VirshSnapshot(s) ==
  /\ state # "absent"
  /\ s \notin snaps
  /\ snaps' = snaps \cup {s}
  /\ UNCHANGED <<state, persistent>>

VirshSnapshotDelete(s) ==
  /\ s \in snaps
  /\ snaps' = snaps \ {s}
  /\ UNCHANGED <<state, persistent>>

\* Undefining a live domain leaves it running without a definition.
SnapshotsBlock == state \in DEAD_STATES /\ snaps # {}
VirshUndefine ==
  /\ persistent
  /\ persistent' = FALSE
  /\ state' = IF state \in DEAD_STATES THEN "absent" ELSE state
  /\ snaps' = IF state \in DEAD_STATES THEN {} ELSE snaps

\* One virsh call: effect is what libvirt does when it carries the verb out,
\* can whether it is able to, done what the process does once it is told so.
Call(p, can, effect, done) ==
  \/ Fine /\ can /\ effect /\ done
  \/ Fine /\ ~can /\ UNCHANGED domain /\ Finish(p, "error")
  \/ Fault /\ UNCHANGED domain /\ Finish(p, "error")
  \/ Fault /\ can /\ effect /\ Finish(p, "error")

\* the last step of up on a dead machine, of down and of the snapshot commands
Verb(p) ==
  /\ At(p, "verb")
  /\ \/ /\ cmd[p] = "up"
        /\ Call(p, state \in DEAD_STATES, VirshStart, Finish(p, "ok"))
     \/ /\ cmd[p] = "down"
        /\ Call(p, state \in SHUTDOWNABLE_STATES, VirshShutdown, Finish(p, "ok"))
     \/ /\ cmd[p] = "snapshot create"
        /\ \E s \in Snapshots :
             Call(p, state # "absent" /\ s \notin snaps, VirshSnapshot(s),
                  Finish(p, "ok"))
     \/ /\ cmd[p] = "snapshot delete"
        /\ \E s \in Snapshots :
             Call(p, s \in snaps, VirshSnapshotDelete(s), Finish(p, "ok"))
  /\ UNCHANGED disk

\* _force_off_if_alive: virsh destroy, then ask for the state again
ForceOff(p) ==
  /\ At(p, "force")
  /\ Call(p, state \in LIVE_STATES, VirshDestroy, Goto(p, "recheck"))
  /\ UNCHANGED disk

Recheck(p) ==
  /\ At(p, "recheck")
  /\ \/ Fine /\ state # "absent" /\ OnDestroyState(p)
     \/ Fine /\ state = "absent" /\ Finish(p, "error")
     \/ Fault /\ Finish(p, "error")
  /\ UNCHANGED <<domain, disk>>

\* undefine_with_snapshot_cleanup: retried with --snapshots-metadata only on
\* the error libvirt gives for a domain that still owns snapshots
Undefine_IgnoresError(p) ==
  /\ At(p, "undefine")
  /\ \/ Fine /\ persistent /\ ~SnapshotsBlock /\ VirshUndefine /\ Goto(p, "glob")
     \/ Fine /\ SnapshotsBlock /\ Goto(p, "glob") /\ UNCHANGED domain
     \/ Fault /\ Goto(p, "glob") /\ UNCHANGED domain
  /\ UNCHANGED disk

Undefine(p) ==
  /\ At(p, "undefine")
  /\ \/ /\ SnapshotsBlock
        /\ Fine
        /\ Goto(p, "undefine metadata")
        /\ UNCHANGED domain
     \/ ~SnapshotsBlock /\ Call(p, persistent, VirshUndefine, Goto(p, "glob"))
     \/ SnapshotsBlock /\ Fault /\ Finish(p, "error") /\ UNCHANGED domain
  /\ UNCHANGED disk

UndefineMetadata(p) ==
  /\ At(p, "undefine metadata")
  /\ Call(p, persistent, VirshUndefine, Goto(p, "glob"))
  /\ UNCHANGED disk

-----------------------------------------------------------------------------
(* Files: _cleanup_files, create_vdisks, cloud-init and virt-install *)

Put(entry, content) == files' = [files EXCEPT ![entry] = content]

Glob(p) ==
  /\ At(p, "glob")
  /\ Visit(p, "remove", {e \in Entries : files[e] # "none"})
  /\ UNCHANGED <<domain, disk, faults>>

Remove_SkipsErrors(p) ==
  /\ At(p, "remove")
  /\ \/ Fine /\ todo[p] = {} /\ Goto(p, "rmdir") /\ UNCHANGED disk
     \/ \E e \in todo[p] :
          /\ Visit(p, "remove", todo[p] \ {e})
          /\ \/ Fine /\ files[e] # "subdir" /\ Put(e, "none")
             \/ Fine /\ files[e] = "subdir" /\ UNCHANGED files
             \/ Fault /\ UNCHANGED files
          /\ UNCHANGED dir
  /\ UNCHANGED domain

\* Only regular files are removed; the first error ends the command.
Remove(p) ==
  /\ At(p, "remove")
  /\ \/ Fine /\ todo[p] = {} /\ Goto(p, "rmdir") /\ UNCHANGED disk
     \/ /\ Fine
        /\ \E e \in todo[p] :
             /\ Visit(p, "remove", todo[p] \ {e})
             /\ IF files[e] = "subdir" THEN UNCHANGED files ELSE Put(e, "none")
        /\ UNCHANGED dir
     \/ Fault /\ todo[p] # {} /\ Finish(p, "error") /\ UNCHANGED disk
  /\ UNCHANGED domain

\* A directory that is not empty stays, with a warning.
Rmdir(p) ==
  /\ At(p, "rmdir")
  /\ \/ /\ Fine
        /\ dir' = (dir /\ files # NoFiles)
        /\ Finish(p, IF dir THEN "ok" ELSE "error")  \* os.listdir raises
     \/ Fault /\ UNCHANGED dir /\ Finish(p, "error")
  /\ UNCHANGED <<domain, files>>

NextDisk(s) == IF "disk0" \in s THEN "disk0" ELSE "disk1"

Missing_Unchecked(content) == TRUE
Missing(content) == content = "none"

\* The next disk of the manifest: skipped when a file is there, otherwise
\* its directory is made and the file opened; failing to is only logged.
ConsiderDisk(p) ==
  LET d == NextDisk(todo[p]) IN
  /\ At(p, "disks")
  /\ \/ /\ Fine
        /\ todo[p] = {}
        /\ Goto(p, "render")
        /\ UNCHANGED disk
     \/ /\ Fine
        /\ todo[p] # {}
        /\ ~Missing(files[d])
        /\ Visit(p, "disks", todo[p] \ {d})
        /\ UNCHANGED disk
     \/ /\ Fine
        /\ todo[p] # {}
        /\ Missing(files[d])
        /\ Goto(p, "copy")
        /\ Put(d, "partial")
        /\ dir' = TRUE
     \/ /\ Fault
        /\ todo[p] # {}
        /\ Missing(files[d])
        /\ Visit(p, "disks", todo[p] \ {d})
        /\ dir' \in {dir, TRUE}
        /\ UNCHANGED files
  /\ UNCHANGED domain

\* shutil.copyfile, or qemu-img create -b; a failed one leaves its file.
CopyDisk(p) ==
  LET d == NextDisk(todo[p])
      written == IF Strategy = "copy" THEN "base" ELSE "sized"
  IN
  /\ At(p, "copy")
  /\ \/ /\ Fine
        /\ IF files[d] = "none" THEN UNCHANGED files ELSE Put(d, written)
        /\ IF Strategy = "copy"
           THEN Goto(p, "resize")
           ELSE Visit(p, "disks", todo[p] \ {d})
     \/ /\ Fault
        /\ UNCHANGED files
        /\ Visit(p, "disks", todo[p] \ {d})
  /\ UNCHANGED <<domain, dir>>

\* qemu-img resize, whose failure is tolerated
ResizeDisk(p) ==
  LET d == NextDisk(todo[p]) IN
  /\ At(p, "resize")
  /\ Visit(p, "disks", todo[p] \ {d})
  /\ \/ Fine /\ IF files[d] = "none" THEN UNCHANGED files ELSE Put(d, "sized")
     \/ Fault /\ UNCHANGED files
  /\ UNCHANGED <<domain, dir>>

\* meta-data, user-data and network-config, also all that cloudinit does
Render(p) ==
  /\ At(p, "render")
  /\ \/ /\ Fine
        /\ dir' = TRUE
        /\ Put("docs", "whole")
        /\ IF cmd[p] = "up" THEN Goto(p, "iso") ELSE Finish(p, "ok")
     \/ /\ Fault
        /\ Finish(p, "error")
        /\ \/ dir' \in {dir, TRUE} /\ UNCHANGED files
           \/ dir' = TRUE /\ Put("docs", "partial")
  /\ UNCHANGED domain

\* CloudInitIso.write opens the file, then writes it; it needs the three
\* rendered files, of which some may be missing when they are "partial".
OpenIso(p) ==
  /\ At(p, "iso")
  /\ \/ /\ Fine
        /\ files["docs"] # "none"
        /\ Put("iso", "partial")
        /\ Goto(p, "iso write")
     \/ /\ Fine
        /\ files["docs"] # "whole"
        /\ UNCHANGED files
        /\ Finish(p, "error")
     \/ /\ Fault
        /\ UNCHANGED files
        /\ Finish(p, "error")
  /\ UNCHANGED <<domain, dir>>

WriteIso(p) ==
  /\ At(p, "iso write")
  /\ \/ /\ Fine
        /\ IF files["iso"] = "none" THEN UNCHANGED files ELSE Put("iso", "whole")
        /\ Goto(p, "deploy")
     \/ /\ Fault
        /\ UNCHANGED files
        /\ Finish(p, "error")
  /\ UNCHANGED <<domain, dir>>

\* virt-install refuses a name that is taken and paths that do not exist;
\* the guest it starts makes the disk its own.
Deployable == state = "absent" /\ files["disk0"] # "none" /\ files["iso"] # "none"

Install ==
  /\ Deployable
  /\ state' = "running"
  /\ persistent' = TRUE
  /\ snaps' = {}
  /\ IF files["disk0"] = "partial" THEN UNCHANGED files ELSE Put("disk0", "guest")

\* A failing virt-install may have defined and started the domain.
Deploy(p) ==
  /\ At(p, "deploy")
  /\ \/ Fine /\ Install /\ Finish(p, "ok")
     \/ Fine /\ ~Deployable /\ UNCHANGED <<domain, files>> /\ Finish(p, "error")
     \/ Fault /\ Install /\ Finish(p, "error")
     \/ Fault /\ UNCHANGED <<domain, files>> /\ Finish(p, "error")
  /\ UNCHANGED dir

-----------------------------------------------------------------------------
(* The guest moves between live states and may power off or crash. *)

GuestMove ==
  /\ state \in LIVE_STATES \ {"in shutdown"}
  /\ state' \in GuestStates
  /\ state' # state
  /\ UNCHANGED <<persistent, snaps>>

GuestCrash ==
  /\ state \in LIVE_STATES
  /\ persistent
  /\ state' = "crashed"
  /\ UNCHANGED <<persistent, snaps>>

GuestOff == state \in {"running", "in shutdown"} /\ PowerOff

Guest ==
  /\ GuestMove \/ GuestCrash \/ GuestOff
  /\ UNCHANGED <<dir, files, pc, cmd, todo, result, faults>>

Step(p) ==
  \/ ProbeList(p) \/ ProbeState(p) \/ Confirm(p) \/ List(p) \/ State(p) \/ Verb(p)
  \/ ForceOff(p) \/ Recheck(p) \/ Undefine(p) \/ UndefineMetadata(p)
  \/ Glob(p) \/ Remove(p) \/ Rmdir(p)
  \/ ConsiderDisk(p) \/ CopyDisk(p) \/ ResizeDisk(p)
  \/ Render(p) \/ OpenIso(p) \/ WriteIso(p) \/ Deploy(p)

Next ==
  \/ Guest
  \/ \E p \in Procs : Step(p) \/ Decline(p) \/ Kill(p) \/ \E c \in Commands : Issue(p, c)

Spec == Init /\ [][Next]_vars

-----------------------------------------------------------------------------
(* Properties of one command at a time (Procs a singleton) *)

\* While the machine is in libvirt it has a definition, and the disk and the
\* seed it boots from are there.
DomainInv ==
  /\ persistent <=> state # "absent"
  /\ state # "absent" => files["disk0"] # "none" /\ files["iso"] # "none"

FilesInDir == \A e \in Entries : files[e] # "none" => dir

DirInv == FilesInDir /\ files["disk1"] # "guest"

\* A process that is about to undefine the machine, or to remove its files,
\* finds the domain as it left it at its check, several calls earlier
\* (_DomainDestroyer.destroy).
CheckInv(p) ==
  /\ pc[p] \in {"undefine", "undefine metadata"} => state \notin LIVE_STATES
  /\ pc[p] \in {"glob", "remove", "rmdir"} => state = "absent"

\* What it has visited stays removed.
ClearInv(p) ==
  /\ pc[p] = "remove" => \A e \in Entries \ todo[p] : files[e] \in {"none", "subdir"}
  /\ pc[p] = "rmdir" => \A e \in Entries : files[e] \in {"none", "subdir"}

\* The disk that create_vdisks writes is the one it opened, of no machine.
WriterInv(p) ==
  /\ pc[p] \in {"disks", "copy", "resize"} => todo[p] \subseteq Disks
  /\ pc[p] \in {"copy", "resize"} =>
       /\ todo[p] # {}
       /\ files[NextDisk(todo[p])] \in {"partial", "base"}
       /\ NextDisk(todo[p]) = "disk0" => state = "absent"

ControlInv(p) == CheckInv(p) /\ ClearInv(p) /\ WriterInv(p)

MachineInv == TypeOK /\ DomainInv /\ DirInv /\ \A p \in Procs : ControlInv(p)

-----------------------------------------------------------------------------
(* Properties of any number of processes *)

Destroying == {"force", "recheck", "undefine", "undefine metadata", "glob",
               "remove", "rmdir"}
Creating == {"disks", "copy", "resize", "iso", "iso write", "deploy"}

\* The steps a command can be at, as far as the properties tell them apart.
Belongs(label, command) ==
  /\ label \in Destroying => command = "destroy"
  /\ label \in Creating => command = "up"
  /\ label = "render" => command \in {"up", "cloudinit"}
  /\ label = "verb" => command # "destroy"

PhaseInv(p) ==
  pc[p] # "idle" =>
    result[p] = "none" /\ cmd[p] \in Commands /\ Belongs(pc[p], cmd[p])

\* Whatever overlaps, no command strays into another's steps, the directory
\* is there as long as it holds something (Rmdir), and the only thing in it
\* that cleanup leaves is one the tool did not create (_cleanup_files).
CommandsInv ==
  /\ TypeOK
  /\ FilesInDir
  /\ \A e \in Entries : files[e] = "subdir" => e = "other"
  /\ \A p \in Procs : PhaseInv(p)

\* Without up nothing brings a domain to life, so that what one of several
\* processes saw before its undefine still holds at its undefine, and a
\* machine out of libvirt stays out while its files are removed.
CalmInv ==
  /\ CommandsInv
  /\ persistent <=> state # "absent"
  /\ \A p \in Procs : CheckInv(p)

-----------------------------------------------------------------------------
(* Action properties *)

\* A domain that is running, paused, idle or shutting down is never undefined
\* (the check _DomainDestroyer.destroy makes before its undefine).
NeverUndefineLive ==
  [][persistent /\ ~persistent' => state \in DEAD_STATES]_vars

\* As long as the machine is in libvirt, no file of its directory is removed:
\* cleanup comes after an undefine that was carried out.
FilesStay ==
  [][state # "absent" =>
       \A e \in Entries : files[e] # "none" => files'[e] # "none"]_vars

\* A destroy that reports success leaves no domain and no regular file, and a
\* directory only when it held something that is not a file.
DestroyHonest ==
  [][\A p \in Procs :
       cmd[p] = "destroy" /\ pc[p] # "idle" /\ result'[p] = "ok" =>
         /\ state' = "absent"
         /\ \A e \in Entries : files'[e] \in {"none", "subdir"}
         /\ dir' => files'["other"] = "subdir"]_vars

\* What a guest has written to its disk stays there until the machine is out
\* of libvirt, even when up mistakes a machine that exists for a missing one.
GuestDataKept ==
  [][files["disk0"] = "guest" =>
       \/ files'["disk0"] = "guest"
       \/ files'["disk0"] = "none" /\ state = "absent"]_vars

-----------------------------------------------------------------------------
(* Liveness.  A started command makes its calls, a user who wants the       *)
(* machine up or gone asks again and confirms, and a guest that is being    *)
(* shut down powers off.                                                    *)

FairSpec ==
  /\ Spec
  /\ \A p \in Procs : WF_vars(Step(p)) /\ SF_vars(Confirm(p))
  /\ \A p \in Procs, c \in Commands : WF_vars(Issue(p, c))
  /\ WF_vars(state = "in shutdown" /\ Guest)

OnlyRepeats(c) == \A p \in Procs : cmd[p] = c

\* Whatever calls fail and whatever went before, a user who repeats destroy
\* gets rid of the domain (_force_off_if_alive, then the undefine).
DestroyWorks == <>[]OnlyRepeats("destroy") => <>[](state = "absent")

\* Whatever calls fail and whatever went before, a user who repeats up has a
\* machine that runs, and has it again after each crash (cli.py's up).
UpBoots == <>[]OnlyRepeats("up") => []<>(state \in RUNNING_STATES)

-----------------------------------------------------------------------------
(* What the commands promise together: MachineContract.  Its disk is the    *)
(* one the guest boots from; how it is written, and all that is done on the *)
(* way to a decision, is left out.                                          *)

DiskOf(content) ==
  CASE content = "none"  -> "missing"
    [] content = "guest" -> "used"
    [] OTHER             -> "new"

Contract == INSTANCE MachineContract WITH
  deployed <- state # "absent",
  live <- state \in LIVE_STATES,
  storage <- DiskOf(files["disk0"])

\* Every step of a command, and every way it can fail, is a step of the
\* contract or leaves the contract's view of the machine alone.
ImplementsContract == Contract!Spec
=============================================================================
