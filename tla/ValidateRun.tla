---------------------------- MODULE ValidateRun ----------------------------
(***************************************************************************)
(* One run of the conformance harness: the main task that asks, runs every *)
(* scenario and reaps what carries its prefix, the memory pool that admits *)
(* the scenarios that boot a guest, one asyncio task per scenario with the *)
(* createvm and deletevm processes it drives, and a user who presses       *)
(* Ctrl-C.                                                                 *)
(*                                                                         *)
(* A task runs alone from one await to the next.  A process takes effect   *)
(* when it ends, or later if it outlives the task that waited for it;      *)
(* OneoffVm has its steps.                                                 *)
(***************************************************************************)
EXTENDS Integers, FiniteSets

CONSTANTS
  Guests,         \* scenarios that boot a guest
  Checks,         \* scenarios that only run a command
  Width,          \* --cheap-concurrency
  Cost,           \* memory of a scenario's guest and qemu's overhead, MiB
  Available,      \* what `free` reports as available, MiB
  Reserve,        \* --reserve-mib
  Load,           \* what a set of guests takes out of the pool together, MiB
  MaxInterrupts,  \* bound on how often the user presses Ctrl-C
  MaxFaults       \* bound on calls that fail and processes that live on

Scenarios == Guests \cup Checks

\* compute_budget_mib
Budget == IF Available > Reserve THEN Available - Reserve ELSE 0

\* An oversized guest is clamped, so that it runs alone.
Effective(g) ==
  IF Budget > 0 /\ Cost[g] > Budget THEN Budget ELSE Cost[g]

ASSUME HarnessAssumption ==
  /\ Guests \cap Checks = {}
  /\ Width \in Nat \ {0}
  /\ Cost \in [Guests -> Nat \ {0}]
  /\ Available \in Nat
  /\ Reserve \in Nat
  /\ MaxInterrupts \in Nat
  /\ MaxFaults \in Nat

\* Load is the sum of what the pool deducts for each guest of the set.
ASSUME LoadAssumption ==
  /\ Load \in [SUBSET Guests -> Nat]
  /\ Load[{}] = 0
  /\ \A g \in Guests : Load[{g}] = Effective(g)
  /\ \A S, T \in SUBSET Guests :
       S \cap T = {} => Load[S \cup T] = Load[S] + Load[T]

VARIABLES
  main,        \* where the main task is
  dry,         \* --dry-run
  at,          \* where each scenario's task is
  remaining,   \* VmPool._remaining
  struck,      \* tasks that have a CancelledError to raise
  todo,        \* domains the final reaping has yet to reap
  swept,       \* whether the final reaping came to its end
  domains,     \* guests that libvirt has a domain of, powered on or not
  folder,      \* guests that have a directory
  surviving,   \* guests whose createvm outlived the task that waited for it
  excused,     \* guests whose teardown could not be had whole
  late,        \* guests the final reaping missed, or failed on
  interrupts, faults

task == <<at, remaining, struck>>
host == <<domains, folder>>
ghosts == <<excused, late>>
ending == <<todo, swept>>
vars == <<main, dry, task, host, surviving, ghosts, ending, interrupts, faults>>

Driving == {"create", "poll", "delete"}
Ended == {"idle", "done", "cancelled"}

\* Guests whose task holds a lease.
Holders == {g \in Guests : at[g] \in Driving}

TypeOK ==
  /\ main \in {"confirm", "run", "closing", "list", "reap", "sweep", "ended"}
  /\ dry \in BOOLEAN
  /\ at \in [Scenarios -> Driving \cup Ended \cup {"queued", "asleep", "check"}]
  /\ \A c \in Checks : at[c] \notin Driving \cup {"asleep"}
  /\ \A g \in Guests : at[g] # "check"
  /\ remaining \in Nat
  /\ struck \in SUBSET Scenarios
  /\ todo \in SUBSET Guests
  /\ swept \in BOOLEAN
  /\ domains \in SUBSET Guests /\ folder \in SUBSET Guests
  /\ surviving \in SUBSET Guests
  /\ excused \in SUBSET Guests /\ late \in SUBSET Guests
  /\ interrupts \in 0..MaxInterrupts
  /\ faults \in 0..MaxFaults

\* The prefix is new with every run: nothing on the host carries it.
Init ==
  /\ main = "confirm"
  /\ dry \in BOOLEAN
  /\ \E chosen \in SUBSET Scenarios :
       at = [s \in Scenarios |-> IF s \in chosen THEN "queued" ELSE "idle"]
  /\ remaining = Budget
  /\ struck = {}
  /\ todo = {} /\ swept = FALSE
  /\ domains = {} /\ folder = {} /\ surviving = {}
  /\ excused = {} /\ late = {}
  /\ interrupts = 0 /\ faults = 0

Fault == faults < MaxFaults /\ faults' = faults + 1
Fine == faults' = faults

\* S, or S with g: what a step that may also fail leaves.
May(S, g) == {S, S \cup {g}}
MayNot(S, g) == {S, S \ {g}}

-----------------------------------------------------------------------------
(* The memory pool *)

\* Whether the pool can lease the guest its memory now.
Fits(g) == remaining >= Effective(g)

\* Mutants of Release: the clamp is forgotten; nobody is woken.
Release_Unclamped(g, next) ==
  /\ remaining' = remaining + Cost[g]
  /\ at' = [s \in Scenarios |->
              IF s = g THEN next ELSE IF at[s] = "asleep" THEN "queued" ELSE at[s]]
Release_Silent(g, next) ==
  /\ remaining' = remaining + Effective(g)
  /\ at' = [at EXCEPT ![g] = next]

\* The task of g leaves the pool: what it took is given back, all waiters are
\* woken, and the task ends as next says.
Release(g, next) ==
  /\ remaining' = remaining + Effective(g)
  /\ at' = [s \in Scenarios |->
              IF s = g THEN next ELSE IF at[s] = "asleep" THEN "queued" ELSE at[s]]

\* lease: a guest that does not fit waits for the next release.  A dry run
\* gives the lease back before its next await.
Lease(g) ==
  /\ main \in {"run", "closing"}
  /\ at[g] = "queued"
  /\ \/ /\ Fits(g) /\ ~dry
        /\ at' = [at EXCEPT ![g] = "create"]
        /\ remaining' = remaining - Effective(g)
     \/ /\ Fits(g) /\ dry
        /\ at' = [at EXCEPT ![g] = "done"]
        /\ remaining' = remaining
     \/ /\ ~Fits(g)
        /\ at' = [at EXCEPT ![g] = "asleep"]
        /\ remaining' = remaining
  /\ UNCHANGED <<main, dry, struck, host, surviving, ghosts, ending, interrupts, faults>>

-----------------------------------------------------------------------------
(* A scenario that boots a guest: CreateVmScenario.execute *)

Goes(s, place) == at' = [at EXCEPT ![s] = place]

\* createvm makes its directory and has virt-install define and start a domain.
Created(g) ==
  /\ folder' = folder \cup {g} /\ domains' = domains \cup {g}
  /\ UNCHANGED <<surviving, excused>>

\* It fails, or is killed at its timeout, with any part of that done; the
\* virt-install it started may live on.
CreateFails(g) ==
  /\ folder' \in May(folder, g)
  /\ domains' \in May(domains, g)
  /\ g \in domains' => g \in folder'
  /\ surviving' \in May(surviving, g)
  /\ excused' = excused \cup surviving'

\* A domain that is seen running is verified; all else is torn down at once.
CreateEnds(g) ==
  /\ main \in {"run", "closing"}
  /\ at[g] = "create"
  /\ \/ Created(g) /\ Goes(g, "poll") /\ Fine
     \/ CreateFails(g) /\ Goes(g, "delete") /\ Fault
  /\ UNCHANGED <<main, dry, remaining, struck, late, ending, interrupts>>

\* The address and the SSH probe are polled a bounded number of times.
PollEnds(g) ==
  /\ main \in {"run", "closing"}
  /\ at[g] = "poll"
  /\ Goes(g, "delete")
  /\ UNCHANGED <<main, dry, remaining, struck, host, surviving, ghosts, ending, interrupts, faults>>

\* deletevm refuses a name libvirt has no domain of, and removes the directory
\* once the domain is gone; a call that fails or its timeout ends it early.
Deletevm(g, D) ==
  IF g \in D \/ g \notin domains THEN folder' = folder
  ELSE folder' \in MayNot(folder, g)

\* Mutant of Backstop: what deletevm reports is believed.
Backstop_Trusting(g, D) == domains' = D /\ excused' = excused

\* The domain is reaped unless its state reads "absent", which it also does if
\* libvirt does not answer; reap_domain reports no destroy or undefine that fails.
Backstop(g, D) ==
  \/ domains' = D \ {g} /\ excused' = excused
  \/ g \in D /\ domains' = D /\ excused' = excused \cup {g}

\* deletevm succeeds.
Deleted(g) ==
  /\ domains' = domains \ {g}
  /\ folder' = IF g \in domains THEN folder \ {g} ELSE folder
  /\ excused' = excused

\* The end of a teardown.  The backstop and the release follow deletevm's end, or
\* its timeout, without an await between.
DeleteEnds(g) ==
  /\ main \in {"run", "closing"}
  /\ at[g] = "delete"
  /\ \/ Deleted(g) /\ Fine
     \/ /\ \E D \in MayNot(domains, g) : Deletevm(g, D) /\ Backstop(g, D)
        /\ Fault
  /\ Release(g, IF g \in struck THEN "cancelled" ELSE "done")
  /\ UNCHANGED <<main, dry, struck, surviving, late, ending, interrupts>>

-----------------------------------------------------------------------------
(* A scenario that runs one command: CheapScenario.execute *)

Checking == {c \in Checks : at[c] = "check"}

CheckStarts(c) ==
  /\ main \in {"run", "closing"}
  /\ at[c] = "queued"
  /\ Cardinality(Checking) < Width
  /\ Goes(c, "check")
  /\ UNCHANGED <<main, dry, remaining, struck, host, surviving, ghosts, ending, interrupts, faults>>

CheckEnds(c) ==
  /\ main \in {"run", "closing"}
  /\ at[c] = "check"
  /\ Goes(c, "done")
  /\ UNCHANGED <<main, dry, remaining, struck, host, surviving, ghosts, ending, interrupts, faults>>

-----------------------------------------------------------------------------
(* A createvm that outlives the task that waited for it *)

\* What is left of it may still make its directory and its domain.
CreatevmGoesOn(g) ==
  /\ g \in surviving
  /\ domains' \in May(domains, g)
  /\ folder' \in {folder, folder \cup {g}, folder \ {g}}
  /\ surviving' \in MayNot(surviving, g)
  /\ late' = IF main \in {"reap", "sweep", "ended"} THEN late \cup {g} ELSE late
  /\ UNCHANGED <<main, dry, task, excused, ending, interrupts, faults>>

-----------------------------------------------------------------------------
(* Cancellation *)

\* A CancelledError is thrown at the await of every task but those in spared: a
\* task that waits ends, one that has begun to provision tears down, and one
\* that tears down gives up.  The processes they waited for are not stopped: a
\* createvm goes on, and a deletevm may yet succeed.
CancelTasks(spared) ==
  LET torn == {g \in Guests \ spared : at[g] = "delete"}
      begun == {g \in Guests : at[g] \in {"create", "poll"}}
      creating == {g \in begun : at[g] = "create"}
  IN  /\ at' = [s \in Scenarios |->
                  IF s \in begun THEN "delete"
                  ELSE IF s \in torn \/ at[s] \in {"queued", "asleep", "check"}
                  THEN "cancelled" ELSE at[s]]
      /\ remaining' = remaining + Load[torn]
      /\ struck' = struck \cup begun
      /\ surviving' = surviving \cup creating
      /\ \E gone \in SUBSET (torn \cap domains) :
           domains' = domains \ gone /\ folder' = folder \ gone
      /\ excused' = excused \cup torn \cup creating

\* Closing the event loop cancels what is left of the tasks once more.  A task
\* that had not yet seen the first CancelledError sees only one.
CloseLoop ==
  /\ main' = "closing"
  /\ \E spared \in SUBSET struck : CancelTasks(spared)

NoTasks == UNCHANGED <<task, host, surviving, excused>>

\* Before the tasks run, Ctrl-C only marks the main task; the prompt goes on.
\* The second time it ends the prompt.
InterruptAsking ==
  /\ main = "confirm"
  /\ IF interrupts = 0 THEN main' = main
     ELSE main' = (IF dry THEN "ended" ELSE "list")
  /\ NoTasks

\* The first Ctrl-C cancels the main task, which cancels gather and with it all
\* scenarios.  The second ends the event loop.
InterruptRunning ==
  /\ main = "run"
  /\ IF interrupts = 0 THEN CancelTasks({}) /\ main' = main
     ELSE CloseLoop

\* While the loop closes, Ctrl-C leaves the tasks where they are; during the
\* final reaping, it ends that.
InterruptEnding ==
  /\ main \in {"closing", "list", "reap", "sweep"}
  /\ main' = IF main = "closing" /\ ~dry THEN "list" ELSE "ended"
  /\ NoTasks

Interrupt ==
  /\ interrupts < MaxInterrupts
  /\ interrupts' = interrupts + 1
  /\ InterruptAsking \/ InterruptRunning \/ InterruptEnding
  /\ UNCHANGED <<dry, late, ending, faults>>

-----------------------------------------------------------------------------
(* The main task: _run, main *)

Drop(S) == [s \in Scenarios |-> IF s \in S THEN "idle" ELSE at[s]]

\* The stateful lane is confirmed or dropped.  A main task that Ctrl-C has
\* marked is cancelled when it first waits, with all its scenarios.
Confirm ==
  /\ main = "confirm"
  /\ main' = "run"
  /\ \E dropped \in IF dry THEN {{}} ELSE {{}, Guests} :
       at' = IF interrupts = 0 THEN Drop(dropped)
             ELSE [s \in Scenarios |->
                     IF Drop(dropped)[s] = "queued" THEN "cancelled" ELSE Drop(dropped)[s]]
  /\ UNCHANGED <<dry, remaining, struck, host, surviving, ghosts, ending, interrupts, faults>>

\* virsh cannot list the domains to show before the question.
ConfirmRaises ==
  /\ main = "confirm" /\ ~dry
  /\ \E g \in Guests : at[g] = "queued"
  /\ main' = "list"
  /\ Fault
  /\ UNCHANGED <<dry, task, host, surviving, ghosts, ending, interrupts>>

AllEnded == \A s \in Scenarios : at[s] \in Ended

\* gather returns and the report is written, or cannot be; a main task that is
\* cancelled only now has nothing left to cancel.
RunEnds ==
  /\ main = "run" /\ AllEnded
  /\ main' = IF dry THEN "ended" ELSE "list"
  /\ UNCHANGED <<dry, task, host, surviving, ghosts, ending, interrupts, faults>>

\* gather fails with its first scenario that ends cancelled.
RunCancelled ==
  /\ main = "run" /\ interrupts > 0
  /\ \E s \in Scenarios : at[s] = "cancelled"
  /\ CloseLoop
  /\ UNCHANGED <<dry, late, ending, interrupts, faults>>

LoopCloses ==
  /\ main = "closing" /\ AllEnded
  /\ main' = IF dry THEN "ended" ELSE "list"
  /\ UNCHANGED <<dry, task, host, surviving, ghosts, ending, interrupts, faults>>

\* A VirshError out of the final reaping: nothing more is reaped or swept.
ReapingRaises ==
  /\ main \in {"list", "reap"}
  /\ main' = "ended"
  /\ Fault
  /\ UNCHANGED <<dry, task, host, surviving, ghosts, ending, interrupts>>

\* Mutant of List: scenarios that Ctrl-C ended are not looked at.
List_Torn ==
  /\ main = "list"
  /\ main' = "reap"
  /\ todo' = {g \in domains : at[g] = "done"}
  /\ UNCHANGED <<dry, task, host, surviving, ghosts, swept, interrupts, faults>>

\* Mutant of Reaped: the storage is left to the next run.
Reaped_Short ==
  /\ main = "reap" /\ todo = {}
  /\ main' = "ended" /\ swept' = TRUE
  /\ UNCHANGED <<dry, task, host, surviving, ghosts, todo, interrupts, faults>>

List ==
  /\ main = "list"
  /\ main' = "reap"
  /\ todo' = domains
  /\ UNCHANGED <<dry, task, host, surviving, ghosts, swept, interrupts, faults>>

Reap(g) ==
  /\ main = "reap" /\ g \in todo
  /\ todo' = todo \ {g}
  /\ \/ domains' = domains \ {g} /\ late' = late /\ Fine
     \/ domains' = domains /\ late' = late \cup {g} /\ Fault
  /\ UNCHANGED <<main, dry, task, folder, surviving, excused, swept, interrupts>>

Reaped ==
  /\ main = "reap" /\ todo = {}
  /\ main' = "sweep"
  /\ UNCHANGED <<dry, task, host, surviving, ghosts, ending, interrupts, faults>>

\* rmtree ignores what it cannot remove.
Sweep ==
  /\ main = "sweep"
  /\ main' = "ended"
  /\ swept' = TRUE
  /\ \/ folder' = {} /\ late' = late /\ Fine
     \/ folder' \in SUBSET folder /\ late' = late \cup folder' /\ Fault
  /\ UNCHANGED <<dry, task, domains, surviving, excused, todo, interrupts>>

-----------------------------------------------------------------------------

GuestStep(g) == Lease(g) \/ CreateEnds(g) \/ PollEnds(g) \/ DeleteEnds(g)
CheckStep(c) == CheckStarts(c) \/ CheckEnds(c)
MainStep ==
  \/ RunEnds \/ RunCancelled \/ LoopCloses \/ ReapingRaises
  \/ List \/ (\E g \in Guests : Reap(g)) \/ Reaped \/ Sweep

Next ==
  \/ \E g \in Guests : GuestStep(g) \/ CreatevmGoesOn(g)
  \/ \E c \in Checks : CheckStep(c)
  \/ Interrupt
  \/ Confirm \/ ConfirmRaises \/ MainStep

Spec == Init /\ [][Next]_vars

\* Every process has a timeout, every virsh call too, the polls are bounded and
\* the event loop runs what is ready.  The user may never answer the question.
FairSpec ==
  /\ Spec
  /\ \A g \in Guests : WF_vars(GuestStep(g))
  /\ \A c \in Checks : WF_vars(CheckStep(c))
  /\ WF_vars(MainStep)

-----------------------------------------------------------------------------
(* Properties *)

\* What the pool has left is its budget less what the guests that hold a lease
\* were charged, through cancellations and failures; and no task sleeps on memory
\* that is there.
MemoryBooked ==
  /\ remaining + Load[Holders] = Budget
  /\ \A g \in Guests : at[g] = "asleep" => ~Fits(g)

\* "A single guest larger than the whole budget is still admitted alone (so the
\* run can't deadlock)" (VmPool): when nobody holds memory, whatever was cancelled
\* or failed before, every guest fits and none sleeps on; given any budget at all.
AdmittedAlone ==
  Budget > 0 /\ Holders = {} => \A g \in Guests : Fits(g) /\ at[g] # "asleep"

\* A domain exists only while its scenario holds the memory it was leased, unless
\* its createvm outlived its task or its teardown was cut short or could not
\* reap it.
DomainIsLeased == domains \subseteq Holders \cup excused

\* When the final reaping comes to its end, whatever happened to the scenarios,
\* nothing that carries the run's prefix is left, except where the reaping itself
\* failed or a process that outlived its scenario came after it.
AllSwept == main = "ended" /\ swept => domains \cup folder \subseteq late

\* What the tasks, the processes left over and the final reaping agree on: nothing
\* has started before the question is answered; a createvm left over is accounted
\* for; and what the reaping has passed is gone or noted.
PhasesAgree ==
  /\ main = "confirm" => /\ \A s \in Scenarios : at[s] \in {"idle", "queued"}
                         /\ domains = {} /\ surviving = {}
  /\ surviving \subseteq excused
  /\ swept => main = "ended"
  /\ main = "reap" => domains \subseteq todo \cup late
  /\ main = "sweep" => domains \subseteq late

HarnessInv ==
  TypeOK /\ MemoryBooked /\ DomainIsLeased /\ PhasesAgree /\ AllSwept

\* Once the stateful lane is confirmed or dropped, the harness ends.
HarnessEnds == main # "confirm" ~> main = "ended"
=============================================================================
