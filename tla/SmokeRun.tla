------------------------------ MODULE SmokeRun ------------------------------
(***************************************************************************)
(* One run of lvlab smoke: the plan that packs the cases into batches, the *)
(* main thread that reaps leftovers, runs the batches and reaps            *)
(* stragglers, one worker thread per case, the domains they drive through  *)
(* other lvlab processes, and a user who presses Ctrl-C.                   *)
(*                                                                         *)
(* A case is its position in the manifest.  An lvlab process takes effect  *)
(* when it ends; LvlabMachine has its steps.  Ctrl-C reaches the main      *)
(* thread and every process that is running.                               *)
(***************************************************************************)
EXTENDS Integers, Sequences, FiniteSets

CONSTANTS
  CaseCount,      \* number of machines in the manifest
  Costs,          \* what a case can cost: its memory and qemu's overhead, MiB
  Total,          \* what a set of cases costs together, for each choice of costs
  Available,      \* what `free` can report as available, MiB
  Caps,           \* values of --max-memory, NoCap among them
  NoCap,          \* --max-memory is not given
  Sizes,          \* values of --batch-size, 0 if it is not given
  Reserve,        \* memory held back for the host, MiB
  Leftovers,      \* how an earlier run may have left a domain
  MaxInterrupts,  \* bound on how often the user presses Ctrl-C
  MaxFaults       \* bound on failing calls

Cases == 1..CaseCount
DomainStates == {"absent", "off", "running", "stopping"}

ASSUME SmokeAssumption ==
  /\ CaseCount \in Nat \ {0}
  /\ Costs \subseteq Nat
  /\ Available \subseteq Nat
  /\ NoCap \notin Nat
  /\ Caps \subseteq Nat \cup {NoCap}
  /\ Sizes \subseteq Nat
  /\ Reserve \in Nat
  /\ Leftovers \subseteq DomainStates
  /\ MaxInterrupts \in Nat
  /\ MaxFaults \in Nat

\* Total is the sum of the costs of the set's members.
ASSUME TotalAssumption ==
  \A f \in [Cases -> Costs] :
    /\ Total[f] \in [SUBSET Cases -> Nat]
    /\ \A c \in Cases : Total[f][{c}] = f[c]
    /\ \A S, T \in SUBSET Cases :
         S \cap T = {} => Total[f][S \cup T] = Total[f][S] + Total[f][T]

VARIABLES
  cost, available, budget, size,  \* what is planned with; they do not change
  unplanned, batches, booked,     \* cases to place; each batch and its memory
  main,        \* where the main thread is
  current,     \* the batch it runs
  todo,        \* cases it has yet to destroy, or to submit
  raising,     \* whether an exception is on its way out of _run_batches
  overlooked,  \* whether the list of existing domains could not be had
  at, phase,   \* where each worker is, and the phase it has published
  verified,    \* whether the case's SSH probe succeeded
  domain,      \* of each case: "absent", "off", "running" or "stopping"
  fresh,       \* cases whose domain was defined by this run
  unreaped,    \* cases whose last `lvlab destroy` did not remove the domain
  struck,      \* cases whose lvlab process got a Ctrl-C
  interrupts, faults

plan == <<unplanned, batches, booked>>
inputs == <<cost, available, budget, size>>
thread == <<main, current, todo, raising, overlooked>>
workers == <<at, phase, verified>>
machines == <<domain, fresh, unreaped>>
vars == <<inputs, plan, thread, workers, machines, struck, interrupts, faults>>

Calling == {"up", "down", "destroy"}
Busy == Calling \cup {"boot", "verify"}
Ended == {"done", "raised", "cut", "refused"}

\* SmokePhase
TERMINAL == {"PASS", "FAIL"}
Phases == {"pending", "up", "booting", "verifying", "tearing down"} \cup TERMINAL

TypeOK ==
  /\ cost \in [Cases -> Costs]
  /\ available \in Nat /\ budget \in Nat /\ size \in Nat
  /\ unplanned \in SUBSET Cases
  /\ batches \in Seq(SUBSET Cases)
  /\ booked \in Seq(Nat)
  /\ Len(booked) = Len(batches)
  /\ main \in {"preflight", "plan", "confirm", "list", "reap", "submit", "wait",
               "unwind", "finally"} \cup Ended
  /\ current \in Nat
  /\ todo \in SUBSET Cases
  /\ raising \in BOOLEAN
  /\ overlooked \in BOOLEAN
  /\ at \in [Cases -> Busy \cup {"idle", "returned", "raised"}]
  /\ phase \in [Cases -> Phases]
  /\ verified \in SUBSET Cases
  /\ domain \in [Cases -> DomainStates]
  /\ fresh \in SUBSET Cases
  /\ unreaped \in SUBSET Cases
  /\ struck \in SUBSET Cases
  /\ interrupts \in 0..MaxInterrupts
  /\ faults \in 0..MaxFaults

\* The budget of plan_batches, never negative.
BudgetOf(memory, cap) ==
  LET usable == IF cap = NoCap \/ cap > memory THEN memory ELSE cap
  IN  IF usable > Reserve THEN usable - Reserve ELSE 0

Init ==
  /\ cost \in [Cases -> Costs]
  /\ available \in Available
  /\ \E cap \in Caps : budget = BudgetOf(available, cap)
  /\ size \in Sizes
  /\ unplanned = Cases /\ batches = <<>> /\ booked = <<>>
  /\ main = "preflight"
  /\ current = 0
  /\ todo = {}
  /\ raising = FALSE
  /\ overlooked = FALSE
  /\ at = [c \in Cases |-> "idle"]
  /\ phase = [c \in Cases |-> "pending"]
  /\ verified = {}
  /\ domain \in [Cases -> Leftovers]
  /\ fresh = {}
  /\ unreaped = {}
  /\ struck = {}
  /\ interrupts = 0
  /\ faults = 0

Fault == faults < MaxFaults /\ faults' = faults + 1
Fine == faults' = faults

-----------------------------------------------------------------------------
(* Planning: plan_batches, one case at a time *)

IsFirst(c, S) == c \in S /\ \A d \in S : c <= d

\* sorted(cases, key=case_cost_mib, reverse=True) is stable; chunks are cut in
\* the order of the manifest.
IsNext(c) ==
  IF size = 0
  THEN /\ c \in unplanned
       /\ \A d \in unplanned : cost[d] < cost[c] \/ (cost[d] = cost[c] /\ c <= d)
  ELSE IsFirst(c, unplanned)

\* Mutants of Room: a batch may not be filled up; what is booked is forgotten.
Room_Strict(c) == {i \in DOMAIN batches : booked[i] + cost[c] < budget}
Room_Unbooked(c) == {i \in DOMAIN batches : cost[c] <= budget}

\* The batches that have room: under the budget, or the last while it is short.
Room(c) ==
  IF size = 0
  THEN {i \in DOMAIN batches : booked[i] + cost[c] <= budget}
  ELSE {i \in DOMAIN batches : i = Len(batches) /\ Cardinality(batches[i]) < size}

AddTo(i, c) ==
  /\ batches' = [batches EXCEPT ![i] = @ \cup {c}]
  /\ booked' = [booked EXCEPT ![i] = @ + cost[c]]

AddBatch(c) ==
  /\ batches' = Append(batches, {c})
  /\ booked' = Append(booked, cost[c])

Place(c) ==
  /\ main = "plan"
  /\ IsNext(c)
  /\ unplanned' = unplanned \ {c}
  /\ \/ \E i \in Room(c) : IsFirst(i, Room(c)) /\ AddTo(i, c)
     \/ Room(c) = {} /\ AddBatch(c)
  /\ UNCHANGED <<inputs, thread, workers, machines, struck, interrupts, faults>>

\* At least half of what is available (MEMORY_CONFIRM_FRACTION).
ShouldConfirm ==
  available > 0 /\ \E i \in DOMAIN booked : 2 * booked[i] >= available

-----------------------------------------------------------------------------
(* lvlab destroy --force, run by the main thread or by a worker *)

\* It exits with 0 whatever it did, and refuses a guest that is shutting down.
DestroyDone(c) ==
  /\ domain[c] # "stopping"
  /\ domain' = [domain EXCEPT ![c] = "absent"]
  /\ fresh' = fresh \ {c}
  /\ unreaped' = unreaped \ {c}

DestroyRefused(c) ==
  /\ domain[c] = "stopping"
  /\ unreaped' = unreaped \cup {c}
  /\ UNCHANGED <<domain, fresh>>

\* It may have come to a failure, or to a Ctrl-C, after any of its steps.
DestroyFailed(c) ==
  /\ \E d \in {domain[c], "off", "absent"} :
       /\ domain[c] = "absent" => d = "absent"
       /\ domain[c] = "stopping" => d = "stopping"
       /\ domain' = [domain EXCEPT ![c] = d]
       /\ fresh' = IF d = "absent" THEN fresh \ {c} ELSE fresh
  /\ unreaped' = unreaped \cup {c}

-----------------------------------------------------------------------------
(* The main thread: run_smoke and _run_batches *)

GoMain(label, cs) ==
  /\ main' = label
  /\ todo' = cs
  /\ UNCHANGED <<current, raising, overlooked>>

Preflight ==
  /\ main = "preflight"
  /\ GoMain("plan", {})
  /\ UNCHANGED <<inputs, plan, workers, machines, struck, interrupts, faults>>

Planned ==
  /\ main = "plan" /\ unplanned = {}
  /\ GoMain("confirm", {})
  /\ UNCHANGED <<inputs, plan, workers, machines, struck, interrupts, faults>>

Confirm ==
  /\ main = "confirm"
  /\ GoMain("list", {})
  /\ UNCHANGED <<inputs, plan, workers, machines, struck, interrupts, faults>>

\* The preflight fails, or the user declines a run that needs much memory.
Refuse ==
  /\ main = "preflight" \/ (main = "confirm" /\ ShouldConfirm)
  /\ GoMain("refused", {})
  /\ UNCHANGED <<inputs, plan, workers, machines, struck, interrupts, faults>>

\* Mutant of List: `virsh list' without --all.
List_Running ==
  /\ main = "list"
  /\ main' = "reap"
  /\ todo' = {c \in Cases : domain[c] \in {"running", "stopping"}}
  /\ UNCHANGED <<inputs, plan, current, raising, overlooked, workers, machines,
                 struck, interrupts, faults>>

\* _reap_leftover_domains takes a failing list for an empty one.
List ==
  /\ main = "list"
  /\ main' = "reap"
  /\ \/ /\ todo' = {c \in Cases : domain[c] # "absent"}
        /\ Fine /\ UNCHANGED overlooked
     \/ /\ todo' = {}
        /\ Fault /\ overlooked' = TRUE
  /\ UNCHANGED <<inputs, plan, current, raising, workers, machines, struck,
                 interrupts>>

\* _force_destroy_cases, for leftovers before the run and stragglers after it
ForceDestroy(c) ==
  /\ main \in {"reap", "finally"}
  /\ IsFirst(c, todo)
  /\ GoMain(main, todo \ {c})
  /\ \/ (DestroyDone(c) \/ DestroyRefused(c)) /\ Fine
     \/ DestroyFailed(c) /\ Fault
  /\ UNCHANGED <<inputs, plan, workers, struck, interrupts>>

NextBatch ==
  /\ main' = "submit"
  /\ current' = current + 1
  /\ todo' = batches[current + 1]
  /\ UNCHANGED <<raising, overlooked>>

Reaped ==
  /\ main = "reap" /\ todo = {}
  /\ NextBatch
  /\ UNCHANGED <<inputs, plan, workers, machines, struck, interrupts, faults>>

\* There is a thread for every case of a batch, so a submitted case starts.
Submit(c) ==
  /\ main = "submit"
  /\ IsFirst(c, todo)
  /\ GoMain("submit", todo \ {c})
  /\ at' = [at EXCEPT ![c] = "up"]
  /\ phase' = [phase EXCEPT ![c] = "up"]
  /\ UNCHANGED <<inputs, plan, verified, machines, struck, interrupts, faults>>

Submitted ==
  /\ main = "submit" /\ todo = {}
  /\ GoMain("wait", {})
  /\ UNCHANGED <<inputs, plan, workers, machines, struck, interrupts, faults>>

Over(c) == at[c] \in {"idle", "returned", "raised"}

\* Mutant of CasesToReap: a case that tears down is taken for finished.
CasesToReap_NotTearingDown ==
  {c \in Cases : phase[c] \notin TERMINAL \cup {"tearing down"}}

CasesToReap == {c \in Cases : phase[c] \notin TERMINAL}

\* Out of _run_batches, normally or not, to the `finally` of run_smoke.
Leave(exception) ==
  /\ main' = "finally"
  /\ todo' = CasesToReap
  /\ raising' = exception
  /\ UNCHANGED <<current, overlooked>>

\* f.result() raises what the worker raised.
BatchOver ==
  /\ main = "wait"
  /\ \A c \in batches[current] : Over(c)
  /\ \/ (\E c \in batches[current] : at[c] = "raised") /\ Leave(TRUE)
     \/ /\ \A c \in batches[current] : at[c] = "returned"
        /\ \/ current < Len(batches) /\ NextBatch
           \/ current = Len(batches) /\ Leave(FALSE)
  /\ UNCHANGED <<inputs, plan, workers, machines, struck, interrupts, faults>>

\* On its way out an exception waits for the workers of the pool.
PoolExit ==
  /\ main = "unwind"
  /\ \A c \in Cases : Over(c)
  /\ Leave(TRUE)
  /\ UNCHANGED <<inputs, plan, workers, machines, struck, interrupts, faults>>

Finish ==
  /\ main = "finally" /\ todo = {}
  /\ GoMain(IF raising THEN "raised" ELSE "done", {})
  /\ UNCHANGED <<inputs, plan, workers, machines, struck, interrupts, faults>>

\* Ctrl-C while the main thread destroys something stops that, half-way.
Interrupt ==
  /\ main \notin Ended
  /\ interrupts < MaxInterrupts /\ interrupts' = interrupts + 1
  /\ struck' = struck \cup {c \in Cases : at[c] \in Calling}
  /\ \/ /\ main \in {"submit", "wait"}
        /\ GoMain("unwind", {})
        /\ UNCHANGED machines
     \/ /\ main = "unwind"
        /\ Leave(TRUE)
        /\ UNCHANGED machines
     \/ /\ main \notin {"submit", "wait", "unwind"}
        /\ GoMain("cut", {})
        /\ \/ UNCHANGED machines
           \/ /\ main \in {"reap", "finally"}
              /\ \E c \in todo : IsFirst(c, todo) /\ DestroyFailed(c)
  /\ UNCHANGED <<inputs, plan, workers, faults>>

-----------------------------------------------------------------------------
(* A worker: _run_case and _teardown *)

Goto(c, label, name) ==
  /\ at[c] \in Busy
  /\ at' = [at EXCEPT ![c] = label]
  /\ phase' = [phase EXCEPT ![c] = name]

CallEnds(c) == struck' = struck \ {c}

\* A call fails by itself, or as its process got a Ctrl-C.
CallFails(c) == Fault \/ (c \in struck /\ Fine)

\* lvlab up: creates the domain, or starts the one there is.
UpDone(c) ==
  /\ domain' = [domain EXCEPT ![c] = IF @ = "stopping" THEN @ ELSE "running"]
  /\ fresh' = IF domain[c] = "absent" THEN fresh \cup {c} ELSE fresh

UpFailed(c) ==
  \/ UNCHANGED <<domain, fresh>>
  \/ domain[c] = "absent" /\ UpDone(c)

\* up exits with 0 when the domain that is there could not be started.
Up(c) ==
  /\ at[c] = "up"
  /\ CallEnds(c)
  /\ \/ UpDone(c) /\ Fine /\ Goto(c, "boot", "booting")
     \/ CallFails(c) /\ domain[c] = "off" /\ UNCHANGED <<domain, fresh>>
          /\ Goto(c, "boot", "booting")
     \/ CallFails(c) /\ UpFailed(c) /\ Goto(c, "down", "tearing down")
  /\ UNCHANGED <<inputs, plan, thread, verified, unreaped, interrupts>>

\* A lease does not always appear; a static address is known.
Boot(c) ==
  /\ at[c] = "boot"
  /\ \/ Goto(c, "verify", "verifying")
     \/ Goto(c, "down", "tearing down")
  /\ UNCHANGED <<inputs, plan, thread, verified, machines, struck, interrupts,
                 faults>>

Verify(c) ==
  /\ at[c] = "verify"
  /\ \/ domain[c] = "running" /\ verified' = verified \cup {c}
     \/ UNCHANGED verified
  /\ Goto(c, "down", "tearing down")
  /\ UNCHANGED <<inputs, plan, thread, machines, struck, interrupts, faults>>

\* lvlab down and _await_shutoff: what they return is not looked at, so a guest
\* may as well not have been asked, or ignore it.
Down(c) ==
  /\ at[c] = "down"
  /\ CallEnds(c)
  /\ \/ UNCHANGED domain
     \/ domain[c] = "running" /\ domain' = [domain EXCEPT ![c] = "stopping"]
  /\ Goto(c, "destroy", phase[c])
  /\ UNCHANGED <<inputs, plan, thread, verified, fresh, unreaped, interrupts,
                 faults>>

\* Mutant of Destroy: it waits for as long as the guest shuts down.
Destroy_Waits(c) ==
  /\ at[c] = "destroy"
  /\ CallEnds(c)
  /\ \/ DestroyDone(c) /\ Fine
     \/ DestroyFailed(c) /\ CallFails(c)
  /\ Goto(c, "returned", IF c \in verified THEN "PASS" ELSE "FAIL")
  /\ UNCHANGED <<inputs, plan, thread, verified, interrupts>>

Destroy(c) ==
  /\ at[c] = "destroy"
  /\ CallEnds(c)
  /\ \/ (DestroyDone(c) \/ DestroyRefused(c)) /\ Fine
     \/ DestroyFailed(c) /\ CallFails(c)
  /\ Goto(c, "returned", IF c \in verified THEN "PASS" ELSE "FAIL")
  /\ UNCHANGED <<inputs, plan, thread, verified, interrupts>>

\* subprocess.run raises when it cannot start a process.
Raise(c) ==
  /\ c \notin struck
  /\ Fault
  /\ Goto(c, "raised", phase[c])
  /\ UNCHANGED <<inputs, plan, thread, verified, machines, struck, interrupts>>

\* A guest that shuts down is off a moment later.
Guest(c) ==
  /\ domain[c] = "stopping" /\ domain' = [domain EXCEPT ![c] = "off"]
  /\ UNCHANGED <<inputs, plan, thread, workers, fresh, unreaped, struck,
                 interrupts, faults>>

-----------------------------------------------------------------------------

MainStep ==
  \/ Preflight \/ Planned \/ Confirm \/ Refuse \/ List \/ Reaped \/ Submitted
  \/ BatchOver \/ PoolExit \/ Finish
  \/ \E c \in Cases : Place(c) \/ ForceDestroy(c) \/ Submit(c)

Work(c) ==
  Up(c) \/ Boot(c) \/ Verify(c) \/ Down(c) \/ Destroy(c) \/ Raise(c)

AllOver == main \in Ended /\ \A c \in Cases : Over(c)

Stopped == AllOver /\ UNCHANGED vars

Next ==
  \/ MainStep
  \/ Interrupt
  \/ \E c \in Cases : Work(c) \/ Guest(c)
  \/ Stopped

Spec == Init /\ [][Next]_vars

\* Every process the run starts ends, and every poll gives up in the end.
FairSpec ==
  /\ Spec
  /\ WF_vars(MainStep)
  /\ \A c \in Cases : WF_vars(Work(c))

-----------------------------------------------------------------------------
(* Properties *)

CostOf(S) == Total[cost][S]

PlanFits ==
  size = 0 => \A i \in DOMAIN batches :
                booked[i] <= budget \/ \E c \in Cases : batches[i] = {c}

PlanPartition ==
  /\ \A i \in DOMAIN batches : batches[i] # {} /\ batches[i] \cap unplanned = {}
  /\ \A i, j \in DOMAIN batches : i # j => batches[i] \cap batches[j] = {}
  /\ \A c \in Cases \ unplanned : \E i \in DOMAIN batches : c \in batches[i]

NoSpareBatch ==
  size = 0 => \A i, j \in DOMAIN batches :
                i < j => \A c \in batches[j] : booked[i] + cost[c] > budget

\* What is booked for a batch is what its cases cost together.
Charged == \A i \in DOMAIN batches : booked[i] = CostOf(batches[i])

\* The plan of plan_batches places every case once, keeps every batch within
\* the budget unless it is one case that is too large by itself, and has no
\* batch with a case that an earlier one still had room for.
PlanSound == PlanFits /\ PlanPartition /\ NoSpareBatch /\ Charged

RanAny == main \in {"submit", "wait", "unwind", "finally", "done", "raised"}

ControlInv ==
  /\ main \notin {"preflight", "plan", "refused", "cut"} => unplanned = {}
  /\ RanAny => current \in DOMAIN batches
  /\ ~RanAny /\ main # "cut" => current = 0 /\ \A c \in Cases : at[c] = "idle"
  /\ \A c \in Cases : at[c] \in Busy \cup {"raised"} =>
                         current \in DOMAIN batches /\ c \in batches[current]
  /\ main \in {"submit", "wait"} =>
       /\ \A i \in DOMAIN batches : i > current => \A c \in batches[i] : at[c] = "idle"
       /\ todo = {c \in batches[current] : at[c] = "idle"}
  /\ \A c \in Cases : phase[c] \in TERMINAL <=> at[c] = "returned"
  /\ main = "wait" => todo = {}
  /\ main = "unwind" => interrupts > 0

\* The domain is gone, or a destroy was tried in vain.
Clean(c) == domain[c] = "absent" \/ c \in unreaped

\* A domain that an earlier run left is one that this run could not reap.
Known(c) == Clean(c) \/ c \in fresh \/ overlooked

DomainInv ==
  /\ \A c \in fresh : domain[c] # "absent" /\ at[c] # "idle"
  /\ \A c \in Cases : at[c] = "returned" => Clean(c)
  /\ \A c \in Cases : RanAny \/ at[c] # "idle" => Known(c)
  /\ main = "reap" => \A c \in Cases : Known(c) \/ c \in todo

\* With one Ctrl-C at most, no worker runs any more when stragglers are reaped.
EndInv ==
  MaxInterrupts <= 1 /\ main \in {"finally", "done", "raised"} =>
    \A c \in Cases : Over(c) /\ (Clean(c) \/ (main = "finally" /\ c \in todo))

\* The plan is sound; workers run for one batch at a time and their published
\* phases are right about which of them tore down; and what is left at any time
\* of domains is known to the run.
SmokeInv == TypeOK /\ PlanSound /\ ControlInv /\ DomainInv /\ EndInv

\* Once batches run, the guests that run together need no more memory than the
\* budget (unless it is one guest that does), except for those whose destroy
\* did not work or that nobody knew of: a batch starts when the guests of the
\* one before are gone, although no result of a teardown is looked at.
MemoryFits ==
  size = 0 /\ RanAny /\ ~overlooked =>
    LET guests == {c \in Cases : domain[c] \in {"running", "stopping"}} \ unreaped
    IN  CostOf(guests) <= budget \/ Cardinality(guests) <= 1

\* A case that boots or is verified runs on a domain this run has defined, and
\* not on one an earlier run left behind, as _reap_leftover_domains promises:
\* except when the list of domains could not be had, or a destroy failed.
BootsFresh ==
  \A c \in Cases :
    at[c] \in {"boot", "verify"} /\ domain[c] # "absent" =>
      c \in fresh \/ overlooked \/ c \in unreaped

\* A run that comes to its end, also after an exception in a worker or a
\* Ctrl-C, leaves no domain behind but those that a destroy was tried on in
\* vain: _teardown and _reap_stragglers together miss none.
EndsClean ==
  AllOver /\ main \in {"done", "raised"} =>
    \A c \in Cases : domain[c] # "absent" => c \in unreaped

\* The run ends, and all its workers do: also after failing calls, exceptions
\* in workers, and as often as Ctrl-C is pressed.
Terminates == <>AllOver
=============================================================================
