-------------------------- MODULE ValidateRun_proofs --------------------------
(***************************************************************************)
(* Theorems about ValidateRun, for any scenarios, any costs and budget, and *)
(* any number of failures and interrupts.                                  *)
(***************************************************************************)
EXTENDS ValidateRun, TLAPS

(***************************************************************************)
(* The pool                                                                *)
(***************************************************************************)

LEMMA PoolTypes ==
  /\ Budget \in Nat
  /\ \A g \in Guests : Effective(g) \in Nat
  /\ \A S \in SUBSET Guests : Load[S] \in Nat
BY HarnessAssumption, LoadAssumption DEF Budget, Effective

\* Steps that charge and give back nothing.
LEMMA PoolKept ==
  ASSUME MemoryBooked, remaining' = remaining, Holders' = Holders,
         \A g \in Guests : at'[g] = "asleep" => at[g] = "asleep"
  PROVE  MemoryBooked'
BY DEF MemoryBooked, Fits, Budget, Effective

\* A task that leaves the pool, wherever it was charged from.
LEMMA PoolReleased ==
  ASSUME TypeOK, MemoryBooked, NEW g \in Guests, at[g] \in Driving,
         NEW next, next \notin Driving \cup {"asleep"}, Release(g, next)
  PROVE  /\ MemoryBooked' /\ remaining' \in Nat
         /\ Holders' = Holders \ {g}
<1>1. Holders' = Holders \ {g} /\ g \in Holders /\ Holders \in SUBSET Guests
  BY DEF Holders, Release, TypeOK, Scenarios, Driving
<1>2. Load[Holders] = Load[Holders \ {g}] + Load[{g}]
  <2>1. Holders = (Holders \ {g}) \cup {g} /\ (Holders \ {g}) \cap {g} = {}
    BY <1>1
  <2> QED BY <1>1, <2>1, LoadAssumption
<1>3. Load[{g}] = Effective(g)
  BY LoadAssumption
<1>4. remaining' + Load[Holders'] = Budget /\ remaining' \in Nat
  BY <1>1, <1>2, <1>3, PoolTypes DEF MemoryBooked, Release, TypeOK
<1>5. \A h \in Guests : at'[h] # "asleep"
  BY DEF Release, Scenarios
<1> QED BY <1>1, <1>4, <1>5 DEF MemoryBooked, Budget

LEMMA PoolCancelled ==
  ASSUME TypeOK, MemoryBooked, NEW spared, CancelTasks(spared)
  PROVE  /\ MemoryBooked' /\ remaining' \in Nat
         /\ Holders' = Holders \ {g \in Guests \ spared : at[g] = "delete"}
<1> DEFINE torn == {g \in Guests \ spared : at[g] = "delete"}
<1>1. Holders' = Holders \ torn /\ torn \subseteq Holders /\ Holders \in SUBSET Guests
  BY DEF Holders, CancelTasks, TypeOK, Scenarios, Driving
<1>2. Load[Holders] = Load[Holders \ torn] + Load[torn]
  <2>1. Holders = (Holders \ torn) \cup torn /\ (Holders \ torn) \cap torn = {}
    BY <1>1
  <2> QED BY <1>1, <2>1, LoadAssumption
<1>3. remaining' = remaining + Load[torn]
  BY DEF CancelTasks
<1>4. remaining' + Load[Holders'] = Budget /\ remaining' \in Nat
  <2> HIDE DEF torn
  <2> QED BY <1>1, <1>2, <1>3, PoolTypes DEF MemoryBooked, TypeOK
<1>5. \A h \in Guests : at'[h] # "asleep"
  BY DEF CancelTasks, Scenarios
<1> QED BY <1>1, <1>4, <1>5 DEF MemoryBooked, Budget

(***************************************************************************)
(* Every step keeps the invariant                                          *)
(***************************************************************************)

LEMMA InitHolds == Init => HarnessInv
<1> SUFFICES ASSUME Init PROVE HarnessInv
  OBVIOUS
<1>1. TypeOK
  <2>1. PICK chosen \in SUBSET Scenarios :
          at = [s \in Scenarios |-> IF s \in chosen THEN "queued" ELSE "idle"]
    BY DEF Init
  <2>2. at \in [Scenarios -> {"queued", "idle"}]
    BY <2>1
  <2>3. at \in [Scenarios -> Driving \cup Ended \cup {"queued", "asleep", "check"}]
    BY <2>2 DEF Driving, Ended
  <2>4. /\ \A c \in Checks : at[c] \notin Driving \cup {"asleep"}
        /\ \A g \in Guests : at[g] # "check"
    BY <2>2 DEF Driving, Scenarios
  <2>5. /\ main = "confirm" /\ dry \in BOOLEAN /\ remaining = Budget /\ swept = FALSE
        /\ struck = {} /\ todo = {} /\ domains = {} /\ folder = {} /\ surviving = {}
        /\ excused = {} /\ late = {} /\ interrupts = 0 /\ faults = 0
    BY DEF Init
  <2>6. 0 \in 0..MaxInterrupts /\ 0 \in 0..MaxFaults /\ Budget \in Nat
    BY PoolTypes, HarnessAssumption
  <2> QED BY <2>3, <2>4, <2>5, <2>6 DEF TypeOK
<1>2. Holders = {}
  BY DEF Init, Holders, Driving, Scenarios
<1>3. MemoryBooked
  BY <1>2, PoolTypes, LoadAssumption DEF Init, MemoryBooked, Scenarios
<1>4. DomainIsLeased /\ PhasesAgree /\ AllSwept
  BY DEF Init, DomainIsLeased, PhasesAgree, AllSwept, Scenarios
<1> QED BY <1>1, <1>3, <1>4 DEF HarnessInv

LEMMA LeaseKeeps ==
  ASSUME HarnessInv, NEW g \in Guests, Lease(g)
  PROVE  HarnessInv'
<1> USE DEF HarnessInv
<1>1. /\ main \in {"run", "closing"} /\ at[g] = "queued" /\ g \in Scenarios
      /\ UNCHANGED <<main, dry, struck, domains, folder, surviving, excused, late, todo,
                     swept, interrupts, faults>>
  BY DEF Lease, host, ghosts, ending, Scenarios
<1>2. CASE Fits(g) /\ ~dry /\ at' = [at EXCEPT ![g] = "create"]
             /\ remaining' = remaining - Effective(g)
  <2>1. Holders' = Holders \cup {g} /\ Holders \cap {g} = {} /\ Holders \in SUBSET Guests
    BY <1>1, <1>2 DEF Holders, TypeOK, Scenarios, Driving
  <2>2. Load[Holders \cup {g}] = Load[Holders] + Effective(g)
    BY <2>1, LoadAssumption
  <2>3. remaining' + Load[Holders'] = Budget /\ remaining' \in Nat
    BY <1>2, <2>1, <2>2, PoolTypes DEF MemoryBooked, TypeOK, Fits
  <2>4. \A h \in Guests : at'[h] = "asleep" => ~Fits(h)'
    <3> SUFFICES ASSUME NEW h \in Guests, at'[h] = "asleep"
                 PROVE  ~(remaining' >= Effective(h))
      BY DEF Fits, Effective, Budget
    <3>1. h # g /\ at[h] = "asleep"
      BY <1>1, <1>2 DEF TypeOK, Scenarios
    <3> QED BY <3>1, <1>2, PoolTypes DEF MemoryBooked, TypeOK, Fits
  <2>5. MemoryBooked'
    BY <2>3, <2>4 DEF MemoryBooked, Budget
  <2>6. TypeOK'
    <3>1. at' \in [Scenarios -> Driving \cup Ended \cup {"queued", "asleep", "check"}]
      BY <1>1, <1>2 DEF TypeOK, Driving
    <3>2. /\ \A c \in Checks : at'[c] \notin Driving \cup {"asleep"}
          /\ \A h \in Guests : at'[h] # "check"
      BY <1>1, <1>2, HarnessAssumption DEF TypeOK, Scenarios
    <3> QED BY <1>1, <2>3, <3>1, <3>2 DEF TypeOK
  <2>7. DomainIsLeased' /\ PhasesAgree' /\ AllSwept'
    BY <1>1, <2>1 DEF DomainIsLeased, PhasesAgree, AllSwept
  <2> QED BY <2>5, <2>6, <2>7
<1>3. CASE \E p \in {"done", "asleep"} :
             /\ at' = [at EXCEPT ![g] = p] /\ remaining' = remaining
             /\ p = "asleep" => ~Fits(g)
  <2>1. PICK p \in {"done", "asleep"} :
             /\ at' = [at EXCEPT ![g] = p] /\ remaining' = remaining
             /\ p = "asleep" => ~Fits(g)
    BY <1>3
  <2>2. Holders' = Holders
    BY <1>1, <2>1 DEF Holders, TypeOK, Scenarios, Driving
  <2>3. \A h \in Guests : at'[h] = "asleep" => ~Fits(h)
    BY <1>1, <2>1 DEF MemoryBooked, TypeOK, Scenarios
  <2>4. MemoryBooked'
    BY <2>1, <2>2, <2>3 DEF MemoryBooked, Fits, Effective, Budget
  <2>5. TypeOK'
    <3>1. at' \in [Scenarios -> Driving \cup Ended \cup {"queued", "asleep", "check"}]
      BY <1>1, <2>1 DEF TypeOK, Ended
    <3>2. /\ \A c \in Checks : at'[c] \notin Driving \cup {"asleep"}
          /\ \A h \in Guests : at'[h] # "check"
      BY <1>1, <2>1, HarnessAssumption DEF TypeOK, Scenarios
    <3> QED BY <1>1, <2>1, <3>1, <3>2 DEF TypeOK
  <2>6. DomainIsLeased' /\ PhasesAgree' /\ AllSwept'
    BY <1>1, <2>2 DEF DomainIsLeased, PhasesAgree, AllSwept
  <2> QED BY <2>4, <2>5, <2>6
<1> QED BY <1>2, <1>3 DEF Lease

LEMMA CreateKeeps ==
  ASSUME HarnessInv, NEW g \in Guests, CreateEnds(g)
  PROVE  HarnessInv'
<1> USE DEF HarnessInv
<1>1. PICK p \in {"poll", "delete"} : at' = [at EXCEPT ![g] = p]
  BY DEF CreateEnds, Goes
<1>2. /\ main \in {"run", "closing"} /\ at[g] = "create" /\ g \in Scenarios
      /\ UNCHANGED <<main, dry, remaining, struck, late, todo, swept, interrupts>>
      /\ faults' \in 0..MaxFaults
  BY HarnessAssumption DEF CreateEnds, ending, Scenarios, Fault, Fine, TypeOK
<1>3. /\ domains' \subseteq domains \cup {g} /\ folder' \subseteq folder \cup {g}
      /\ excused \subseteq excused' /\ excused' \subseteq Guests
      /\ surviving' \subseteq excused'
  BY DEF CreateEnds, Created, CreateFails, May, TypeOK, PhasesAgree
<1>4. Holders' = Holders /\ g \in Holders
  BY <1>1, <1>2 DEF Holders, TypeOK, Scenarios, Driving
<1>5. MemoryBooked'
  BY <1>1, <1>2, <1>4, PoolKept DEF TypeOK, Scenarios
<1>6. TypeOK'
  BY <1>1, <1>2, <1>3 DEF TypeOK, Scenarios, Driving, Ended
<1>7. DomainIsLeased' /\ PhasesAgree' /\ AllSwept'
  BY <1>2, <1>3, <1>4 DEF DomainIsLeased, PhasesAgree, AllSwept
<1> QED BY <1>5, <1>6, <1>7

LEMMA PollKeeps ==
  ASSUME HarnessInv, NEW g \in Guests, PollEnds(g)
  PROVE  HarnessInv'
<1> USE DEF HarnessInv
<1>1. /\ at' = [at EXCEPT ![g] = "delete"] /\ at[g] = "poll" /\ g \in Scenarios
      /\ main \in {"run", "closing"}
      /\ UNCHANGED <<main, dry, remaining, struck, domains, folder, surviving, excused, late,
                     todo, swept, interrupts, faults>>
  BY DEF PollEnds, Goes, host, ghosts, ending, Scenarios
<1>2. Holders' = Holders
  BY <1>1 DEF Holders, TypeOK, Scenarios, Driving
<1>3. MemoryBooked'
  BY <1>1, <1>2, PoolKept DEF TypeOK, Scenarios
<1>4. TypeOK'
  BY <1>1 DEF TypeOK, Scenarios, Driving, Ended
<1>5. DomainIsLeased' /\ PhasesAgree' /\ AllSwept'
  BY <1>1, <1>2 DEF DomainIsLeased, PhasesAgree, AllSwept
<1> QED BY <1>3, <1>4, <1>5

\* What is left of the domain after the backstop is excused.
LEMMA DeleteKeeps ==
  ASSUME HarnessInv, NEW g \in Guests, DeleteEnds(g)
  PROVE  HarnessInv'
<1> USE DEF HarnessInv
<1>1. PICK next \in {"cancelled", "done"} : Release(g, next)
  BY DEF DeleteEnds
<1>2. /\ main \in {"run", "closing"} /\ at[g] = "delete" /\ g \in Scenarios
      /\ UNCHANGED <<main, dry, struck, surviving, late, todo, swept, interrupts>>
      /\ faults' \in 0..MaxFaults
  BY HarnessAssumption DEF DeleteEnds, ending, Scenarios, Fault, Fine, TypeOK
<1>3. /\ domains' \subseteq domains /\ folder' \subseteq folder
      /\ excused \subseteq excused' /\ excused' \subseteq Guests
      /\ g \in domains' => g \in excused'
  BY DEF DeleteEnds, Deleted, Deletevm, Backstop, MayNot, TypeOK
<1>4. MemoryBooked' /\ remaining' \in Nat /\ Holders' = Holders \ {g}
  BY <1>1, <1>2, PoolReleased DEF Driving
<1>5. TypeOK'
  BY <1>1, <1>2, <1>3, <1>4 DEF TypeOK, Release, Scenarios, Driving, Ended
<1>6. DomainIsLeased' /\ PhasesAgree' /\ AllSwept'
  BY <1>2, <1>3, <1>4 DEF DomainIsLeased, PhasesAgree, AllSwept
<1> QED BY <1>4, <1>5, <1>6

LEMMA CheckKeeps ==
  ASSUME HarnessInv, NEW c \in Checks, CheckStep(c)
  PROVE  HarnessInv'
<1> USE DEF HarnessInv
<1>1. PICK p \in {"check", "done"} : at' = [at EXCEPT ![c] = p]
  BY DEF CheckStep, CheckStarts, CheckEnds, Goes
<1>2. /\ main \in {"run", "closing"} /\ c \in Scenarios /\ c \notin Guests
      /\ UNCHANGED <<main, dry, remaining, struck, domains, folder, surviving, excused, late,
                     todo, swept, interrupts, faults>>
  BY HarnessAssumption
     DEF CheckStep, CheckStarts, CheckEnds, host, ghosts, ending, Scenarios
<1>3. Holders' = Holders /\ \A h \in Guests : at'[h] = at[h]
  BY <1>1, <1>2 DEF Holders, TypeOK, Scenarios
<1>4. MemoryBooked'
  BY <1>2, <1>3, PoolKept
<1>5. TypeOK'
  BY <1>1, <1>2 DEF TypeOK, Scenarios, Driving, Ended
<1>6. DomainIsLeased' /\ PhasesAgree' /\ AllSwept'
  BY <1>2, <1>3 DEF DomainIsLeased, PhasesAgree, AllSwept
<1> QED BY <1>4, <1>5, <1>6

\* A createvm left over acts on a guest that is excused, and noted if the reaping
\* has its list.
LEMMA CreatevmGoesOnKeeps ==
  ASSUME HarnessInv, NEW g \in Guests, CreatevmGoesOn(g)
  PROVE  HarnessInv'
<1> USE DEF HarnessInv
<1>1. /\ g \in surviving /\ g \in excused
      /\ UNCHANGED <<main, dry, at, remaining, struck, excused, todo, swept, interrupts, faults>>
      /\ domains' \subseteq domains \cup {g} /\ folder' \subseteq folder \cup {g}
      /\ surviving' \subseteq surviving
      /\ late \subseteq late' /\ late' \subseteq late \cup {g}
      /\ main \in {"reap", "sweep", "ended"} => g \in late'
  BY DEF CreatevmGoesOn, task, ending, May, MayNot, PhasesAgree, TypeOK
<1>2. Holders' = Holders
  BY <1>1 DEF Holders
<1>3. MemoryBooked'
  BY <1>1, <1>2, PoolKept
<1>4. main # "confirm"
  BY <1>1 DEF PhasesAgree
<1>5. TypeOK'
  BY <1>1 DEF TypeOK
<1>6. DomainIsLeased' /\ PhasesAgree' /\ AllSwept'
  BY <1>1, <1>2, <1>4 DEF DomainIsLeased, PhasesAgree, AllSwept
<1> QED BY <1>3, <1>5, <1>6

\* Cancelled guests give back what they held, and are excused.
LEMMA CancelKeeps ==
  ASSUME HarnessInv, NEW spared, CancelTasks(spared), main = "run",
         main' \in {"run", "closing"}, interrupts' \in 0..MaxInterrupts,
         UNCHANGED <<dry, late, todo, swept, faults>>
  PROVE  HarnessInv'
<1> USE DEF HarnessInv
<1> DEFINE torn == {g \in Guests \ spared : at[g] = "delete"}
           begun == {g \in Guests : at[g] \in {"create", "poll"}}
<1>1. /\ at' = [s \in Scenarios |->
                  IF s \in begun THEN "delete"
                  ELSE IF s \in torn \/ at[s] \in {"queued", "asleep", "check"}
                  THEN "cancelled" ELSE at[s]]
      /\ struck' = struck \cup begun
      /\ domains' \subseteq domains /\ folder' \subseteq folder
      /\ excused \subseteq excused' /\ torn \subseteq excused' /\ excused' \subseteq Guests
      /\ surviving' \subseteq excused'
  BY DEF CancelTasks, TypeOK, PhasesAgree
<1>2. MemoryBooked' /\ remaining' \in Nat /\ Holders' = Holders \ torn
  BY PoolCancelled
<1>3. TypeOK'
  <2>1. at' \in [Scenarios -> Driving \cup Ended \cup {"queued", "asleep", "check"}]
    BY <1>1 DEF TypeOK, Driving, Ended
  <2>2. \A c \in Checks : at'[c] \notin Driving \cup {"asleep"}
    BY <1>1, HarnessAssumption DEF TypeOK, Scenarios, Driving
  <2>3. \A g \in Guests : at'[g] # "check"
    BY <1>1 DEF TypeOK, Scenarios
  <2>4. struck' \in SUBSET Scenarios
    BY <1>1 DEF TypeOK, Scenarios
  <2> HIDE DEF torn, begun
  <2> QED BY <1>1, <1>2, <2>1, <2>2, <2>3, <2>4 DEF TypeOK
<1>4. DomainIsLeased'
  BY <1>1, <1>2 DEF DomainIsLeased
<1>5. PhasesAgree' /\ AllSwept'
  <2> HIDE DEF torn, begun
  <2> QED BY <1>1 DEF PhasesAgree, AllSwept
<1> QED BY <1>2, <1>3, <1>4, <1>5

\* Steps of the main task that leave the tasks and the host alone.
LEMMA TasksKept ==
  ASSUME HarnessInv, UNCHANGED <<dry, at, remaining, struck, surviving, excused>>,
         interrupts' \in 0..MaxInterrupts, faults' \in 0..MaxFaults,
         domains' \subseteq domains, folder' \subseteq folder,
         late' \in SUBSET Guests, todo' \in SUBSET Guests, swept' \in BOOLEAN,
         main' \in {"confirm", "run", "closing", "list", "reap", "sweep", "ended"}
  PROVE  TypeOK' /\ MemoryBooked' /\ DomainIsLeased'
<1> USE DEF HarnessInv
<1>1. Holders' = Holders
  BY DEF Holders
<1>2. MemoryBooked'
  BY <1>1, PoolKept
<1>3. TypeOK'
  BY DEF TypeOK
<1> QED BY <1>1, <1>2, <1>3 DEF DomainIsLeased

LEMMA InterruptKeeps ==
  ASSUME HarnessInv, Interrupt
  PROVE  HarnessInv'
<1>1. /\ interrupts' \in 0..MaxInterrupts
      /\ UNCHANGED <<dry, late, todo, swept, faults>>
  BY HarnessAssumption DEF Interrupt, ending, HarnessInv, TypeOK
<1>2. CASE InterruptRunning
  BY <1>1, <1>2, CancelKeeps DEF InterruptRunning, CloseLoop
<1>3. CASE InterruptAsking \/ InterruptEnding
  <2>1. /\ UNCHANGED <<at, remaining, struck, domains, folder, surviving, excused>>
        /\ main' \in {main, "list", "ended"}
        /\ main' # main => main' \in {"list", "ended"}
    BY <1>3 DEF InterruptAsking, InterruptEnding, NoTasks, task, host
  <2>2. main' \in {"confirm", "run", "closing", "list", "reap", "sweep", "ended"}
    BY <2>1 DEF HarnessInv, TypeOK
  <2>3. TypeOK' /\ MemoryBooked' /\ DomainIsLeased'
    BY <1>1, <2>1, <2>2, TasksKept DEF HarnessInv, TypeOK
  <2>4. main # "ended"
    BY <1>3 DEF InterruptAsking, InterruptEnding
  <2>5. PhasesAgree' /\ AllSwept'
    BY <1>1, <2>1, <2>4 DEF HarnessInv, PhasesAgree, AllSwept
  <2> QED BY <2>3, <2>5 DEF HarnessInv
<1> QED BY <1>2, <1>3 DEF Interrupt

LEMMA ConfirmKeeps ==
  ASSUME HarnessInv, Confirm
  PROVE  HarnessInv'
<1> USE DEF HarnessInv
<1>1. /\ main = "confirm" /\ main' = "run"
      /\ UNCHANGED <<dry, remaining, struck, domains, folder, surviving, excused, late, todo,
                     swept, interrupts, faults>>
  BY DEF Confirm, host, ghosts, ending
<1>2. \A s \in Scenarios : at[s] \in {"idle", "queued"}
  BY <1>1 DEF PhasesAgree
<1>3. at' \in [Scenarios -> {"idle", "queued", "cancelled"}]
  BY <1>2 DEF Confirm, Drop
<1>4. Holders = {} /\ Holders' = {}
  BY <1>2, <1>3 DEF Holders, Driving, Scenarios
<1>5. MemoryBooked'
  BY <1>1, <1>3, <1>4, PoolKept DEF Scenarios
<1>6. TypeOK'
  <2>1. at' \in [Scenarios -> Driving \cup Ended \cup {"queued", "asleep", "check"}]
    BY <1>3 DEF Ended
  <2>2. /\ \A c \in Checks : at'[c] \notin Driving \cup {"asleep"}
        /\ \A g \in Guests : at'[g] # "check"
    BY <1>3 DEF Driving, Scenarios
  <2> QED BY <1>1, <2>1, <2>2 DEF TypeOK
<1>7. DomainIsLeased' /\ PhasesAgree' /\ AllSwept'
  BY <1>1, <1>4 DEF DomainIsLeased, PhasesAgree, AllSwept
<1> QED BY <1>5, <1>6, <1>7

LEMMA MainKeeps ==
  ASSUME HarnessInv, ConfirmRaises \/ MainStep
  PROVE  HarnessInv'
<1> USE DEF HarnessInv
<1>1. CASE RunCancelled
  <2>1. main = "run" /\ UNCHANGED <<dry, late, todo, swept, interrupts, faults>>
    BY <1>1 DEF RunCancelled, ending
  <2> QED BY <1>1, <2>1, CancelKeeps DEF RunCancelled, CloseLoop, TypeOK
<1>2. CASE ConfirmRaises \/ RunEnds \/ LoopCloses \/ ReapingRaises \/ Reaped
  <2>1. /\ UNCHANGED <<dry, at, remaining, struck, domains, folder, surviving, excused, late,
                       todo, swept, interrupts>>
        /\ main' \in {"list", "ended", "sweep"} /\ main # "ended"
        /\ main' = "sweep" => main = "reap" /\ todo = {}
    BY <1>2 DEF ConfirmRaises, RunEnds, LoopCloses, ReapingRaises, Reaped, task, host, ghosts,
                ending
  <2>2. faults' \in 0..MaxFaults
    BY <1>2, HarnessAssumption
       DEF ConfirmRaises, RunEnds, LoopCloses, ReapingRaises, Reaped, Fault, TypeOK
  <2>3. TypeOK' /\ MemoryBooked' /\ DomainIsLeased'
    BY <2>1, <2>2, TasksKept DEF TypeOK
  <2>4. PhasesAgree' /\ AllSwept'
    BY <2>1 DEF PhasesAgree, AllSwept
  <2> QED BY <2>3, <2>4
<1>3. CASE List
  <2>1. /\ UNCHANGED <<dry, at, remaining, struck, domains, folder, surviving, excused, late,
                       swept, interrupts, faults>>
        /\ main = "list" /\ main' = "reap" /\ todo' = domains
    BY <1>3 DEF List, task, host, ghosts
  <2>2. TypeOK' /\ MemoryBooked' /\ DomainIsLeased'
    BY <2>1, TasksKept DEF TypeOK
  <2>3. PhasesAgree' /\ AllSwept'
    BY <2>1 DEF PhasesAgree, AllSwept
  <2> QED BY <2>2, <2>3
<1>4. CASE \E g \in Guests : Reap(g)
  <2>1. PICK g \in Guests : Reap(g)
    BY <1>4
  <2>2. /\ UNCHANGED <<main, dry, at, remaining, struck, folder, surviving, excused, swept,
                       interrupts>>
        /\ main = "reap" /\ todo' = todo \ {g}
        /\ domains' \subseteq domains /\ late \subseteq late' /\ late' \subseteq late \cup {g}
        /\ g \in domains' => g \in late'
        /\ faults' \in 0..MaxFaults
    BY <2>1, HarnessAssumption DEF Reap, task, Fault, Fine, TypeOK
  <2>3. TypeOK' /\ MemoryBooked' /\ DomainIsLeased'
    BY <2>2, TasksKept DEF TypeOK
  <2>4. PhasesAgree' /\ AllSwept'
    BY <2>2 DEF PhasesAgree, AllSwept
  <2> QED BY <2>3, <2>4
<1>5. CASE Sweep
  <2>1. /\ UNCHANGED <<dry, at, remaining, struck, domains, surviving, excused, todo,
                       interrupts>>
        /\ main = "sweep" /\ main' = "ended" /\ swept' = TRUE
        /\ folder' \subseteq folder /\ folder' \subseteq late'
        /\ late \subseteq late' /\ late' \subseteq late \cup folder
        /\ faults' \in 0..MaxFaults
    BY <1>5, HarnessAssumption DEF Sweep, task, Fault, Fine, TypeOK
  <2>2. TypeOK' /\ MemoryBooked' /\ DomainIsLeased'
    BY <2>1, TasksKept DEF TypeOK
  <2>3. PhasesAgree' /\ AllSwept'
    BY <2>1 DEF PhasesAgree, AllSwept
  <2> QED BY <2>2, <2>3
<1> QED BY <1>1, <1>2, <1>3, <1>4, <1>5 DEF MainStep

(***************************************************************************)
(* The theorems                                                            *)
(***************************************************************************)

LEMMA StepKeeps ==
  ASSUME HarnessInv, [Next]_vars
  PROVE  HarnessInv'
<1>1. CASE \E g \in Guests : GuestStep(g) \/ CreatevmGoesOn(g)
  BY <1>1, LeaseKeeps, CreateKeeps, PollKeeps, DeleteKeeps, CreatevmGoesOnKeeps DEF GuestStep
<1>2. CASE \E c \in Checks : CheckStep(c)
  BY <1>2, CheckKeeps
<1>3. CASE Interrupt \/ Confirm \/ ConfirmRaises \/ MainStep
  BY <1>3, InterruptKeeps, ConfirmKeeps, MainKeeps
<1>4. CASE UNCHANGED vars
  BY <1>4 DEF vars, task, host, ghosts, ending, HarnessInv, TypeOK, MemoryBooked, Fits, Holders,
              Budget, Effective, DomainIsLeased, PhasesAgree, AllSwept
<1> QED BY <1>1, <1>2, <1>3, <1>4 DEF Next

\* The invariant of the harness: the pool's books, who may have a domain, and what
\* the final reaping leaves.
THEOREM HarnessCorrect == Spec => []HarnessInv
BY InitHolds, StepKeeps, PTL DEF Spec

\* Memory is leased within the budget and never lost, and no task sleeps on memory
\* that is there.
THEOREM MemoryIsBooked == Spec => []MemoryBooked
<1>1. HarnessInv => MemoryBooked
  BY DEF HarnessInv
<1> QED BY <1>1, HarnessCorrect, PTL

\* With any budget at all the pool cannot come to rest with a guest waiting: once
\* every lease has been given back, through whatever cancellations, the largest
\* guest fits, and no task sleeps (VmPool.lease).
THEOREM PoolNeverStuck == Spec => []AdmittedAlone
<1>1. HarnessInv => AdmittedAlone
  <2>1. SUFFICES ASSUME HarnessInv, Budget > 0, Holders = {}, NEW g \in Guests
                 PROVE  Fits(g) /\ at[g] # "asleep"
    BY DEF AdmittedAlone
  <2>2. remaining = Budget
    BY <2>1, LoadAssumption DEF HarnessInv, TypeOK, MemoryBooked
  <2>3. Effective(g) \in Nat /\ Effective(g) <= Budget
    BY <2>1, HarnessAssumption DEF Effective, Budget
  <2>4. Fits(g)
    BY <2>2, <2>3 DEF Fits
  <2> QED
    BY <2>1, <2>4 DEF HarnessInv, MemoryBooked
<1> QED BY <1>1, HarnessCorrect, PTL

\* A domain exists only under a lease, or where a teardown could not be had whole.
THEOREM DomainsAreLeased == Spec => []DomainIsLeased
<1>1. HarnessInv => DomainIsLeased
  BY DEF HarnessInv
<1> QED BY <1>1, HarnessCorrect, PTL

\* A final reaping that comes to its end leaves nothing but what it failed on and
\* what came after it.
THEOREM NothingIsLeft == Spec => []AllSwept
<1>1. HarnessInv => AllSwept
  BY DEF HarnessInv
<1> QED BY <1>1, HarnessCorrect, PTL
=============================================================================
