--------------------------- MODULE SmokeRun_proofs ---------------------------
(***************************************************************************)
(* Theorems about SmokeRun, for any manifest, any costs, budget and batch  *)
(* size, any leftovers, and any number of failures and interrupts.         *)
(***************************************************************************)
EXTENDS SmokeRun, FiniteSetTheorems, TLAPS

(***************************************************************************)
(* The plan                                                                *)
(***************************************************************************)

LEMMA CostsAdd ==
  ASSUME TypeOK
  PROVE  /\ \A S \in SUBSET Cases : CostOf(S) \in Nat
         /\ \A c \in Cases : CostOf({c}) = cost[c]
         /\ \A S, T \in SUBSET Cases :
              S \cap T = {} => CostOf(S \cup T) = CostOf(S) + CostOf(T)
BY TotalAssumption DEF TypeOK, CostOf

\* A set of cases costs no more than one that contains it.
LEMMA CostsGrow ==
  ASSUME TypeOK, NEW T \in SUBSET Cases, NEW S \in SUBSET T
  PROVE  CostOf(S) <= CostOf(T)
<1>1. /\ S \in SUBSET Cases /\ T \ S \in SUBSET Cases
      /\ S \cap (T \ S) = {} /\ S \cup (T \ S) = T
  OBVIOUS
<1>2. CostOf(S \cup (T \ S)) = CostOf(S) + CostOf(T \ S)
  BY <1>1, CostsAdd
<1>3. CostOf(S) \in Nat /\ CostOf(T \ S) \in Nat /\ CostOf(T) = CostOf(S \cup (T \ S))
  BY <1>1, CostsAdd
<1> QED BY <1>2, <1>3

LEMMA PlanKept ==
  ASSUME PlanSound, UNCHANGED <<inputs, plan>>
  PROVE  PlanSound'
BY DEF PlanSound, PlanFits, PlanPartition, NoSpareBatch, Charged, CostOf, inputs, plan

\* Where a case is put into a batch that has room, or into a new one, the
\* batches before it had no room, and stay as full as they are.
LEMMA PlaceKeepsPlan ==
  ASSUME TypeOK, PlanSound, NEW c \in Cases, Place(c)
  PROVE  /\ PlanSound'
         /\ unplanned' \in SUBSET Cases
         /\ batches' \in Seq(SUBSET Cases) /\ booked' \in Seq(Nat)
         /\ Len(booked') = Len(batches')
<1>1. c \in unplanned /\ unplanned' = unplanned \ {c} /\ UNCHANGED inputs
  BY DEF Place, IsNext, IsFirst
<1>2. /\ batches \in Seq(SUBSET Cases) /\ booked \in Seq(Nat)
      /\ Len(booked) = Len(batches) /\ cost[c] \in Nat /\ cost \in [Cases -> Nat]
      /\ unplanned \in SUBSET Cases /\ budget \in Nat
  BY SmokeAssumption DEF TypeOK
<1>3. CASE \E i \in Room(c) : IsFirst(i, Room(c)) /\ AddTo(i, c)
  <2>1. PICK i \in Room(c) : IsFirst(i, Room(c)) /\ AddTo(i, c)
    BY <1>3
  <2>2. i \in DOMAIN batches /\ i \in DOMAIN booked
    BY <1>2 DEF Room
  <2>3. /\ DOMAIN batches' = DOMAIN batches
        /\ batches'[i] = batches[i] \cup {c}
        /\ \A j \in DOMAIN batches : j # i => batches'[j] = batches[j]
    BY <2>1, <2>2, <1>2 DEF AddTo
  <2>4. /\ booked'[i] = booked[i] + cost[c]
        /\ \A j \in DOMAIN batches : j # i => booked'[j] = booked[j]
        /\ \A j \in DOMAIN batches : booked[j] \in Nat
    BY <2>1, <2>2, <1>2 DEF AddTo
  <2>5. PlanFits'
    BY <1>1, <1>2, <2>1, <2>2, <2>3, <2>4 DEF PlanSound, PlanFits, Room, inputs
  <2>6. PlanPartition'
    <3>1. \A j \in DOMAIN batches' : batches'[j] # {} /\ batches'[j] \cap unplanned' = {}
      BY <1>1, <2>2, <2>3 DEF PlanSound, PlanPartition
    <3>2. \A j, k \in DOMAIN batches' : j # k => batches'[j] \cap batches'[k] = {}
      <4> SUFFICES ASSUME NEW j \in DOMAIN batches, NEW k \in DOMAIN batches, j # k,
                          NEW d \in batches'[j], d \in batches'[k]
                   PROVE  FALSE
        BY <2>3
      <4>1. batches[j] \cap batches[k] = {} /\ c \notin batches[j] /\ c \notin batches[k]
        BY <1>1 DEF PlanSound, PlanPartition
      <4> QED BY <4>1, <2>2, <2>3
    <3>3. \A d \in Cases \ unplanned' : \E j \in DOMAIN batches' : d \in batches'[j]
      BY <1>1, <2>2, <2>3 DEF PlanSound, PlanPartition
    <3> QED BY <3>1, <3>2, <3>3 DEF PlanPartition
  <2>7. NoSpareBatch'
    <3> SUFFICES ASSUME size = 0,
                        NEW j \in DOMAIN batches, NEW k \in DOMAIN batches, j < k,
                        NEW d \in batches'[k]
                 PROVE  booked'[j] + cost[d] > budget
      BY <1>1, <2>3 DEF NoSpareBatch, inputs
    <3>0. d \in Cases /\ cost[d] \in Nat
      <4>1. batches[k] \subseteq Cases
        BY <1>2
      <4>2. d \in batches[k] \/ d = c
        BY <2>2, <2>3
      <4> QED BY <4>1, <4>2, <1>2
    <3>1. booked'[j] >= booked[j] /\ booked[j] \in Nat /\ booked'[j] \in Nat
      <4>1. booked[j] \in Nat
        BY <2>4
      <4>2. booked'[j] = booked[j] \/ booked'[j] = booked[j] + cost[c]
        BY <2>2, <2>4
      <4> QED BY <4>1, <4>2, <1>2
    <3>2. CASE d \in batches[k]
      <4>1. booked[j] + cost[d] > budget
        BY <3>2 DEF PlanSound, NoSpareBatch
      <4> QED BY <4>1, <3>0, <3>1, <1>2
    <3>3. CASE d \notin batches[k]
      <4>1. k = i /\ d = c
        BY <3>3, <2>3
      <4>2. j \notin Room(c)
        BY <4>1, <2>1, <2>2, <1>2 DEF IsFirst
      <4>3. ~(booked[j] + cost[d] <= budget)
        BY <4>1, <4>2 DEF Room
      <4> QED BY <4>3, <3>0, <3>1, <1>2
    <3> QED BY <3>2, <3>3
  <2>8. batches' \in Seq(SUBSET Cases) /\ booked' \in Seq(Nat)
        /\ Len(booked') = Len(batches')
    BY <2>1, <2>2, <1>2 DEF AddTo
  <2>9. Charged'
    <3>1. /\ batches[i] \in SUBSET Cases /\ batches[i] \cap {c} = {}
          /\ booked[i] = CostOf(batches[i])
      BY <1>1, <1>2, <2>2 DEF PlanSound, PlanPartition, Charged
    <3>2. CostOf(batches[i] \cup {c}) = booked[i] + cost[c]
      BY <3>1, CostsAdd, <1>2
    <3> QED BY <1>1, <2>3, <2>4, <3>2, <2>2 DEF PlanSound, Charged, CostOf, inputs
  <2> QED BY <1>1, <1>2, <2>5, <2>6, <2>7, <2>8, <2>9 DEF PlanSound
<1>4. CASE Room(c) = {} /\ AddBatch(c)
  <2> DEFINE n == Len(batches) + 1
  <2>1. batches' = Append(batches, {c}) /\ booked' = Append(booked, cost[c])
    BY <1>4 DEF AddBatch
  <2>2. /\ DOMAIN batches = 1..Len(batches)
        /\ DOMAIN batches' = 1..n
        /\ batches'[n] = {c}
        /\ \A j \in DOMAIN batches : batches'[j] = batches[j]
    BY <2>1, <1>2
  <2>3. /\ booked'[n] = cost[c]
        /\ \A j \in DOMAIN batches : booked'[j] = booked[j] /\ booked[j] \in Nat
    BY <2>1, <1>2
  <2>4. Len(batches) \in Nat
    BY <1>2
  <2>5. PlanFits'
    BY <1>1, <2>2, <2>3, <2>4 DEF PlanSound, PlanFits, inputs
  <2>6. PlanPartition'
    <3>1. \A j \in DOMAIN batches' : batches'[j] # {} /\ batches'[j] \cap unplanned' = {}
      BY <1>1, <2>2, <2>4 DEF PlanSound, PlanPartition
    <3>2. \A j, k \in DOMAIN batches' : j # k => batches'[j] \cap batches'[k] = {}
      BY <1>1, <2>2, <2>4 DEF PlanSound, PlanPartition
    <3>3. \A d \in Cases \ unplanned' : \E j \in DOMAIN batches' : d \in batches'[j]
      BY <1>1, <2>2, <2>4 DEF PlanSound, PlanPartition
    <3> QED BY <3>1, <3>2, <3>3 DEF PlanPartition
  <2>7. NoSpareBatch'
    <3> SUFFICES ASSUME size = 0,
                        NEW j \in 1..n, NEW k \in 1..n, j < k, NEW d \in batches'[k]
                 PROVE  booked'[j] + cost[d] > budget
      BY <1>1, <2>2 DEF NoSpareBatch, inputs
    <3>1. j \in DOMAIN batches
      BY <2>2, <2>4
    <3>2. CASE k = n
      <4>1. d = c /\ j \notin Room(c)
        BY <3>2, <2>2, <1>4
      <4> QED BY <4>1, <3>1, <2>3, <1>2 DEF Room
    <3>3. CASE k # n
      <4>1. k \in DOMAIN batches /\ d \in batches[k]
        BY <3>3, <2>2, <2>4
      <4> QED BY <4>1, <3>1, <2>3 DEF PlanSound, NoSpareBatch
    <3> QED BY <3>2, <3>3
  <2>8. batches' \in Seq(SUBSET Cases) /\ booked' \in Seq(Nat)
        /\ Len(booked') = Len(batches')
    BY <2>1, <1>2
  <2>9. Charged'
    <3>1. CostOf({c}) = cost[c]
      BY CostsAdd
    <3>2. booked'[n] = Total[cost'][batches'[n]]
      BY <1>1, <2>2, <2>3, <3>1 DEF CostOf, inputs
    <3>3. \A j \in DOMAIN batches : booked'[j] = Total[cost'][batches'[j]]
      BY <1>1, <2>2, <2>3 DEF PlanSound, Charged, CostOf, inputs
    <3>4. \A j \in DOMAIN batches' : j = n \/ j \in DOMAIN batches
      BY <2>2, <2>4
    <3> QED BY <3>2, <3>3, <3>4 DEF Charged, CostOf
  <2> QED BY <1>1, <1>2, <2>5, <2>6, <2>7, <2>8, <2>9 DEF PlanSound
<1> QED BY <1>3, <1>4 DEF Place

(***************************************************************************)
(* The invariant                                                           *)
(***************************************************************************)

LEMMA BudgetIsNat ==
  ASSUME NEW m \in Available, NEW cap \in Caps
  PROVE  BudgetOf(m, cap) \in Nat
BY SmokeAssumption DEF BudgetOf

LEMMA FaultsCounted ==
  ASSUME TypeOK, Fault \/ Fine
  PROVE  faults' \in 0..MaxFaults
BY SmokeAssumption DEF TypeOK, Fault, Fine

LEMMA InitInv == Init => SmokeInv
<1> SUFFICES ASSUME Init PROVE SmokeInv
  OBVIOUS
<1> USE SmokeAssumption
<1>1. TypeOK
  <2>1. available \in Nat /\ budget \in Nat /\ size \in Nat
    BY BudgetIsNat DEF Init
  <2>2. cost \in [Cases -> Costs] /\ domain \in [Cases -> DomainStates]
    BY DEF Init
  <2>3. /\ batches \in Seq(SUBSET Cases) /\ booked \in Seq(Nat)
        /\ Len(booked) = Len(batches)
    BY DEF Init
  <2>4. faults \in 0..MaxFaults /\ interrupts \in 0..MaxInterrupts
    BY DEF Init
  <2> QED BY <2>1, <2>2, <2>3, <2>4 DEF Init, TypeOK, Busy, Calling, Ended, Phases, TERMINAL, DomainStates
<1>2. PlanSound
  BY DEF Init, PlanSound, PlanFits, PlanPartition, NoSpareBatch, Charged
<1>3. ControlInv
  BY DEF Init, ControlInv, RanAny, Busy, Calling, TERMINAL
<1>4. DomainInv
  BY DEF Init, DomainInv, RanAny
<1>5. EndInv
  BY DEF Init, EndInv
<1> QED BY <1>1, <1>2, <1>3, <1>4, <1>5 DEF SmokeInv

LEMMA PlaceInv ==
  ASSUME SmokeInv, NEW c \in Cases, Place(c)
  PROVE  SmokeInv'
<1>0. main = "plan" /\ UNCHANGED <<inputs, thread, workers, machines, struck, interrupts, faults>>
  BY DEF Place
<1> USE DEF inputs, thread, workers, machines
<1>1. PlanSound' /\ TypeOK'
  BY <1>0, PlaceKeepsPlan DEF SmokeInv, TypeOK
<1>2. ControlInv'
  BY <1>0 DEF SmokeInv, ControlInv, RanAny, Busy, Calling
<1>3. DomainInv'
  BY <1>0 DEF SmokeInv, DomainInv, RanAny, Known, Clean
<1>4. EndInv'
  BY <1>0 DEF EndInv
<1> QED BY <1>1, <1>2, <1>3, <1>4 DEF SmokeInv

\* Steps of the main thread that only go on.
LEMMA MoveInv ==
  ASSUME SmokeInv,
         Preflight \/ Planned \/ Confirm \/ Refuse \/ Submitted \/ Finish
  PROVE  SmokeInv'
<1>0. UNCHANGED <<inputs, plan, workers, machines, struck, interrupts, faults,
                  current, raising, overlooked>> /\ todo' = {}
  BY DEF Preflight, Planned, Confirm, Refuse, Submitted, Finish, GoMain
<1> USE DEF inputs, plan, workers, machines, SmokeInv, Preflight, Planned, Confirm,
            Refuse, Submitted, Finish, GoMain
<1>1. TypeOK'
  BY <1>0 DEF TypeOK, Ended
<1>2. PlanSound'
  BY <1>0, PlanKept
<1>3. ControlInv'
  BY <1>0 DEF TypeOK, ControlInv, RanAny, Busy, Calling
<1>4. DomainInv'
  BY <1>0 DEF DomainInv, RanAny, Known, Clean
<1>5. EndInv'
  BY <1>0 DEF EndInv, Over, Clean
<1> QED BY <1>1, <1>2, <1>3, <1>4, <1>5

LEMMA ListInv ==
  ASSUME SmokeInv, List
  PROVE  SmokeInv'
<1> USE DEF inputs, plan, workers, machines, SmokeInv, List
<1>1. TypeOK'
  <2>1. faults' \in 0..MaxFaults
    BY FaultsCounted
  <2>2. todo' \in SUBSET Cases /\ overlooked' \in BOOLEAN
    BY DEF TypeOK
  <2> QED BY <2>1, <2>2 DEF TypeOK
<1>2. PlanSound'
  BY PlanKept
<1>3. ControlInv'
  BY DEF ControlInv, RanAny
<1>4. DomainInv'
  BY DEF DomainInv, ControlInv, RanAny, Known, Clean
<1>5. EndInv'
  BY DEF EndInv
<1> QED BY <1>1, <1>2, <1>3, <1>4, <1>5

Tried(c) == DestroyDone(c) \/ DestroyRefused(c) \/ DestroyFailed(c)

\* What a destroy of a case leaves behind, whether it works or not.
DestroyLeaves(c) ==
  /\ domain' \in [Cases -> DomainStates]
  /\ fresh' \in SUBSET Cases /\ unreaped' \in SUBSET Cases
  /\ Clean(c)'
  /\ fresh' \subseteq fresh
  /\ c \in fresh' /\ domain[c] # "absent" => domain'[c] # "absent"
  /\ \A d \in Cases \ {c} : /\ domain'[d] = domain[d]
                            /\ d \in fresh' <=> d \in fresh
                            /\ d \in unreaped' <=> d \in unreaped

LEMMA DestroyEffect ==
  ASSUME TypeOK, NEW c \in Cases, Tried(c)
  PROVE  DestroyLeaves(c)
<1>1. CASE DestroyDone(c)
  BY <1>1 DEF TypeOK, DestroyDone, DestroyLeaves, Clean, DomainStates
<1>2. CASE DestroyRefused(c)
  BY <1>2 DEF TypeOK, DestroyRefused, DestroyLeaves, Clean, DomainStates
<1>3. CASE DestroyFailed(c)
  <2>1. PICK d \in {domain[c], "off", "absent"} :
          /\ domain[c] = "absent" => d = "absent"
          /\ domain' = [domain EXCEPT ![c] = d]
          /\ fresh' = IF d = "absent" THEN fresh \ {c} ELSE fresh
    BY <1>3 DEF DestroyFailed
  <2>2. unreaped' = unreaped \cup {c}
    BY <1>3 DEF DestroyFailed
  <2>3. d \in DomainStates /\ domain'[c] = d
    BY <2>1 DEF TypeOK, DomainStates
  <2> QED BY <2>1, <2>2, <2>3 DEF TypeOK, DestroyLeaves, Clean
<1> QED BY <1>1, <1>2, <1>3 DEF Tried

LEMMA ForceDestroyInv ==
  ASSUME SmokeInv, NEW c \in Cases, ForceDestroy(c)
  PROVE  SmokeInv'
<1>0. /\ main \in {"reap", "finally"} /\ main' = main
      /\ c \in todo /\ todo' = todo \ {c}
      /\ UNCHANGED <<inputs, plan, workers, struck, interrupts, current, raising,
                     overlooked>>
  BY DEF ForceDestroy, GoMain, IsFirst
<1>a. TypeOK
  BY DEF SmokeInv
<1>b. Tried(c) /\ (Fault \/ Fine)
  BY DEF ForceDestroy, Tried
<1>c. DestroyLeaves(c)
  BY <1>a, <1>b, DestroyEffect
<1> USE DEF inputs, plan, workers
<1>1. TypeOK'
  <2>1. faults' \in 0..MaxFaults
    BY <1>a, <1>b, FaultsCounted
  <2> QED BY <1>0, <1>a, <1>c, <2>1 DEF TypeOK, DestroyLeaves
<1>2. PlanSound'
  BY <1>0, PlanKept DEF SmokeInv
<1>3. ControlInv'
  BY <1>0 DEF SmokeInv, ControlInv, RanAny
<1>4. DomainInv'
  <2>1. \A d \in fresh' : domain'[d] # "absent" /\ at'[d] # "idle"
    BY <1>0, <1>a, <1>c DEF SmokeInv, DomainInv, TypeOK, DestroyLeaves
  <2>2. \A d \in Cases : Clean(d) => Clean(d)'
    BY <1>c DEF Clean, DestroyLeaves
  <2>3. \A d \in Cases : Known(d) => Known(d)'
    BY <1>0, <1>c, <2>2 DEF Known, Clean, DestroyLeaves
  <2>4. \A d \in Cases : (Known(d) \/ d \in todo) => (Known(d)' \/ d \in todo')
    BY <1>0, <1>c, <2>3 DEF Known, DestroyLeaves
  <2> QED BY <1>0, <2>1, <2>2, <2>3, <2>4 DEF SmokeInv, DomainInv, RanAny
<1>5. EndInv'
  <2>1. \A d \in Cases : Clean(d) => Clean(d)'
    BY <1>c DEF Clean, DestroyLeaves
  <2> QED BY <1>0, <1>c, <2>1 DEF SmokeInv, EndInv, Over, DestroyLeaves
<1> QED BY <1>1, <1>2, <1>3, <1>4, <1>5 DEF SmokeInv

\* The main thread submits the next batch.
LEMMA NextBatchInv ==
  ASSUME SmokeInv, NextBatch, RanAny \/ main = "reap",
         UNCHANGED <<inputs, plan, workers, machines, struck, interrupts, faults>>,
         current + 1 \in DOMAIN batches,
         unplanned = {},
         \A c \in Cases : at[c] \in {"idle", "returned"},
         \A i \in DOMAIN batches : i > current => \A c \in batches[i] : at[c] = "idle",
         main = "reap" => todo = {}
  PROVE  SmokeInv'
<1> USE DEF inputs, plan, workers, machines, NextBatch, SmokeInv
<1>1. TypeOK'
  BY DEF TypeOK
<1>2. PlanSound'
  BY PlanKept
<1>3. ControlInv'
  <2>1. current \in Nat /\ current' = current + 1 /\ current' \in DOMAIN batches
    BY DEF TypeOK
  <2>2. \A c \in batches[current'] : at[c] = "idle"
    BY <2>1
  <2>3. todo' = {c \in batches[current'] : at[c] = "idle"}
    BY <2>1, <2>2
  <2>4. \A i \in DOMAIN batches : i > current' => \A c \in batches[i] : at[c] = "idle"
    <3>1. \A i \in DOMAIN batches : i > current' => i > current
      BY <2>1 DEF TypeOK
    <3> QED BY <3>1
  <2>5. main' = "submit" /\ unplanned' = {} /\ batches' = batches /\ at' = at
    OBVIOUS
  <2>6. \A c \in Cases : at[c] \notin Busy \cup {"raised"}
    BY DEF Busy, Calling
  <2>7. \A c \in Cases : phase'[c] \in TERMINAL <=> at'[c] = "returned"
    BY DEF ControlInv
  <2> HIDE DEF SmokeInv, NextBatch
  <2> QED BY <2>1, <2>3, <2>4, <2>5, <2>6, <2>7 DEF ControlInv, RanAny
<1>4. DomainInv'
  BY DEF DomainInv, RanAny, Known, Clean
<1>5. EndInv'
  BY DEF EndInv
<1> QED BY <1>1, <1>2, <1>3, <1>4, <1>5

LEMMA ReapedInv ==
  ASSUME SmokeInv, Reaped
  PROVE  SmokeInv'
<1>1. /\ main = "reap" /\ todo = {} /\ NextBatch
      /\ UNCHANGED <<inputs, plan, workers, machines, struck, interrupts, faults>>
  BY DEF Reaped
<1>2. unplanned = {} /\ current = 0 /\ \A c \in Cases : at[c] = "idle"
  BY <1>1 DEF SmokeInv, ControlInv, RanAny
<1>3. 1 \in Cases /\ batches \in Seq(SUBSET Cases)
  BY SmokeAssumption DEF SmokeInv, TypeOK, Cases
<1>4. PICK i \in DOMAIN batches : 1 \in batches[i]
  BY <1>2, <1>3 DEF SmokeInv, PlanSound, PlanPartition
<1>5. current + 1 \in DOMAIN batches
  BY <1>2, <1>3, <1>4
<1>6. \A j \in DOMAIN batches : batches[j] \subseteq Cases
  BY <1>3
<1> QED BY <1>1, <1>2, <1>5, <1>6, NextBatchInv

LEMMA SubmitInv ==
  ASSUME SmokeInv, NEW c \in Cases, Submit(c)
  PROVE  SmokeInv'
<1>0. /\ main = "submit" /\ main' = "submit" /\ c \in todo /\ todo' = todo \ {c}
      /\ at' = [at EXCEPT ![c] = "up"] /\ phase' = [phase EXCEPT ![c] = "up"]
      /\ UNCHANGED <<inputs, plan, verified, machines, struck, interrupts, faults,
                     current, raising, overlooked>>
  BY DEF Submit, GoMain, IsFirst
<1> USE DEF inputs, plan, machines
<1>1. TypeOK'
  BY <1>0 DEF SmokeInv, TypeOK, Busy, Calling, Phases
<1>2. PlanSound'
  BY <1>0, PlanKept DEF SmokeInv
<1>3. ControlInv'
  <2>1. current \in DOMAIN batches /\ c \in batches[current] /\ at[c] = "idle"
    BY <1>0 DEF SmokeInv, ControlInv, RanAny
  <2>2. /\ at'[c] = "up" /\ phase'[c] = "up"
        /\ \A d \in Cases \ {c} : at'[d] = at[d] /\ phase'[d] = phase[d]
    BY <1>0 DEF SmokeInv, TypeOK
  <2>3. \A i \in DOMAIN batches : batches[i] \subseteq Cases
    BY DEF SmokeInv, TypeOK
  <2>4. \A i \in DOMAIN batches : i > current => c \notin batches[i]
    <3>1. batches \in Seq(SUBSET Cases) /\ current \in Nat
      BY DEF SmokeInv, TypeOK
    <3>2. \A i \in DOMAIN batches : i > current => i # current
      BY <3>1
    <3>3. \A i \in DOMAIN batches : i # current => batches[i] \cap batches[current] = {}
      BY <2>1 DEF SmokeInv, PlanSound, PlanPartition
    <3> QED BY <2>1, <3>2, <3>3
  <2>5. \A i \in DOMAIN batches : i > current => \A d \in batches[i] : at'[d] = "idle"
    BY <1>0, <2>2, <2>3, <2>4 DEF SmokeInv, ControlInv
  <2>6. todo' = {d \in batches[current] : at'[d] = "idle"}
    BY <1>0, <2>1, <2>2, <2>3 DEF SmokeInv, ControlInv
  <2>7. \A d \in Cases : phase'[d] \in TERMINAL <=> at'[d] = "returned"
    BY <2>2 DEF SmokeInv, ControlInv, TERMINAL
  <2>8. \A d \in Cases : at'[d] \in Busy \cup {"raised"} => d \in batches[current]
    BY <2>1, <2>2 DEF SmokeInv, ControlInv
  <2> QED BY <1>0, <2>1, <2>5, <2>6, <2>7, <2>8 DEF SmokeInv, ControlInv, RanAny
<1>4. DomainInv'
  BY <1>0 DEF SmokeInv, DomainInv, TypeOK, RanAny, Known, Clean
<1>5. EndInv'
  BY <1>0 DEF EndInv
<1> QED BY <1>1, <1>2, <1>3, <1>4, <1>5 DEF SmokeInv

\* The main thread leaves _run_batches.
LEMMA LeaveInv ==
  ASSUME SmokeInv, NEW e \in BOOLEAN, Leave(e), RanAny, unplanned = {},
         UNCHANGED <<inputs, plan, workers, machines, faults>>,
         struck' \in SUBSET Cases, interrupts' \in 0..MaxInterrupts,
         MaxInterrupts <= 1 => \A c \in Cases : Over(c)
  PROVE  SmokeInv'
<1> USE DEF inputs, plan, workers, machines, Leave
<1>1. TypeOK'
  BY DEF SmokeInv, TypeOK, CasesToReap
<1>2. PlanSound'
  BY PlanKept DEF SmokeInv
<1>3. ControlInv'
  BY DEF SmokeInv, ControlInv, RanAny
<1>4. DomainInv'
  BY DEF SmokeInv, DomainInv, RanAny, Known, Clean
<1>5. EndInv'
  BY DEF SmokeInv, ControlInv, DomainInv, EndInv, CasesToReap, Over, Clean
<1> QED BY <1>1, <1>2, <1>3, <1>4, <1>5 DEF SmokeInv

LEMMA BatchOverInv ==
  ASSUME SmokeInv, BatchOver
  PROVE  SmokeInv'
<1>1. /\ main = "wait" /\ \A c \in batches[current] : Over(c)
      /\ UNCHANGED <<inputs, plan, workers, machines, struck, interrupts, faults>>
  BY DEF BatchOver
<1>2. /\ unplanned = {} /\ current \in DOMAIN batches /\ todo = {}
      /\ \A c \in batches[current] : at[c] # "idle"
      /\ \A i \in DOMAIN batches : i > current => \A c \in batches[i] : at[c] = "idle"
      /\ \A c \in Cases : at[c] \in Busy \cup {"raised"} => c \in batches[current]
  <2>1. todo = {c \in batches[current] : at[c] = "idle"}
    BY <1>1 DEF SmokeInv, ControlInv
  <2> QED BY <1>1, <2>1 DEF SmokeInv, ControlInv, RanAny
<1>3. ASSUME \A c \in batches[current] : at[c] = "returned"
      PROVE  \A c \in Cases : at[c] \in {"idle", "returned"}
  <2> SUFFICES ASSUME NEW c \in Cases, c \notin batches[current]
               PROVE  at[c] \in {"idle", "returned"}
    BY <1>3
  <2> QED BY <1>2 DEF SmokeInv, TypeOK, Busy
<1>4. CASE current < Len(batches) /\ NextBatch
           /\ \A c \in batches[current] : at[c] = "returned"
  <2>1. current + 1 \in DOMAIN batches
    BY <1>2, <1>4 DEF SmokeInv, TypeOK
  <2> QED BY <1>1, <1>2, <1>3, <1>4, <2>1, NextBatchInv DEF RanAny
<1>5. CASE \E e \in BOOLEAN : Leave(e)
  <2>1. PICK e \in BOOLEAN : Leave(e)
    BY <1>5
  <2>2. \A c \in Cases : Over(c)
    BY <1>1, <1>2 DEF SmokeInv, TypeOK, Over, Busy
  <2>3. struck' \in SUBSET Cases /\ interrupts' \in 0..MaxInterrupts
    BY <1>1 DEF SmokeInv, TypeOK
  <2> QED BY <1>1, <1>2, <2>1, <2>2, <2>3, LeaveInv DEF RanAny
<1> QED BY <1>4, <1>5 DEF BatchOver

LEMMA PoolExitInv ==
  ASSUME SmokeInv, PoolExit
  PROVE  SmokeInv'
<1>1. /\ main = "unwind" /\ Leave(TRUE) /\ \A c \in Cases : Over(c)
      /\ UNCHANGED <<inputs, plan, workers, machines, struck, interrupts, faults>>
  BY DEF PoolExit
<1>2. unplanned = {} /\ RanAny
  BY <1>1 DEF SmokeInv, ControlInv, RanAny
<1>3. struck' \in SUBSET Cases /\ interrupts' \in 0..MaxInterrupts
  BY <1>1 DEF SmokeInv, TypeOK
<1> QED BY <1>1, <1>2, <1>3, LeaveInv

LEMMA InterruptInv ==
  ASSUME SmokeInv, Interrupt
  PROVE  SmokeInv'
<1>0. /\ UNCHANGED <<inputs, plan, workers, faults>>
      /\ interrupts < MaxInterrupts /\ interrupts' = interrupts + 1
      /\ main \notin Ended
      /\ struck' \in SUBSET Cases
  BY DEF Interrupt, SmokeInv, TypeOK
<1>a. interrupts' \in 0..MaxInterrupts /\ interrupts' > 0 /\ interrupts \in Nat
  BY <1>0, SmokeAssumption DEF SmokeInv, TypeOK
<1>1. CASE main \in {"submit", "wait"} /\ GoMain("unwind", {}) /\ UNCHANGED machines
  <2> USE DEF inputs, plan, workers, machines, GoMain
  <2>1. TypeOK'
    BY <1>0, <1>a, <1>1 DEF SmokeInv, TypeOK
  <2>2. PlanSound'
    BY <1>0, PlanKept DEF SmokeInv
  <2>3. ControlInv'
    BY <1>0, <1>a, <1>1 DEF SmokeInv, ControlInv, RanAny
  <2>4. DomainInv'
    BY <1>0, <1>1 DEF SmokeInv, DomainInv, RanAny, Known, Clean
  <2>5. EndInv'
    BY <1>1 DEF EndInv
  <2> QED BY <2>1, <2>2, <2>3, <2>4, <2>5 DEF SmokeInv
<1>2. CASE main = "unwind" /\ Leave(TRUE) /\ UNCHANGED machines
  <2>1. unplanned = {} /\ RanAny /\ ~(MaxInterrupts <= 1)
    BY <1>0, <1>a, <1>2, SmokeAssumption DEF SmokeInv, ControlInv, RanAny
  <2> QED BY <1>0, <1>a, <1>2, <2>1, LeaveInv
<1>3. CASE /\ main \notin {"submit", "wait", "unwind"}
           /\ GoMain("cut", {})
           /\ \/ UNCHANGED machines
              \/ \E c \in todo : DestroyFailed(c)
  <2> USE DEF inputs, plan, workers, machines, GoMain
  <2>1. /\ domain' \in [Cases -> DomainStates]
        /\ fresh' \in SUBSET Cases /\ unreaped' \in SUBSET Cases
        /\ \A d \in Cases : Clean(d) => Clean(d)'
        /\ \A d \in Cases : Known(d) => Known(d)'
        /\ \A d \in fresh' : d \in fresh /\ domain'[d] # "absent"
    <3>1. CASE UNCHANGED machines
      BY <1>3, <3>1 DEF SmokeInv, TypeOK, DomainInv, Clean, Known
    <3>2. CASE \E c \in todo : DestroyFailed(c)
      <4>1. PICK c \in todo : DestroyFailed(c)
        BY <3>2
      <4>2. c \in Cases /\ TypeOK /\ Tried(c)
        BY <4>1 DEF SmokeInv, TypeOK, Tried
      <4>3. DestroyLeaves(c)
        BY <4>2, DestroyEffect
      <4>4. \A d \in Cases : Clean(d) => Clean(d)'
        BY <4>3 DEF Clean, DestroyLeaves
      <4>5. \A d \in Cases : Known(d) => Known(d)'
        BY <1>3, <4>3, <4>4 DEF Known, Clean, DestroyLeaves
      <4>6. \A d \in fresh' : d \in fresh /\ domain'[d] # "absent"
        BY <4>3 DEF SmokeInv, DomainInv, DestroyLeaves
      <4> QED BY <4>3, <4>4, <4>5, <4>6 DEF DestroyLeaves
    <3> QED BY <1>3, <3>1, <3>2
  <2>2. TypeOK'
    BY <1>0, <1>a, <1>3, <2>1 DEF SmokeInv, TypeOK, Ended
  <2>3. PlanSound'
    BY <1>0, PlanKept DEF SmokeInv
  <2>4. ControlInv'
    BY <1>0, <1>3 DEF SmokeInv, ControlInv, RanAny
  <2>5. DomainInv'
    BY <1>0, <1>3, <2>1 DEF SmokeInv, DomainInv, RanAny
  <2>6. EndInv'
    BY <1>3 DEF EndInv
  <2> QED BY <2>2, <2>3, <2>4, <2>5, <2>6 DEF SmokeInv
<1> QED BY <1>1, <1>2, <1>3 DEF Interrupt

\* What a step of a worker has to satisfy.
WorkerKeeps(c, label, name) ==
  /\ Goto(c, label, name)
  /\ label \in Busy \cup {"returned", "raised"}
  /\ name \in Phases
  /\ name \in TERMINAL <=> label = "returned"
  /\ UNCHANGED <<inputs, plan, thread, interrupts>>
  /\ verified' \in SUBSET Cases /\ struck' \in SUBSET Cases
  /\ faults' \in 0..MaxFaults
  /\ domain' \in [Cases -> DomainStates]
  /\ fresh' \in SUBSET Cases /\ unreaped' \in SUBSET Cases
  /\ \A d \in Cases \ {c} : /\ domain'[d] = domain[d]
                            /\ d \in fresh' <=> d \in fresh
                            /\ d \in unreaped' <=> d \in unreaped
  /\ Known(c)'
  /\ c \in fresh' => domain'[c] # "absent"
  /\ label = "returned" => Clean(c)'

LEMMA WorkerInv ==
  ASSUME SmokeInv, NEW c \in Cases, NEW label, NEW name, WorkerKeeps(c, label, name)
  PROVE  SmokeInv'
<1>0. /\ at[c] \in Busy
      /\ at' = [at EXCEPT ![c] = label] /\ phase' = [phase EXCEPT ![c] = name]
      /\ label \in Busy \cup {"returned", "raised"} /\ name \in Phases
      /\ name \in TERMINAL <=> label = "returned"
      /\ UNCHANGED <<inputs, plan, thread, interrupts>>
  BY DEF WorkerKeeps, Goto
<1>a. /\ at'[c] = label /\ phase'[c] = name
      /\ \A d \in Cases \ {c} : at'[d] = at[d] /\ phase'[d] = phase[d]
  BY <1>0 DEF SmokeInv, TypeOK
<1>b. at[c] # "idle" /\ label # "idle" /\ ~Over(c)
  BY <1>0 DEF Busy, Calling, Over
<1>c. /\ \A d \in Cases \ {c} : Clean(d)' = Clean(d) /\ Known(d)' = Known(d)
  BY <1>0 DEF WorkerKeeps, Clean, Known, thread
<1> USE DEF inputs, plan, thread
<1>1. TypeOK'
  BY <1>0 DEF SmokeInv, TypeOK, WorkerKeeps
<1>2. PlanSound'
  BY <1>0, PlanKept DEF SmokeInv
<1>3. ControlInv'
  <2>1. RanAny \/ main = "cut"
    BY <1>b DEF SmokeInv, ControlInv
  <2>2. current \in DOMAIN batches /\ c \in batches[current]
    BY <1>0 DEF SmokeInv, ControlInv
  <2>3. \A i \in DOMAIN batches : batches[i] \subseteq Cases
    BY DEF SmokeInv, TypeOK
  <2>4. \A d \in Cases : at'[d] \in Busy \cup {"raised"} =>
                           current \in DOMAIN batches /\ d \in batches[current]
    BY <1>a, <2>2 DEF SmokeInv, ControlInv
  <2>5. \A d \in Cases : at'[d] = "idle" <=> at[d] = "idle"
    BY <1>a, <1>b
  <2>6. main \in {"submit", "wait"} =>
          /\ \A i \in DOMAIN batches : i > current => \A d \in batches[i] : at'[d] = "idle"
          /\ todo = {d \in batches[current] : at'[d] = "idle"}
    BY <2>2, <2>3, <2>5 DEF SmokeInv, ControlInv
  <2>7. \A d \in Cases : phase'[d] \in TERMINAL <=> at'[d] = "returned"
    BY <1>0, <1>a DEF SmokeInv, ControlInv
  <2> QED BY <1>0, <2>1, <2>4, <2>6, <2>7 DEF SmokeInv, ControlInv, RanAny
<1>4. DomainInv'
  <2>1. \A d \in fresh' : domain'[d] # "absent" /\ at'[d] # "idle"
    BY <1>a, <1>b DEF SmokeInv, DomainInv, WorkerKeeps
  <2>2. \A d \in Cases : at'[d] = "returned" => Clean(d)'
    BY <1>a, <1>c DEF SmokeInv, DomainInv, WorkerKeeps
  <2>3. \A d \in Cases : RanAny \/ at'[d] # "idle" => Known(d)'
    BY <1>a, <1>c DEF SmokeInv, DomainInv, WorkerKeeps
  <2>4. main # "reap"
    BY <1>b DEF SmokeInv, ControlInv, RanAny
  <2> QED BY <1>0, <2>1, <2>2, <2>3, <2>4 DEF DomainInv, RanAny
<1>5. EndInv'
  BY <1>0, <1>b DEF SmokeInv, EndInv
<1> QED BY <1>1, <1>2, <1>3, <1>4, <1>5 DEF SmokeInv

\* A busy worker has published no terminal phase, and its domain is known.
LEMMA BusyFacts ==
  ASSUME SmokeInv, NEW c \in Cases, at[c] \in Busy
  PROVE  /\ phase[c] \in Phases /\ phase[c] \notin TERMINAL
         /\ Known(c)
         /\ c \in fresh => domain[c] # "absent"
         /\ domain \in [Cases -> DomainStates]
         /\ fresh \in SUBSET Cases /\ unreaped \in SUBSET Cases
         /\ verified \in SUBSET Cases /\ struck \in SUBSET Cases
         /\ faults \in 0..MaxFaults
BY DEF SmokeInv, TypeOK, ControlInv, DomainInv, Busy, Calling

LEMMA CallFaults ==
  ASSUME SmokeInv, NEW c \in Cases, Fine \/ Fault \/ CallFails(c)
  PROVE  faults' \in 0..MaxFaults
BY FaultsCounted DEF SmokeInv, CallFails

LEMMA UpInv ==
  ASSUME SmokeInv, NEW c \in Cases, Up(c)
  PROVE  SmokeInv'
<1>0. /\ at[c] \in Busy /\ struck' = struck \ {c}
      /\ UNCHANGED <<inputs, plan, thread, verified, unreaped, interrupts>>
      /\ Fine \/ CallFails(c)
      /\ UpDone(c) \/ UNCHANGED <<domain, fresh>>
      /\ Goto(c, "boot", "booting") \/ Goto(c, "down", "tearing down")
  BY DEF Up, UpFailed, CallEnds, Busy, Calling
<1>1. faults' \in 0..MaxFaults
  BY <1>0, CallFaults
<1>2. /\ domain' \in [Cases -> DomainStates] /\ fresh' \in SUBSET Cases
      /\ Known(c)'
      /\ c \in fresh' => domain'[c] # "absent"
      /\ \A d \in Cases \ {c} : domain'[d] = domain[d] /\ (d \in fresh' <=> d \in fresh)
  <2>1. CASE UpDone(c)
    BY <1>0, <2>1, BusyFacts DEF UpDone, Known, Clean, thread, DomainStates
  <2>2. CASE UNCHANGED <<domain, fresh>>
    BY <1>0, <2>2, BusyFacts DEF Known, Clean, thread
  <2> QED BY <1>0, <2>1, <2>2
<1>3. ASSUME NEW label \in {"boot", "down"}, NEW name \in {"booting", "tearing down"},
             Goto(c, label, name)
      PROVE  WorkerKeeps(c, label, name)
  BY <1>0, <1>1, <1>2, <1>3, BusyFacts
     DEF WorkerKeeps, Busy, Calling, Phases, TERMINAL
<1> QED BY <1>0, <1>3, WorkerInv

LEMMA BootInv ==
  ASSUME SmokeInv, NEW c \in Cases, Boot(c) \/ Verify(c) \/ Raise(c)
  PROVE  SmokeInv'
<1>0. /\ at[c] \in Busy
      /\ UNCHANGED <<inputs, plan, thread, machines, struck, interrupts>>
      /\ verified' \in SUBSET Cases
      /\ Fine \/ Fault
  BY DEF Boot, Verify, Raise, Goto, Fine, SmokeInv, TypeOK
<1>1. faults' \in 0..MaxFaults
  BY <1>0, CallFaults
<1>2. ASSUME NEW label \in {"verify", "down", "raised"}, NEW name \in Phases \ TERMINAL,
             Goto(c, label, name)
      PROVE  WorkerKeeps(c, label, name)
  BY <1>0, <1>1, <1>2, BusyFacts
     DEF WorkerKeeps, Busy, Calling, machines, thread, Known, Clean
<1>3. \E label \in {"verify", "down", "raised"}, name \in Phases \ TERMINAL :
        Goto(c, label, name)
  BY <1>0, BusyFacts DEF Boot, Verify, Raise, Phases, TERMINAL
<1> QED BY <1>2, <1>3, WorkerInv

LEMMA DownInv ==
  ASSUME SmokeInv, NEW c \in Cases, Down(c)
  PROVE  SmokeInv'
<1>0. /\ at[c] \in Busy /\ struck' = struck \ {c}
      /\ UNCHANGED <<inputs, plan, thread, verified, fresh, unreaped, interrupts,
                     faults>>
      /\ Goto(c, "destroy", phase[c])
  BY DEF Down, CallEnds, Goto
<1>1. domain' = domain \/ (domain[c] = "running"
                           /\ domain' = [domain EXCEPT ![c] = "stopping"])
  BY DEF Down
<1>2. /\ domain' \in [Cases -> DomainStates]
      /\ \A d \in Cases \ {c} : domain'[d] = domain[d]
      /\ domain[c] # "absent" => domain'[c] # "absent"
      /\ domain[c] = "absent" => domain'[c] = "absent"
  BY <1>0, <1>1, BusyFacts DEF DomainStates
<1>3. Known(c)'
  BY <1>0, <1>2, BusyFacts DEF Known, Clean, thread
<1>4. WorkerKeeps(c, "destroy", phase[c])
  BY <1>0, <1>2, <1>3, BusyFacts DEF WorkerKeeps, Busy, Calling
<1> QED BY <1>4, WorkerInv

LEMMA DestroyInv ==
  ASSUME SmokeInv, NEW c \in Cases, Destroy(c)
  PROVE  SmokeInv'
<1> DEFINE outcome == IF c \in verified THEN "PASS" ELSE "FAIL"
<1>0. /\ at[c] \in Busy /\ struck' = struck \ {c}
      /\ UNCHANGED <<inputs, plan, thread, verified, interrupts>>
      /\ Goto(c, "returned", outcome)
      /\ Tried(c)
      /\ Fine \/ CallFails(c)
  BY DEF Destroy, CallEnds, Goto, Tried
<1>1. DestroyLeaves(c)
  BY <1>0, DestroyEffect DEF SmokeInv
<1>2. faults' \in 0..MaxFaults
  BY <1>0, CallFaults
<1>3. outcome \in TERMINAL /\ outcome \in Phases
  BY DEF TERMINAL, Phases
<1>4. WorkerKeeps(c, "returned", outcome)
  <2> HIDE DEF outcome
  <2> QED BY <1>0, <1>1, <1>2, <1>3, BusyFacts DEF WorkerKeeps, Known, DestroyLeaves
<1> QED BY <1>4, WorkerInv

LEMMA GuestInv ==
  ASSUME SmokeInv, NEW c \in Cases, Guest(c)
  PROVE  SmokeInv'
<1>0. /\ domain[c] = "stopping" /\ domain' = [domain EXCEPT ![c] = "off"]
      /\ UNCHANGED <<inputs, plan, thread, workers, fresh, unreaped, struck,
                     interrupts, faults>>
  BY DEF Guest
<1>1. domain' \in [Cases -> DomainStates]
      /\ \A d \in Cases : domain'[d] = "absent" <=> domain[d] = "absent"
  BY <1>0 DEF SmokeInv, TypeOK, DomainStates
<1>2. \A d \in Cases : Clean(d)' = Clean(d) /\ Known(d)' = Known(d)
  BY <1>0, <1>1 DEF Clean, Known, thread
<1> USE DEF inputs, plan, thread, workers
<1>3. TypeOK'
  BY <1>0, <1>1 DEF SmokeInv, TypeOK
<1>4. PlanSound'
  BY <1>0, PlanKept DEF SmokeInv
<1>5. ControlInv'
  BY <1>0 DEF SmokeInv, ControlInv, RanAny
<1>6. DomainInv'
  BY <1>0, <1>1, <1>2 DEF SmokeInv, TypeOK, DomainInv, RanAny
<1>7. EndInv'
  BY <1>0, <1>2 DEF SmokeInv, EndInv, Over
<1> QED BY <1>3, <1>4, <1>5, <1>6, <1>7 DEF SmokeInv

LEMMA StepInv ==
  SmokeInv /\ [Next]_vars => SmokeInv'
<1> SUFFICES ASSUME SmokeInv, [Next]_vars PROVE SmokeInv'
  OBVIOUS
<1>1. CASE UNCHANGED vars
  <2> USE DEF vars, inputs, plan, thread, workers, machines
  <2>1. PlanSound'
    BY <1>1, PlanKept DEF SmokeInv
  <2>2. TypeOK' /\ ControlInv' /\ EndInv'
    BY <1>1 DEF SmokeInv, TypeOK, ControlInv, EndInv, RanAny, Over, Clean
  <2>3. DomainInv'
    BY <1>1 DEF SmokeInv, DomainInv, RanAny, Known, Clean
  <2> QED BY <2>1, <2>2, <2>3 DEF SmokeInv
<1>2. CASE MainStep
  BY <1>2, MoveInv, ListInv, ReapedInv, BatchOverInv, PoolExitInv, PlaceInv,
     ForceDestroyInv, SubmitInv DEF MainStep
<1>3. CASE Interrupt
  BY <1>3, InterruptInv
<1>4. CASE \E c \in Cases : Work(c) \/ Guest(c)
  BY <1>4, UpInv, BootInv, DownInv, DestroyInv, GuestInv DEF Work
<1> QED BY <1>1, <1>2, <1>3, <1>4 DEF Next, Stopped

(***************************************************************************)
(* The theorems                                                            *)
(***************************************************************************)

\* Whatever fails and whenever the user interrupts, the plan is sound, one
\* batch runs at a time, and every domain is known to the run.
THEOREM SmokeSafety == Spec => []SmokeInv
BY InitInv, StepInv, PTL DEF Spec

\* No case is booted or verified on the domain of an earlier run, but for the
\* failures that the property names.
THEOREM SmokeBootsFresh == Spec => []BootsFresh
<1>1. SmokeInv => BootsFresh
  BY DEF SmokeInv, DomainInv, BootsFresh, Known, Clean
<1> QED BY <1>1, SmokeSafety, PTL

\* The guests that run together, but for those the property names, belong to
\* the current batch, so they fit the budget or are one.
THEOREM SmokeMemoryFits == Spec => []MemoryFits
<1>1. SmokeInv => MemoryFits
  <2> DEFINE guests == {c \in Cases : domain[c] \in {"running", "stopping"}} \ unreaped
             batch == batches[current]
  <2> SUFFICES ASSUME SmokeInv, size = 0, RanAny, ~overlooked
               PROVE  CostOf(guests) <= budget \/ Cardinality(guests) <= 1
    BY DEF MemoryFits
  <2>1. current \in DOMAIN batches /\ batch \in SUBSET Cases
    BY DEF SmokeInv, ControlInv, TypeOK
  <2>2. guests \in SUBSET batch
    <3> SUFFICES ASSUME NEW c \in guests PROVE c \in batch
      OBVIOUS
    <3>1. c \in fresh /\ at[c] \notin {"idle", "returned"}
      BY DEF SmokeInv, DomainInv, Known, Clean
    <3>2. at[c] \in Busy \cup {"raised"}
      BY <3>1 DEF SmokeInv, TypeOK
    <3> QED BY <3>2 DEF SmokeInv, ControlInv
  <2>3. CASE booked[current] <= budget
    <3>1. CostOf(guests) <= CostOf(batch)
      BY <2>1, <2>2, CostsGrow DEF SmokeInv
    <3>2. booked[current] = CostOf(batch)
      BY <2>1 DEF SmokeInv, PlanSound, Charged
    <3>3. CostOf(guests) \in Nat /\ CostOf(batch) \in Nat /\ budget \in Nat
      BY <2>1, <2>2, CostsAdd DEF SmokeInv, TypeOK
    <3> QED BY <2>3, <3>1, <3>2, <3>3
  <2>4. CASE \E c \in Cases : batch = {c}
    <3>1. IsFiniteSet(batch) /\ Cardinality(batch) = 1
      BY <2>4, FS_Singleton
    <3>2. Cardinality(guests) <= Cardinality(batch)
      BY <3>1, <2>2, FS_Subset
    <3> QED BY <3>1, <3>2
  <2> QED BY <2>1, <2>3, <2>4 DEF SmokeInv, PlanSound, PlanFits
<1> QED BY <1>1, SmokeSafety, PTL

\* With one Ctrl-C at most, no domain is left behind that the run did not try
\* to destroy.
THEOREM SmokeEndsClean ==
  ASSUME MaxInterrupts <= 1
  PROVE  Spec => []EndsClean
<1>1. SmokeInv => EndsClean
  BY DEF SmokeInv, EndInv, EndsClean, Clean
<1> QED BY <1>1, SmokeSafety, PTL
=============================================================================
