-------------------------- MODULE StaticBands_proofs --------------------------
(***************************************************************************)
(* Theorems about StaticBands, for any subnets, DHCP ranges, machines and  *)
(* addresses.                                                              *)
(***************************************************************************)
EXTENDS StaticBands, TLAPS

LEMMA NetworkType ==
  ASSUME NEW n \in Networks
  PROVE  /\ n.first \in Nat /\ n.last \in Nat /\ n.gateway \in Nat
         /\ n.first <= n.last
BY BandsAssumption

LEMMA BandType ==
  ASSUME TypeOK, NEW i \in DOMAIN bands
  PROVE  bands[i].first \in Nat /\ bands[i].last \in Nat
<1> DEFINE R == [first : Nat, last : Nat]
<1>0. bands \in Seq(R)
  BY DEF TypeOK
<1> HIDE DEF R
<1>2. bands[i] \in R
  BY <1>0
<1>1. bands[i] \in [first : Nat, last : Nat]
  BY <1>2 DEF R
<1> QED
  BY <1>1

LEMMA AdvisedIn ==
  ASSUME NEW a
  PROVE  a \in Advised <=> \E i \in DOMAIN bands : a \in bands[i].first .. bands[i].last
BY DEF Advised

\* What the bands are worth depends on the network, its range and the loop.
LEMMA SameLoop ==
  ASSUME UNCHANGED <<network, dhcp, loop>>
  PROVE  /\ BandsFree => BandsFree'
         /\ BandsApart => BandsApart'
         /\ BandUnderWay => BandUnderWay'
         /\ NoneMissed => NoneMissed'
BY DEF loop, BandsFree, BandsApart, BandUnderWay, NoneMissed, Reached, Advised,
       Blocked, Reserved, InDhcp

\* A step of the loop over one address
LEMMA ScanKeeps ==
  ASSUME BandsInv, Scan
  PROVE  BandsInv'
<1>1. /\ network \in Networks /\ network.first \in Nat /\ network.last \in Nat
      /\ ip \in Nat /\ start \in Nat \cup {NoAddress} /\ NoAddress \notin Nat
      /\ bands \in Seq([first : Nat, last : Nat])
      /\ network.first <= ip /\ ip <= network.last
      /\ UNCHANGED <<network, dhcp, static, pc>> /\ ip' = ip + 1 /\ pc = "scan"
  BY NetworkType, BandsAssumption DEF BandsInv, TypeOK, Scan
<1>2. /\ BandsFree /\ BandsApart /\ BandUnderWay /\ NoneMissed
  BY <1>1 DEF BandsInv
<1>3. \A a : Blocked(a)' <=> Blocked(a)
  BY <1>1 DEF Blocked, Reserved, InDhcp
<1>4. CASE EndBand
  <2>1. start \in Nat /\ network.first < start /\ start < ip /\ start' = NoAddress /\ Blocked(ip)
    BY <1>1, <1>2, <1>4 DEF EndBand, BandUnderWay
  <2> DEFINE b == Band(start, ip - 1)
             n == Len(bands)
  <2>2. /\ bands' = Append(bands, b)
        /\ b \in [first : Nat, last : Nat] /\ b.first = start /\ b.last = ip - 1
    BY <1>4, <2>1, <1>1 DEF EndBand, Band
  <2> HIDE DEF b
  <2>3. /\ n \in Nat /\ DOMAIN bands = 1..n /\ DOMAIN bands' = 1..(n + 1)
        /\ \A i \in 1..n : bands'[i] = bands[i]
        /\ bands'[n + 1] = b
        /\ bands' \in Seq([first : Nat, last : Nat])
    BY <1>1, <2>2
  <2>0. \A i \in 1..n : bands[i].first \in Nat /\ bands[i].last \in Nat
    BY <2>3, BandType DEF BandsInv
  <2> HIDE DEF n
  <2>4. BandsFree'
    <3>1. ASSUME NEW i \in 1..n
          PROVE  /\ network.first < bands[i].first /\ bands[i].first <= bands[i].last
                 /\ bands[i].last < ip + 1
                 /\ \A a \in bands[i].first .. bands[i].last : ~Blocked(a)
                 /\ Blocked(bands[i].last + 1)
      <4>1. i \in DOMAIN bands /\ Reached = start
        BY <1>1, <2>1, <2>3 DEF Reached
      <4>2. /\ network.first < bands[i].first /\ bands[i].first <= bands[i].last
            /\ bands[i].last < Reached
            /\ \A a \in bands[i].first .. bands[i].last : ~Blocked(a)
            /\ Blocked(bands[i].last + 1)
        BY <1>2, <4>1 DEF BandsFree
      <4> QED
        BY <1>1, <2>0, <2>1, <4>1, <4>2
    <3>2. /\ network.first < b.first /\ b.first <= b.last /\ b.last < ip + 1
          /\ \A a \in b.first .. b.last : ~Blocked(a)
          /\ Blocked(b.last + 1)
      BY <1>1, <1>2, <2>1, <2>2 DEF BandUnderWay
    <3> QED
      <4> SUFFICES ASSUME NEW i \in 1..(n + 1)
                   PROVE  (/\ network.first < bands[i].first /\ bands[i].first <= bands[i].last
                           /\ bands[i].last < Reached
                           /\ \A a \in bands[i].first .. bands[i].last : ~Blocked(a)
                           /\ Blocked(bands[i].last + 1))'
        BY <2>3 DEF BandsFree
      <4>1. CASE i \in 1..n
        BY <1>1, <2>1, <2>3, <3>1, <4>1 DEF Reached, Blocked, Reserved, InDhcp
      <4>2. CASE i = n + 1
        BY <1>1, <2>1, <2>3, <3>2, <4>2 DEF Reached, Blocked, Reserved, InDhcp
      <4> QED
        BY <2>3, <4>1, <4>2
  <2>5. BandsApart'
    <3>1. \A i \in 1..n : bands[i].last + 1 < start
      <4> SUFFICES ASSUME NEW i \in 1..n PROVE bands[i].last + 1 < start
        OBVIOUS
      <4>1. bands[i].last < start /\ Blocked(bands[i].last + 1) /\ bands[i].last \in Nat
        <5>1. i \in DOMAIN bands /\ Reached = start
          BY <1>1, <2>1, <2>3 DEF Reached
        <5>2. bands[i].last < Reached /\ Blocked(bands[i].last + 1)
          BY <1>2, <5>1 DEF BandsFree
        <5> QED
          BY <2>0, <5>1, <5>2
      <4>2. ~Blocked(start)
        BY <1>1, <1>2, <2>1 DEF BandUnderWay
      <4>3. bands[i].last + 1 # start
        BY <4>1, <4>2
      <4> QED
        BY <4>1, <4>3, <2>1
    <3> QED
      BY <1>2, <2>2, <2>3, <3>1 DEF BandsApart
  <2>6. BandUnderWay'
    BY <2>1 DEF BandUnderWay
  <2>7. NoneMissed'
    <3> SUFFICES ASSUME NEW a \in network.first .. ip, ~Blocked(a)
                 PROVE  \E i \in 1..(n + 1) : a \in bands'[i].first .. bands'[i].last
      <4>1. ip' - 1 = ip
        BY <1>1
      <4>2. \A a : (\E i \in 1..(n + 1) : a \in bands'[i].first .. bands'[i].last)
                   => a \in Advised'
        BY <2>3 DEF Advised
      <4> QED
        BY <1>1, <1>3, <4>1, <4>2 DEF NoneMissed
    <3>1. a # ip /\ a \in network.first .. ip - 1
      BY <1>1, <2>1
    <3>2. CASE start <= a
      BY <1>1, <2>1, <2>2, <2>3, <3>1, <3>2
    <3>3. CASE ~(start <= a)
      <4>1. PICK i \in DOMAIN bands : a \in bands[i].first .. bands[i].last
        BY <1>2, <3>1, <3>3, AdvisedIn DEF NoneMissed
      <4> QED
        BY <4>1, <2>3
    <3> QED
      BY <3>2, <3>3
  <2> QED
    BY <1>1, <2>1, <2>3, <2>4, <2>5, <2>6, <2>7 DEF BandsInv, TypeOK
<1>5. CASE BeginBand
  <2>1. ~Blocked(ip) /\ start = NoAddress /\ start' = ip /\ bands' = bands
    BY <1>5 DEF BeginBand
  <2>0. \A i \in DOMAIN bands : bands[i].first \in Nat /\ bands[i].last \in Nat
    BY BandType DEF BandsInv
  <2>2. network.first < ip
    BY <1>1, <2>1 DEF Blocked, Reserved
  <2>3. BandsFree'
    BY <1>1, <1>2, <2>0, <2>1 DEF BandsFree, Reached, Blocked, Reserved, InDhcp
  <2>4. BandsApart'
    BY <1>2, <2>1 DEF BandsApart
  <2>5. BandUnderWay'
    BY <1>1, <1>3, <2>1, <2>2 DEF BandUnderWay
  <2>6. NoneMissed'
    <3>1. Advised' = Advised /\ ip' - 1 = ip
      BY <1>1, <2>1 DEF Advised
    <3> SUFFICES ASSUME NEW a \in network.first .. ip, ~Blocked(a)
                 PROVE  a \in Advised \/ (start' # NoAddress /\ start' <= a)
      BY <1>1, <1>3, <3>1 DEF NoneMissed
    <3>2. a \in Nat /\ (a = ip \/ a \in network.first .. ip - 1)
      BY <1>1
    <3>3. CASE a = ip
      BY <1>1, <2>1, <3>3
    <3>4. CASE a \in network.first .. ip - 1
      BY <1>2, <2>1, <3>4 DEF NoneMissed
    <3> QED
      BY <3>2, <3>3, <3>4
  <2> QED
    BY <1>1, <2>1, <2>3, <2>4, <2>5, <2>6 DEF BandsInv, TypeOK
<1>6. CASE Pass
  <2>1. (Blocked(ip) <=> start = NoAddress) /\ start' = start /\ bands' = bands
    BY <1>6 DEF Pass
  <2>0. \A i \in DOMAIN bands : bands[i].first \in Nat /\ bands[i].last \in Nat
    BY BandType DEF BandsInv
  <2>3. BandsFree'
    <3> SUFFICES ASSUME NEW i \in DOMAIN bands
                 PROVE  (/\ network.first < bands[i].first /\ bands[i].first <= bands[i].last
                         /\ bands[i].last < Reached
                         /\ \A a \in bands[i].first .. bands[i].last : ~Blocked(a)
                         /\ Blocked(bands[i].last + 1))'
      BY <2>1 DEF BandsFree
    <3>1. /\ network.first < bands[i].first /\ bands[i].first <= bands[i].last
          /\ bands[i].last < Reached
          /\ \A a \in bands[i].first .. bands[i].last : ~Blocked(a)
          /\ Blocked(bands[i].last + 1)
      BY <1>2 DEF BandsFree
    <3>2. bands[i].last < Reached'
      BY <1>1, <2>0, <2>1, <3>1 DEF Reached
    <3>3. (\A a \in bands[i].first .. bands[i].last : ~Blocked(a))'
      BY <1>1, <2>1, <3>1 DEF Blocked, Reserved, InDhcp
    <3>4. Blocked(bands[i].last + 1)'
      BY <1>1, <2>1, <3>1 DEF Blocked, Reserved, InDhcp
    <3> QED
      BY <1>1, <2>1, <3>1, <3>2, <3>3, <3>4
  <2>4. BandsApart'
    BY <1>2, <2>1 DEF BandsApart
  <2>5. BandUnderWay'
    BY <1>1, <1>2, <2>1 DEF BandUnderWay, Blocked, Reserved, InDhcp
  <2>6. NoneMissed'
    <3>1. Advised' = Advised /\ ip' - 1 = ip
      BY <1>1, <2>1 DEF Advised
    <3> SUFFICES ASSUME NEW a \in network.first .. ip, ~Blocked(a)
                 PROVE  a \in Advised \/ (start' # NoAddress /\ start' <= a)
      BY <1>1, <1>3, <3>1 DEF NoneMissed
    <3>2. a \in Nat /\ (a = ip \/ a \in network.first .. ip - 1)
      BY <1>1
    <3>3. CASE a = ip
      BY <1>1, <1>2, <2>1, <3>3 DEF BandUnderWay
    <3>4. CASE a \in network.first .. ip - 1
      BY <1>2, <2>1, <3>4 DEF NoneMissed
    <3> QED
      BY <3>2, <3>3, <3>4
  <2> QED
    BY <1>1, <2>1, <2>3, <2>4, <2>5, <2>6 DEF BandsInv, TypeOK
<1> QED
  BY <1>4, <1>5, <1>6 DEF Scan

\* After the last address, which is reserved, no band is under way.
LEMMA ReportKeeps ==
  ASSUME BandsInv, Report
  PROVE  BandsInv'
<1>1. /\ network \in Networks /\ network.first \in Nat /\ network.last \in Nat
      /\ ip = network.last + 1 /\ network.first <= network.last
      /\ BandUnderWay
  BY NetworkType DEF BandsInv, TypeOK, Report
<1>2. start = NoAddress
  <2> SUFFICES ASSUME start # NoAddress PROVE FALSE
    OBVIOUS
  <2>1. start \in Nat /\ start <= network.last
    BY <1>1 DEF BandsInv, TypeOK, BandUnderWay
  <2>2. ~Blocked(network.last)
    BY <1>1, <2>1 DEF BandUnderWay
  <2> QED
    BY <2>2 DEF Blocked, Reserved
<1>3. UNCHANGED <<network, dhcp, static, loop>> /\ pc' = "clash" /\ pc = "scan"
  BY <1>2 DEF Report, loop
<1> QED
  BY <1>1, <1>2, <1>3, SameLoop DEF BandsInv, TypeOK, loop

LEMMA CheckKeeps ==
  ASSUME BandsInv, Check
  PROVE  BandsInv'
<1>1. CASE UNCHANGED <<network, dhcp, static, loop>> /\ pc' \in {"ok", "blind"}
  BY <1>1 DEF BandsInv, TypeOK, loop
<1>2. CASE /\ network # NoNetwork /\ pc' = "scan" /\ UNCHANGED <<network, dhcp, static>>
           /\ ip' = network.first /\ start' = NoAddress /\ bands' = << >>
  <2>1. network \in Networks /\ network.first \in Nat /\ network.last \in Nat
        /\ network.first <= network.last
    BY <1>2, NetworkType DEF BandsInv, TypeOK
  <2>2. (BandsFree /\ BandsApart /\ BandUnderWay /\ NoneMissed)'
    BY <1>2, <2>1 DEF BandsFree, BandsApart, BandUnderWay, NoneMissed
  <2>3. TypeOK'
    BY <1>2, <2>1 DEF BandsInv, TypeOK
  <2> QED
    BY <1>2, <2>1, <2>2, <2>3 DEF BandsInv
<1> QED
  BY <1>1, <1>2 DEF Check

LEMMA MoveKeeps ==
  ASSUME BandsInv, NEW m \in Machines, Move(m)
  PROVE  BandsInv'
<1>1. PICK a \in Advised : static' = [static EXCEPT ![m] = a]
  BY DEF Move
<1>2. a \in Nat
  <2>1. PICK i \in DOMAIN bands : a \in bands[i].first .. bands[i].last
    BY DEF Advised
  <2>2. bands[i].first \in Nat /\ bands[i].last \in Nat
    BY <2>1, BandType DEF BandsInv
  <2> QED
    BY <2>1, <2>2
<1> QED
  BY <1>1, <1>2, SameLoop DEF BandsInv, TypeOK, Move, loop

\* Between its steps the loop has found just the free addresses it has passed
\* (_compute_free_static_bands).
THEOREM BandsSafety == Spec => []BandsInv
<1>1. Init => BandsInv
  <2> SUFFICES ASSUME Init PROVE BandsInv
    OBVIOUS
  <2>1. << >> \in Seq([first : Nat, last : Nat]) /\ 0 \in Nat
    OBVIOUS
  <2>2. static \in [Machines -> Nat \cup {NoAddress}]
    BY BandsAssumption DEF Init
  <2> QED
    BY <2>1, <2>2 DEF Init, BandsInv, TypeOK
<1>2. BandsInv /\ [Next]_vars => BandsInv'
  <2>1. ASSUME BandsInv, Narrow PROVE BandsInv'
    BY <2>1 DEF BandsInv, TypeOK, Narrow, loop
  <2>2. ASSUME BandsInv, UNCHANGED vars PROVE BandsInv'
    BY <2>2, SameLoop DEF BandsInv, TypeOK, vars, loop
  <2> QED
    BY <2>1, <2>2, ScanKeeps, ReportKeeps, CheckKeeps, MoveKeeps DEF Next
<1> QED
  BY <1>1, <1>2, PTL DEF Spec

\* The bands of the message are the addresses that createvm would accept, but
\* for the gateway and the ends of the subnet (check_static_ips_free,
\* validate_static_ip).
THEOREM BandsExact == Spec => []AdviceExact
<1>1. BandsInv => AdviceExact
  <2> SUFFICES ASSUME BandsInv, pc = "clash"
               PROVE  Advised = {a \in network.first .. network.last : Valid(a)} \ Reserved
    BY DEF AdviceExact, BandsInv
  <2>1. /\ network \in Networks /\ network.first \in Nat /\ network.last \in Nat
        /\ network # NoNetwork /\ start = NoAddress /\ ip = network.last + 1
        /\ BandsFree /\ NoneMissed
    BY NetworkType DEF BandsInv, TypeOK
  <2>2. ASSUME NEW a \in Advised
        PROVE  a \in network.first .. network.last /\ ~Blocked(a)
    <3>1. PICK i \in DOMAIN bands : a \in bands[i].first .. bands[i].last
      BY DEF Advised
    <3>2. bands[i].first \in Nat /\ bands[i].last \in Nat
      BY <3>1, BandType DEF BandsInv
    <3> QED
      BY <2>1, <3>1, <3>2 DEF BandsFree, Reached
  <2>3. ASSUME NEW a \in network.first .. network.last, ~Blocked(a)
        PROVE  a \in Advised
    BY <2>1, <2>3 DEF NoneMissed
  <2>4. \A a \in network.first .. network.last : ~Blocked(a) <=> Valid(a) /\ a \notin Reserved
    BY <2>1 DEF Blocked, Valid
  <2> QED
    BY <2>2, <2>3, <2>4
<1> QED
  BY <1>1, BandsSafety, PTL
=============================================================================
