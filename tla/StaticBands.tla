----------------------------- MODULE StaticBands -----------------------------
(***************************************************************************)
(* The static addresses of a smoke manifest against the DHCP range of its  *)
(* network: the preflight check, the free bands it advises when addresses  *)
(* clash, and a user who follows one of its two remedies and tries again.  *)
(* An address is a number.                                                 *)
(***************************************************************************)
EXTENDS Integers, Sequences

CONSTANTS
  Machines,   \* the machines of the manifest
  Addresses,  \* addresses a manifest gives them
  Networks,   \* [first, last, gateway] of the networks that declare a subnet
  Ranges,     \* [lo, hi] of the DHCP ranges a network may have
  NoNetwork,  \* gateway and netmask are not declared
  NoAddress   \* a machine with DHCP; also no band under way

ASSUME BandsAssumption ==
  /\ Addresses \subseteq Nat
  /\ Networks \subseteq [first : Nat, last : Nat, gateway : Nat]
  /\ \A n \in Networks : n.first <= n.last
  /\ Ranges \subseteq [lo : Nat, hi : Nat]
  /\ NoNetwork \notin Networks
  /\ NoAddress \notin Nat

VARIABLES
  network,      \* its subnet and gateway, or NoNetwork
  dhcp,         \* its DHCP range
  static,       \* address of each machine, or NoAddress
  pc,           \* "edit", "scan" while bands are computed, or the verdict
  ip, start,    \* the loop's address, and where the band under way begins
  bands         \* bands found so far

loop == <<ip, start, bands>>
vars == <<network, dhcp, static, pc, loop>>

TypeOK ==
  /\ network \in Networks \cup {NoNetwork}
  /\ dhcp \in Ranges
  /\ static \in [Machines -> Nat \cup {NoAddress}]
  /\ pc \in {"edit", "scan", "ok", "clash", "blind"}
  /\ ip \in Nat
  /\ start \in Nat \cup {NoAddress}
  /\ bands \in Seq([first : Nat, last : Nat])

\* libvirt takes only a range inside the subnet.
Fits(r, n) ==
  n # NoNetwork => n.first <= r.lo /\ r.lo <= r.hi /\ r.hi <= n.last

Init ==
  /\ network \in Networks \cup {NoNetwork}
  /\ dhcp \in Ranges /\ Fits(dhcp, network)
  /\ static \in [Machines -> Addresses \cup {NoAddress}]
  /\ pc = "edit"
  /\ ip = 0 /\ start = NoAddress /\ bands = << >>

InDhcp(a) == dhcp.lo <= a /\ a <= dhcp.hi

Clashes == {m \in Machines : static[m] # NoAddress /\ InDhcp(static[m])}

\* check_static_ips_free; with no range to read, or no static address, there is
\* nothing to compute either.
Check ==
  /\ pc # "scan"
  /\ \/ /\ Clashes = {} /\ pc' = "ok"
        /\ UNCHANGED loop
     \/ /\ Clashes # {} /\ network = NoNetwork /\ pc' = "blind"
        /\ UNCHANGED loop
     \/ /\ Clashes # {} /\ network # NoNetwork /\ pc' = "scan"
        /\ ip' = network.first /\ start' = NoAddress /\ bands' = << >>
  /\ UNCHANGED <<network, dhcp, static>>

-----------------------------------------------------------------------------
(* _compute_free_static_bands *)

Reserved == {network.first, network.last, network.gateway}

\* Mutant of Blocked: the range ends before its last address.
Blocked_Exclusive(a) == a \in Reserved \/ (InDhcp(a) /\ a # dhcp.hi)

Blocked(a) == a \in Reserved \/ InDhcp(a)

Band(f, l) == [first |-> f, last |-> l]

\* Mutant of EndBand: the band takes the blocked address in.
EndBand_Inclusive ==
  /\ Blocked(ip) /\ start # NoAddress
  /\ bands' = Append(bands, Band(start, ip)) /\ start' = NoAddress

EndBand ==
  /\ Blocked(ip) /\ start # NoAddress
  /\ bands' = Append(bands, Band(start, ip - 1)) /\ start' = NoAddress

BeginBand ==
  /\ ~Blocked(ip) /\ start = NoAddress
  /\ start' = ip /\ UNCHANGED bands

Pass ==
  /\ Blocked(ip) <=> start = NoAddress
  /\ UNCHANGED <<start, bands>>

Scan ==
  /\ pc = "scan" /\ ip <= network.last
  /\ EndBand \/ BeginBand \/ Pass
  /\ ip' = ip + 1
  /\ UNCHANGED <<network, dhcp, static, pc>>

\* A band still under way ends before the last address.
Report ==
  /\ pc = "scan" /\ ip > network.last
  /\ bands' = IF start = NoAddress THEN bands
              ELSE Append(bands, Band(start, network.last - 1))
  /\ pc' = "clash"
  /\ UNCHANGED <<network, dhcp, static, ip, start>>

-----------------------------------------------------------------------------
(* The user: the two remedies of the message *)

Advised == UNION {bands[i].first .. bands[i].last : i \in DOMAIN bands}

Move(m) ==
  /\ pc = "clash" /\ m \in Clashes
  /\ \E a \in Advised : static' = [static EXCEPT ![m] = a]
  /\ UNCHANGED <<network, dhcp, pc, loop>>

Narrow ==
  /\ pc \in {"clash", "blind"} /\ pc' = "edit"
  /\ dhcp' \in Ranges /\ Fits(dhcp', network)
  /\ dhcp.lo <= dhcp'.lo /\ dhcp'.hi <= dhcp.hi
  /\ UNCHANGED <<network, static, loop>>

Next ==
  \/ Check \/ Scan \/ Report \/ Narrow
  \/ \E m \in Machines : Move(m)

Spec == Init /\ [][Next]_vars

\* smoke is run again and again, and its user moves what clashes.
FairSpec ==
  /\ Spec
  /\ WF_vars(Check) /\ WF_vars(Scan) /\ WF_vars(Report)
  /\ \A m \in Machines : SF_vars(Move(m))

-----------------------------------------------------------------------------
(* Properties *)

\* validate_static_ip, by which createvm accepts an address
Valid(a) ==
  /\ network # NoNetwork => a \in network.first .. network.last
  /\ ~InDhcp(a)

\* The address up to which the bands that are complete may reach
Reached == IF start = NoAddress THEN ip ELSE start

\* Each band is free, and ends before a blocked address.
BandsFree ==
  \A i \in DOMAIN bands :
    /\ network.first < bands[i].first /\ bands[i].first <= bands[i].last
    /\ bands[i].last < Reached
    /\ \A a \in bands[i].first .. bands[i].last : ~Blocked(a)
    /\ Blocked(bands[i].last + 1)

\* They come in order, with a blocked address between them.
BandsApart ==
  \A i, j \in DOMAIN bands : i < j => bands[i].last + 1 < bands[j].first

\* The band under way is free so far, and the address before it is blocked.
BandUnderWay ==
  start # NoAddress =>
    /\ network.first < start /\ start < ip
    /\ \A a \in start .. ip - 1 : ~Blocked(a)

\* No free address was passed over.
NoneMissed ==
  \A a \in network.first .. ip - 1 :
    Blocked(a) \/ a \in Advised \/ (start # NoAddress /\ start <= a)

\* The loop has found just the free addresses it has passed, and it never ends
\* in the middle of a band (_compute_free_static_bands).
BandsInv ==
  /\ TypeOK
  /\ pc \in {"scan", "clash"} =>
       /\ network # NoNetwork
       /\ network.first <= ip /\ ip <= network.last + 1
       /\ BandsFree /\ BandsApart /\ BandUnderWay /\ NoneMissed
  /\ pc = "clash" => start = NoAddress /\ ip = network.last + 1

\* The advice is exact: the bands are the addresses that createvm would accept
\* on this network, but for the gateway and the ends of the subnet, in as few
\* bands as there can be.
AdviceExact ==
  pc = "clash" =>
    /\ Advised = {a \in network.first .. network.last : Valid(a)} \ Reserved
    /\ BandsApart

\* Who follows the advice passes the check in the end, if there is any room.
AdviceWorks == pc = "clash" /\ bands # << >> ~> pc = "ok"
=============================================================================
