------------------------ MODULE CreatevmPlan_proofs ------------------------
(***************************************************************************)
(* What CreatevmPlan promises, for any config files, options, networks and *)
(* number of machines.                                                     *)
(***************************************************************************)
EXTENDS CreatevmPlan, TLAPS

-----------------------------------------------------------------------------
(* The operators *)

\* A file decides on the settings it says anything of, and on no other.
LEMMA MergedSetting ==
  ASSUME NEW base, NEW file, NEW rank, NEW s \in Sections, NEW x \in Fields
  PROVE  deep_merge(base, file, rank)[s][x] =
           IF ~Says(file, s, x) THEN base[s][x]
           ELSE IF Gives(file, s, x) THEN rank
           ELSE IF Blanks(file, s, x) THEN Blank ELSE 0
<1>1. deep_merge(base, file, rank)[s][x] =
        IF file[s] = None THEN base[s][x]
        ELSE IF file[s] = Null THEN 0
        ELSE IF x \in DOMAIN file[s] THEN Counts(x, file[s][x], rank)
        ELSE base[s][x]
  BY DEF deep_merge, Overlay, Unset
<1>2. ASSUME file[s] \notin {None, Null}, x \in DOMAIN file[s]
      PROVE  Counts(x, file[s][x], rank) =
               IF Gives(file, s, x) THEN rank
               ELSE IF Blanks(file, s, x) THEN Blank ELSE 0
  BY <1>2 DEF Counts, Gives, Blanks
<1> QED
  BY <1>1, <1>2, PlanAssumption DEF Says, Gives, Blanks

\* Merging a file keeps every setting a number of a file, or an empty string.
LEMMA MergeType ==
  ASSUME NEW base \in [Sections -> [Fields -> 0..Places \cup {Blank}]], NEW file,
         NEW rank \in 1..Places
  PROVE  deep_merge(base, file, rank) \in [Sections -> [Fields -> 0..Places \cup {Blank}]]
<1> DEFINE new == deep_merge(base, file, rank)
<1>1. rank \in 0..Places /\ 0 \in 0..Places
  BY PlanAssumption
<1>2. ASSUME NEW s \in Sections, NEW x \in Fields
      PROVE  new[s][x] \in 0..Places \cup {Blank}
  <2>1. base[s][x] \in 0..Places \cup {Blank}
    OBVIOUS
  <2>2. new[s][x] \in {base[s][x], rank, Blank, 0}
    <3> HIDE DEF new
    <3>1. new[s][x] = IF ~Says(file, s, x) THEN base[s][x]
                      ELSE IF Gives(file, s, x) THEN rank
                      ELSE IF Blanks(file, s, x) THEN Blank ELSE 0
      BY MergedSetting DEF new
    <3> QED
      BY <3>1
  <2> QED
    BY <1>1, <2>1, <2>2
<1>3. \A s \in Sections : new[s] = [x \in Fields |-> new[s][x]]
  <2> SUFFICES ASSUME NEW s \in Sections PROVE new[s] = [x \in Fields |-> new[s][x]]
    OBVIOUS
  <2>1. base[s] = [x \in Fields |-> base[s][x]]
    OBVIOUS
  <2> QED
    BY <2>1 DEF deep_merge, Overlay, Unset
<1>4. new = [s \in Sections |-> new[s]]
  BY DEF deep_merge
<1> HIDE DEF new
<1>5. \A s \in Sections : new[s] \in [Fields -> 0..Places \cup {Blank}]
  BY <1>2, <1>3
<1> QED
  BY <1>4, <1>5 DEF new

LEMMA NoConfigType == NoConfig \in [Sections -> [Fields -> 0..Places \cup {Blank}]]
BY PlanAssumption DEF NoConfig, Unset

LEMMA NoConfigBlanks ==
  (merged = NoConfig => BlanksBacked) /\ (merged' = NoConfig => BlanksBacked')
<1>1. 0 # Blank
  BY PlanAssumption DEF Blank
<1> QED
  BY <1>1 DEF BlanksBacked, NoConfig, Unset

\* A setting is a number; it is the empty string only where a file has one.
LEMMA SettingType ==
  ASSUME merged \in [Sections -> [Fields -> 0..Places \cup {Blank}]],
         BlanksBacked, NEW flag, NEW net \in Networks, NEW field \in Fields
  PROVE  /\ _net_default(flag, net, field) \in Nat
         /\ _net_default(flag, net, field) = Blank =>
              field \in Lists /\ \E file \in Files : Blanks(file, net, field)
         /\ _net_default(flag, net, field) # Own
<1>1. net \in Sections
  BY DEF Sections
<1>2. merged[net][field] \in 0..Places \cup {Blank}
  BY <1>1
<1>3. /\ merged[net][field] \in Nat /\ Flag \in Nat /\ 0 \in Nat
      /\ merged[net][field] # Own /\ Flag # Own /\ 0 # Own
      /\ Flag # Blank /\ 0 # Blank
  BY <1>2, PlanAssumption DEF Flag, Own, Blank
<1>4. merged[net][field] = Blank =>
        field \in Lists /\ \E file \in Files : Blanks(file, net, field)
  BY <1>1, Zenon DEF BlanksBacked, Blanks
<1> QED
  BY <1>3, <1>4, Zenon DEF _net_default

LEMMA ChosenType ==
  ASSUME NEW info, NEW setting \in Nat
  PROVE  /\ Chosen(info, setting) \in Nat
         /\ (setting # 0 \/ info.mode = "nat") => Chosen(info, setting) # 0
         /\ Chosen(info, setting) = Blank => setting = Blank /\ info.mode # "nat"
BY PlanAssumption DEF Chosen, Own, Blank

\* A network that is accepted leaves no leg without a gateway or a resolver.
LEMMA Settled ==
  ASSUME NEW info, NEW family, NEW gateway \in Nat, NEW dns \in Nat,
         resolve_network_settings(info, family, gateway, dns)
  PROVE  /\ Chosen(info, gateway) # 0 /\ Chosen(info, dns) # 0
         /\ Chosen(info, gateway) = Blank => gateway = Blank
         /\ Chosen(info, dns) = Blank => dns = Blank /\ info.mode = "bridge"
<1>1. info.mode = "nat" \/ (gateway # 0 /\ dns # 0)
  BY DEF resolve_network_settings
<1>2. info.mode = "nat" \/ info.mode = "bridge"
  BY DEF resolve_network_settings
<1> QED
  BY <1>1, <1>2, ChosenType

LEMMA ParsedType ==
  ASSUME NEW family, NEW option \in Options, NEW fallback \in Networks,
         parse_option(family, option, fallback).net \in DOMAIN Libvirt
  PROVE  /\ parse_option(family, option, fallback).net \in Networks
         /\ parse_option(family, option, fallback).addr \in Addresses \cup {None}
<1>1. option \in [net : Networks \cup {None}, addr : Addresses \cup {None}]
  BY PlanAssumption
<1> QED
  BY <1>1, PlanAssumption DEF parse_option

\* The static addresses of a plan are sound where the plan is.
LEMMA StaticType ==
  ASSUME plan \in Plans, Sound(plan)
  PROVE  /\ StaticAddresses \in SUBSET [addr : Addresses, on : DOMAIN Libvirt]
         /\ \A s \in StaticAddresses : validate_static_ip(s.addr, Libvirt[s.on])
<1>1. /\ plan.ip \in Addresses \cup {None} /\ plan.net \in DOMAIN Libvirt
      /\ plan.ip6 \in Addresses \cup {None}
      /\ plan.net6 \in DOMAIN Libvirt \cup {None}
  BY DEF Plans
<1>2. ASSUME NEW s \in StaticAddresses
      PROVE  /\ s \in [addr : Addresses, on : DOMAIN Libvirt]
             /\ validate_static_ip(s.addr, Libvirt[s.on])
  <2>1. CASE s = [addr |-> plan.ip, on |-> plan.net]
    BY <1>1, <2>1 DEF StaticAddresses, Sound
  <2>2. CASE s = [addr |-> plan.ip6, on |-> plan.net6]
    BY <1>1, <2>2 DEF StaticAddresses, Sound
  <2> QED
    BY <2>1, <2>2 DEF StaticAddresses
<1> QED
  BY <1>2

-----------------------------------------------------------------------------
(* PlanInv *)

LEMMA InitHolds == Init => PlanInv /\ LayersRank /\ LoginKept
<1> SUFFICES ASSUME Init PROVE PlanInv /\ LayersRank /\ LoginKept
  OBVIOUS
<1>1. TypeOK
  BY NoConfigType, PlanAssumption DEF Init, TypeOK
<1>2. BlanksBacked
  BY NoConfigBlanks DEF Init
<1> QED
  BY <1>1, <1>2 DEF Init, PlanInv, LayersRank, LoginKept

\* A step that ends createvm and leaves the guests alone, or adds a good one.
LEMMA IdleKeeps ==
  ASSUME PlanInv, Idle, guest' \in [Vms -> Guests \cup {None}],
         \A v \in Vms : guest'[v] # None => Placed(guest'[v])
  PROVE  PlanInv'
<1>1. TypeOK'
  BY NoConfigType, PlanAssumption DEF Idle, TypeOK
<1>2. (\A v \in Vms : guest[v] # None => Placed(guest[v]))'
  BY DEF Placed, Pool, validate_static_ip
<1>3. BlanksBacked'
  BY NoConfigBlanks DEF Idle
<1> QED
  BY <1>1, <1>2, <1>3 DEF PlanInv, Idle

LEMMA PlacedKept ==
  ASSUME PlanInv, guest' = guest
  PROVE  (\A v \in Vms : guest[v] # None => Placed(guest[v]))'
BY DEF PlanInv, Placed, Pool, validate_static_ip

LEMMA ReadKeeps ==
  ASSUME PlanInv, ReadLayer
  PROVE  PlanInv'
<1> DEFINE n == Len(read) + 1
<1>1. PICK file \in Files : /\ read' = Append(read, file)
                            /\ merged' = deep_merge(merged, file, n)
  BY DEF ReadLayer
<1>2. /\ TypeOK /\ Backed /\ pc = "read" /\ read \in Seq(Files)
      /\ Len(read) \in Nat /\ Len(read) < Places /\ n \in 1..Places
  BY PlanAssumption DEF ReadLayer, PlanInv, TypeOK
<1>3. /\ read' \in Seq(Files) /\ Len(read') = n
      /\ \A i \in 1..Len(read) : read'[i] = read[i]
      /\ read'[n] = file
  BY <1>1, <1>2
<1>4. merged' \in [Sections -> [Fields -> 0..Places \cup {Blank}]]
  BY <1>1, <1>2, MergeType DEF TypeOK
<1>5. TypeOK'
  BY <1>2, <1>3, <1>4 DEF ReadLayer, TypeOK
<1> HIDE DEF n
<1>6. ASSUME NEW s \in Sections, NEW x \in Fields
      PROVE  merged'[s][x] = IF ~Says(file, s, x) THEN merged[s][x]
                             ELSE IF Gives(file, s, x) THEN n
                             ELSE IF Blanks(file, s, x) THEN Blank ELSE 0
  BY <1>1, MergedSetting
<1>7. Backed'
  <2> SUFFICES ASSUME NEW s \in Sections, NEW x \in Fields,
                      merged'[s][x] \notin {0, Blank}
               PROVE  /\ merged'[s][x] \in 1..Len(read')
                      /\ Gives(read'[merged'[s][x]], s, x)
    BY DEF Backed, Gives
  <2>1. CASE merged'[s][x] = merged[s][x]
    <3>1. merged[s][x] \in 1..Len(read) /\ Gives(read[merged[s][x]], s, x)
      BY <1>2, <2>1 DEF Backed
    <3>2. merged[s][x] \in 1..n /\ read'[merged[s][x]] = read[merged[s][x]]
      BY <1>2, <1>3, <3>1 DEF n
    <3> QED
      BY <1>3, <2>1, <3>1, <3>2
  <2>2. CASE merged'[s][x] = n /\ Gives(file, s, x)
    <3>1. n \in 1..Len(read') /\ read'[n] = file
      BY <1>2, <1>3
    <3> QED
      BY <2>2, <3>1
  <2> QED
    BY <1>6, <2>1, <2>2
<1>8. BlanksBacked'
  <2> SUFFICES ASSUME NEW s \in Sections, NEW x \in Fields, merged'[s][x] = Blank
               PROVE  \E f \in Files : Blanks(f, s, x)
    BY DEF BlanksBacked, Blanks
  <2>1. n # Blank /\ 0 # Blank
    BY <1>2, PlanAssumption DEF Blank
  <2>2. merged[s][x] = Blank => \E f \in Files : Blanks(f, s, x)
    BY DEF PlanInv, BlanksBacked
  <2> QED
    BY <1>6, <2>1, <2>2
<1> QED
  BY <1>2, <1>5, <1>7, <1>8 DEF PlanInv, ReadLayer, Placed, Pool, validate_static_ip

LEMMA LoadKeeps ==
  ASSUME PlanInv, Load
  PROVE  PlanInv'
<1>1. DefaultNetwork \in Networks
  <2> DEFINE i == merged["top"]["default_network"]
  <2>1. CASE i = 0
    BY <2>1, PlanAssumption DEF DefaultNetwork
  <2>2. CASE i # 0
    <3>1. "top" \in Sections /\ "default_network" \in Fields
      BY DEF Sections, Fields
    <3>4. i # Blank
      BY <3>1 DEF PlanInv, BlanksBacked, Blanks, Lists
    <3>2. i \in 1..Len(read) /\ Gives(read[i], "top", "default_network")
      BY <2>2, <3>1, <3>4 DEF PlanInv, Load, Backed
    <3>3. read[i] \in Files
      BY <3>2 DEF PlanInv, TypeOK
    <3> QED
      BY <2>2, <3>2, <3>3, FilesAssumption DEF DefaultNetwork, Gives
  <2> QED
    BY <2>1, <2>2
<1>2. TypeOK'
  BY <1>1 DEF PlanInv, TypeOK, Load
<1>3. BlanksBacked'
  BY DEF PlanInv, BlanksBacked, Blanks, Load
<1> QED
  BY <1>2, <1>3 DEF PlanInv, Load, Placed, Pool, validate_static_ip

LEMMA Resolve4Keeps ==
  ASSUME PlanInv, Resolve4
  PROVE  PlanInv'
<1>1. PICK option \in Options, network \in Networks \cup {None},
           gateway \in {None, "", "given"}, dns \in {None, "", "given"},
           search \in {None, "", "given"} :
        Settle4(option, network, gateway, dns, search)
  BY DEF Resolve4
<1> DEFINE fallback == IF network = None THEN default ELSE network
           asked == parse_option("ip4", option, fallback)
           info == Libvirt[asked.net]
           gw == _net_default(gateway, asked.net, "gateway")
           ns == _net_default(dns, asked.net, "dns")
<1>2. TypeOK /\ fallback \in Networks
  BY DEF PlanInv, TypeOK
<1>7. /\ asked.net \in DOMAIN Libvirt
      /\ resolve_network_settings(info, "ip4", gw, ns)
      /\ asked.addr # None =>
           asked.addr.family \in Families /\ validate_static_ip(asked.addr, info)
      /\ default' = fallback
      /\ plan' = IPv4Plan(asked, Chosen(info, gw), Chosen(info, ns),
                          _net_default(search, asked.net, "search") # 0)
  BY <1>1, Zenon DEF Settle4
<1>3. asked.net \in Networks /\ asked.addr \in Addresses \cup {None}
  BY <1>7, <1>2, ParsedType
<1>4. /\ gw \in Nat /\ ns \in Nat /\ gw # Blank
      /\ ns = Blank => \E file \in Files : Blanks(file, asked.net, "dns")
  <2>1. "gateway" \in Fields /\ "dns" \in Fields /\ "gateway" \notin Lists
    BY DEF Fields, Lists
  <2>2. BlanksBacked /\ merged \in [Sections -> [Fields -> 0..Places \cup {Blank}]]
    BY DEF PlanInv, TypeOK
  <2> QED
    BY <1>3, <2>1, <2>2, SettingType
<1>5. /\ Chosen(info, gw) \in Nat /\ Chosen(info, ns) \in Nat
      /\ Chosen(info, gw) \notin {0, Blank} /\ Chosen(info, ns) # 0
      /\ Chosen(info, ns) = Blank => ns = Blank /\ info.mode = "bridge"
  <2> HIDE DEF asked, info, gw, ns, fallback
  <2> QED
    BY <1>7, <1>4, ChosenType, Settled
<1> HIDE DEF asked, info, gw, ns, fallback
<1>6. /\ plan'.net = asked.net /\ plan'.ip = asked.addr
      /\ plan'.gateway = Chosen(info, gw) /\ plan'.dns = Chosen(info, ns)
      /\ plan'.ip6 = None
  BY <1>7 DEF IPv4Plan
<1>8. plan' \in Plans
  BY <1>3, <1>5, <1>7 DEF Plans, IPv4Plan
<1>9. Sound(plan)'
  <2>1. plan'.ip # None => /\ plan'.ip.family \in Families
                           /\ validate_static_ip(plan'.ip, Libvirt[plan'.net])
    BY <1>6, <1>7 DEF info
  <2> QED
    BY <1>4, <1>5, <1>6, <2>1 DEF Sound, validate_static_ip, info, Blanks
<1>10. TypeOK'
  BY <1>2, <1>7, <1>8, NoConfigType DEF TypeOK, Resolve4
<1>11. pc' = "resolve6" /\ guest' = guest
  BY DEF Resolve4
<1>12. (\A v \in Vms : guest[v] # None => Placed(guest[v]))'
  BY <1>11, PlacedKept
<1>13. BlanksBacked'
  BY NoConfigBlanks DEF Resolve4
<1> QED
  BY <1>8, <1>9, <1>10, <1>11, <1>12, <1>13 DEF PlanInv

LEMMA Resolve6Keeps ==
  ASSUME PlanInv, Resolve6
  PROVE  PlanInv'
<1>1. PICK option \in Options, gateway \in {0, Flag}, dns \in {0, Flag} :
        Settle6(option, gateway, dns)
  BY DEF Resolve6
<1> DEFINE asked == parse_option("ip6", option, default)
           info == Libvirt[asked.net]
<1>2. TypeOK /\ plan \in Plans /\ Sound(plan)
  BY DEF PlanInv, Resolve6
<1>6. /\ asked.net \in DOMAIN Libvirt
      /\ resolve_network_settings(info, "ip6", gateway, dns)
      /\ asked.addr # None =>
           asked.addr.family = "ip6" /\ validate_static_ip(asked.addr, info)
      /\ plan' = IF asked.addr = None THEN plan
                 ELSE WithIPv6(plan, asked, Chosen(info, gateway), Chosen(info, dns))
  BY <1>1, Zenon DEF Settle6
<1>3. asked.net \in Networks /\ asked.addr \in Addresses \cup {None}
  BY <1>2, <1>6, ParsedType DEF TypeOK
<1>4. gateway \in Nat /\ dns \in Nat
  BY PlanAssumption DEF Flag
<1>5. /\ Chosen(info, gateway) \in Nat /\ Chosen(info, dns) \in Nat
      /\ Chosen(info, gateway) \notin {0, Blank} /\ Chosen(info, dns) \notin {0, Blank}
  <2>1. gateway # Blank /\ dns # Blank
    BY PlanAssumption DEF Flag, Blank
  <2> QED
    BY <1>6, <1>4, <2>1, ChosenType, Settled
<1>a. None \notin DOMAIN Libvirt
  BY PlanAssumption
<1> HIDE DEF asked, info
<1>7. plan' \in Plans
  BY <1>2, <1>3, <1>5, <1>6 DEF Plans, WithIPv6
<1>8. Sound(plan)'
  <2>1. CASE asked.addr = None
    BY <1>2, <1>6, <2>1 DEF Sound, validate_static_ip
  <2>2. CASE asked.addr # None
    <3>1. /\ plan'.net6 = asked.net /\ plan'.ip6 = asked.addr
          /\ plan'.gateway6 = Chosen(info, gateway) /\ plan'.dns6 = Chosen(info, dns)
          /\ plan'.gateway = plan.gateway /\ plan'.dns = plan.dns
          /\ plan'.ip = plan.ip /\ plan'.net = plan.net
      BY <1>2, <1>6, <2>2 DEF Plans, WithIPv6
    <3>2. /\ plan'.gateway \notin {0, Blank} /\ plan'.dns # 0
          /\ plan'.dns = Blank => /\ Libvirt[plan'.net].mode = "bridge"
                                 /\ \E file \in Files : Blanks(file, plan'.net, "dns")
          /\ plan'.ip # None => /\ plan'.ip.family \in Families
                                /\ validate_static_ip(plan'.ip, Libvirt[plan'.net])
      BY <1>2, <3>1 DEF Sound, validate_static_ip
    <3>3. /\ plan'.net6 # None /\ plan'.gateway6 \notin {0, Blank}
          /\ plan'.dns6 \notin {0, Blank}
          /\ plan'.ip6.family \in Families
          /\ validate_static_ip(plan'.ip6, Libvirt[plan'.net6])
      BY <1>5, <1>6, <1>a, <2>2, <3>1 DEF info, Families, validate_static_ip
    <3> QED
      BY <3>2, <3>3 DEF Sound, validate_static_ip, Blanks
  <2> QED
    BY <2>1, <2>2
<1>9. TypeOK'
  BY <1>2, <1>7 DEF TypeOK, Resolve6
<1>10. BlanksBacked'
  BY DEF PlanInv, BlanksBacked, Blanks, Resolve6
<1> QED
  BY <1>7, <1>8, <1>9, <1>10 DEF PlanInv, Resolve6, Placed, Pool, validate_static_ip

LEMMA ProvisionKeeps ==
  ASSUME PlanInv, LoginKept, Provision
  PROVE  PlanInv' /\ LoginKept'
<1>1. PICK override \in Overrides, found \in SUBSET Keys, version \in {1, 2} :
        /\ found # {} \/ user_data_supplies_keys(override)
        /\ \E lease \in SUBSET UNION {Leasable(f, plan.net) : f \in Families} :
             guest' = [guest EXCEPT ![vm] = Booted(lease, override, found, version)]
  BY DEF Provision
<1>2. PICK lease \in SUBSET UNION {Leasable(f, plan.net) : f \in Families} :
        guest' = [guest EXCEPT ![vm] = Booted(lease, override, found, version)]
  BY <1>1
<1> DEFINE new == Booted(lease, override, found, version)
<1>3. /\ TypeOK /\ plan \in Plans /\ Sound(plan)
      /\ plan.net \in DOMAIN Libvirt
  BY DEF PlanInv, Provision, Plans
<1>4. ASSUME NEW a \in lease
      PROVE  /\ a \in Addresses /\ a.family \in Families
             /\ a \in Pool(a.family, plan.net)
  <2>1. PICK f \in Families : a \in Pool(f, plan.net)
    BY DEF Leasable
  <2>2. PICK i \in DOMAIN Libvirt[plan.net][f].ranges :
          \E h \in Libvirt[plan.net][f].ranges[i] : a = [family |-> f, host |-> h]
    BY <2>1 DEF Pool
  <2>3. Libvirt[plan.net][f].ranges \in Seq(SUBSET Int)
    BY <1>3, LibvirtAssumption
  <2>5. Libvirt[plan.net][f].ranges[i] \in SUBSET Int
    BY <2>2, <2>3
  <2>4. \E h \in Int : a = [family |-> f, host |-> h]
    BY <2>2, <2>5
  <2> QED
    BY <2>1, <2>4 DEF Addresses
<1>5. new \in Guests
  <2>1. StaticAddresses \in SUBSET [addr : Addresses, on : DOMAIN Libvirt]
    BY <1>3, StaticType
  <2>2. HasResolver(version) \in BOOLEAN
    BY <1>3 DEF HasResolver, Plans
  <2>3. lease \in SUBSET Addresses
    BY <1>4
  <2>4. (override # "no users") \in BOOLEAN /\ (KeysGiven(override, found) # {}) \in BOOLEAN
    OBVIOUS
  <2> QED
    BY <1>3, <2>1, <2>2, <2>3, <2>4 DEF Guests, Booted
<1>6. Placed(new)
  BY <1>3, <1>4, StaticType DEF Placed, Booted
<1>7. new.listed => new.login
  <2>1. override # "no users" => KeysGiven(override, found) # {}
    BY <1>1 DEF KeysGiven, user_data_supplies_keys
  <2> QED
    BY <2>1 DEF Booted
<1> HIDE DEF new
<1>8. /\ guest \in [Vms -> Guests \cup {None}]
      /\ guest' = [guest EXCEPT ![vm] = new]
  BY <1>2, <1>3 DEF new, TypeOK
<1>9. /\ guest' \in [Vms -> Guests \cup {None}]
      /\ \A v \in Vms : guest'[v] = guest[v] \/ guest'[v] = new
  BY <1>5, <1>8
<1>10. \A v \in Vms : guest'[v] # None => Placed(guest'[v])
  BY <1>6, <1>9 DEF PlanInv
<1>11. LoginKept'
  BY <1>7, <1>9 DEF LoginKept
<1> QED
  BY <1>9, <1>10, <1>11, IdleKeeps DEF Provision

LEMMA StepKeeps ==
  ASSUME PlanInv, LoginKept, [Next]_vars
  PROVE  PlanInv' /\ LoginKept'
<1>1. CASE Refuse
  <2>1. guest' \in [Vms -> Guests \cup {None}]
        /\ \A v \in Vms : guest'[v] # None => Placed(guest'[v])
    BY <1>1 DEF Refuse, PlanInv, TypeOK
  <2> QED
    BY <1>1, <2>1, IdleKeeps DEF Refuse, LoginKept
<1>2. CASE ReadLayer
  BY <1>2, ReadKeeps DEF ReadLayer, LoginKept
<1>3. CASE Load
  BY <1>3, LoadKeeps DEF Load, LoginKept
<1>4. CASE Resolve4
  BY <1>4, Resolve4Keeps DEF Resolve4, LoginKept
<1>5. CASE Resolve6
  BY <1>5, Resolve6Keeps DEF Resolve6, LoginKept
<1>6. CASE NoResolve6
  <2>1. TypeOK' /\ pc' = "provision" /\ plan' = plan /\ guest' = guest /\ pc = "resolve6"
    BY <1>6 DEF NoResolve6, PlanInv, TypeOK
  <2>3. BlanksBacked'
    BY <1>6 DEF NoResolve6, PlanInv, BlanksBacked, Blanks
  <2>2. (plan \in Plans)' /\ Sound(plan)'
    BY <2>1 DEF PlanInv, Plans, Sound, validate_static_ip
  <2> QED
    BY <2>1, <2>2, <2>3 DEF PlanInv, Placed, Pool, validate_static_ip, LoginKept
<1>7. CASE Provision
  BY <1>7, ProvisionKeeps
<1>8. ASSUME NEW v \in Vms, Start(v)
      PROVE  PlanInv' /\ LoginKept'
  <2>1. TypeOK'
    BY <1>8 DEF Start, PlanInv, TypeOK
  <2>2. Backed'
    BY <1>8 DEF Start, PlanInv, Backed, NoConfig, Unset
  <2>3. BlanksBacked'
    BY <1>8 DEF Start, PlanInv, BlanksBacked, Blanks
  <2> QED
    BY <1>8, <2>1, <2>2, <2>3
    DEF Start, PlanInv, Placed, Pool, validate_static_ip, LoginKept
<1>9. ASSUME NEW v \in Vms, Delete(v)
      PROVE  PlanInv' /\ LoginKept'
  <2>1. /\ guest' = [guest EXCEPT ![v] = None]
        /\ guest \in [Vms -> Guests \cup {None}]
    BY <1>9 DEF Delete, PlanInv, TypeOK
  <2>2. \A w \in Vms : guest'[w] = guest[w] \/ guest'[w] = None
    BY <2>1
  <2>3. TypeOK'
    BY <1>9, <2>1 DEF Delete, PlanInv, TypeOK
  <2>4. \A w \in Vms : guest'[w] # None => Placed(guest'[w])
    BY <2>2 DEF PlanInv
  <2>5. BlanksBacked'
    BY <1>9 DEF Delete, PlanInv, BlanksBacked, Blanks
  <2> QED
    BY <1>9, <2>2, <2>3, <2>4, <2>5
    DEF Delete, PlanInv, Placed, Pool, validate_static_ip, LoginKept
<1>10. CASE UNCHANGED vars
  <2>1. /\ pc' = pc /\ vm' = vm /\ read' = read /\ merged' = merged
        /\ default' = default /\ plan' = plan /\ guest' = guest
    BY <1>10 DEF vars
  <2>2. TypeOK'
    BY <2>1 DEF PlanInv, TypeOK
  <2>3. (pc = "read" => Backed)'
    BY <2>1 DEF PlanInv, Backed, Gives
  <2>4. (pc \in {"resolve6", "provision"} => plan \in Plans /\ Sound(plan))'
    BY <2>1 DEF PlanInv, Plans, Sound, validate_static_ip
  <2>5. (\A v \in Vms : guest[v] # None => Placed(guest[v]))' /\ LoginKept'
    BY <2>1 DEF PlanInv, Placed, Pool, validate_static_ip, LoginKept
  <2>6. (pc = "idle" => read = <<>> /\ merged = NoConfig)'
    BY <2>1 DEF PlanInv, NoConfig
  <2>7. BlanksBacked'
    BY <2>1 DEF PlanInv, BlanksBacked, Blanks
  <2> QED
    BY <2>2, <2>3, <2>4, <2>5, <2>6, <2>7 DEF PlanInv
<1> QED
  BY <1>1, <1>2, <1>3, <1>4, <1>5, <1>6, <1>7, <1>8, <1>9, <1>10 DEF Next

\* Whatever config files, options and networks there are, every plan has
\* gateways, and resolvers unless on a bridge for which a config file has an empty
\* string there, and every address fits the network it was compared with.
THEOREM PlanCorrect == Spec => []PlanInv
<1>1. PlanInv /\ LoginKept /\ [Next]_vars => (PlanInv /\ LoginKept)'
  BY StepKeeps
<1> QED
  BY InitHolds, <1>1, PTL DEF Spec

\* A guest whose override lists users, or that has none, can be logged in to
\* with a key.
THEOREM LoginIsKept == Spec => []LoginKept
<1>1. PlanInv /\ LoginKept /\ [Next]_vars => (PlanInv /\ LoginKept)'
  BY StepKeeps
<1> QED
  BY InitHolds, <1>1, PTL DEF Spec

-----------------------------------------------------------------------------
(* What follows for the guests, and for the settings *)

LEMMA PlacedApart == PlanInv => NoSharedAddress
<1> SUFFICES ASSUME PlanInv, NEW v \in Vms, NEW w \in Vms,
                    guest[v] # None, guest[w] # None,
                    NEW s \in guest[v].static, NEW a \in guest[w].leased,
                    guest[v].net = guest[w].net, s.on = guest[v].net,
                    OneRange(guest[v].net, a.family), s.addr = a
             PROVE  FALSE
  BY DEF NoSharedAddress
<1> DEFINE ranges == Libvirt[s.on][a.family].ranges
<1>1. /\ guest[v] \in Guests /\ guest[v].net \in DOMAIN Libvirt
      /\ validate_static_ip(a, Libvirt[s.on])
      /\ a.family \in Families /\ a \in Pool(a.family, s.on)
  BY DEF PlanInv, TypeOK, Placed, Guests
<1>2. ranges \in Seq(SUBSET Int) /\ Len(ranges) \in 0..1
  <2>1. ranges \in Seq(SUBSET Int) /\ Len(ranges) \in Nat
    BY <1>1, LibvirtAssumption
  <2>2. Len(ranges) <= 1
    BY <2>1 DEF OneRange
  <2>3. \A k \in Nat : k <= 1 => k \in 0..1
    OBVIOUS
  <2> QED
    BY <2>1, <2>2, <2>3, Zenon
<1>3. PICK i \in DOMAIN ranges : a.host \in ranges[i]
  BY <1>1 DEF Pool
<1>4. i = 1 /\ ranges # <<>>
  BY <1>2, <1>3
<1>5. a.host \notin ranges[1]
  BY <1>1, <1>4 DEF validate_static_ip
<1> QED
  BY <1>3, <1>4, <1>5

\* No guest is leased the address another guest of its network has for its own,
\* on a network with at most one DHCP range and for an address that was
\* compared with that network.
THEOREM AddressesApart == Spec => []NoSharedAddress
BY PlanCorrect, PlacedApart, PTL

LEMMA RankKept ==
  ASSUME PlanInv, LayersRank, ReadLayer
  PROVE  LayersRank'
<1> DEFINE n == Len(read) + 1
<1>1. PICK file \in Files : /\ read' = Append(read, file)
                            /\ merged' = deep_merge(merged, file, n)
  BY DEF ReadLayer
<1>2. pc = "read" /\ read \in Seq(Files) /\ Len(read) \in Nat
  BY DEF ReadLayer, PlanInv, TypeOK
<1>3. /\ Len(read') = n /\ read'[n] = file /\ n \in 1..n
      /\ \A i \in 1..Len(read) : read'[i] = read[i] /\ i \in 1..n
  BY <1>1, <1>2
<1> HIDE DEF n
<1>4. n = Len(read) + 1
  BY DEF n
<1> SUFFICES ASSUME NEW s \in Sections, NEW x \in Fields
             PROVE  /\ (\A i \in 1..Len(read') : ~Says(read'[i], s, x)) => merged'[s][x] = 0
                    /\ \A i \in 1..Len(read') :
                         Says(read'[i], s, x) /\ (\A j \in i + 1..Len(read') : ~Says(read'[j], s, x)) =>
                           merged'[s][x] = IF Gives(read'[i], s, x) THEN i
                                           ELSE IF Blanks(read'[i], s, x) THEN Blank ELSE 0
  BY DEF LayersRank, Ranked, Says, Gives, Blanks
<1>5. merged'[s][x] = IF ~Says(file, s, x) THEN merged[s][x]
                      ELSE IF Gives(file, s, x) THEN n
                      ELSE IF Blanks(file, s, x) THEN Blank ELSE 0
  BY <1>1, MergedSetting
<1>6. \A i \in 1..Len(read) : /\ Says(read'[i], s, x) <=> Says(read[i], s, x)
                              /\ Gives(read'[i], s, x) <=> Gives(read[i], s, x)
                              /\ Blanks(read'[i], s, x) <=> Blanks(read[i], s, x)
  BY <1>3 DEF Says, Gives, Blanks
<1>7. CASE Says(file, s, x)
  <2>1. merged'[s][x] = IF Gives(file, s, x) THEN n
                        ELSE IF Blanks(file, s, x) THEN Blank ELSE 0
    BY <1>5, <1>7
  <2>2. \A i \in 1..Len(read') :
          (\A j \in i + 1..Len(read') : ~Says(read'[j], s, x)) => i = n
    BY <1>2, <1>3, <1>4, <1>7
  <2> QED
    BY <1>3, <1>7, <2>1, <2>2
<1>8. CASE ~Says(file, s, x)
  <2>1. merged'[s][x] = merged[s][x]
    BY <1>5, <1>8
  <2>2. (\A i \in 1..Len(read') : ~Says(read'[i], s, x)) => merged'[s][x] = 0
    BY <1>2, <1>3, <1>6, <2>1 DEF LayersRank, Ranked
  <2>3. ASSUME NEW i \in 1..Len(read'), Says(read'[i], s, x),
               \A j \in i + 1..Len(read') : ~Says(read'[j], s, x)
        PROVE  merged'[s][x] = IF Gives(read'[i], s, x) THEN i
                               ELSE IF Blanks(read'[i], s, x) THEN Blank ELSE 0
    <3>1. i \in 1..Len(read)
      <4>1. i # n
        BY <1>3, <1>8, <2>3
      <4> QED
        BY <1>2, <1>3, <1>4, <4>1
    <3>2. \A j \in i + 1..Len(read) : ~Says(read[j], s, x)
      <4> SUFFICES ASSUME NEW j \in i + 1..Len(read) PROVE ~Says(read[j], s, x)
        OBVIOUS
      <4>1. j \in 1..Len(read) /\ j \in i + 1..Len(read')
        BY <1>2, <1>3, <1>4, <3>1
      <4> QED
        BY <1>6, <2>3, <4>1
    <3>3. merged[s][x] = IF Gives(read[i], s, x) THEN i
                         ELSE IF Blanks(read[i], s, x) THEN Blank ELSE 0
      BY <1>2, <1>6, <2>3, <3>1, <3>2 DEF LayersRank, Ranked
    <3> QED
      BY <1>6, <2>1, <3>1, <3>3
  <2> QED
    BY <2>2, <2>3
<1> QED
  BY <1>7, <1>8

\* A setting is that of the last file with anything to say of it, for any
\* number of files with any content.
THEOREM SettingsRank == Spec => []LayersRank
<1>1. ASSUME PlanInv, LayersRank, [Next]_vars
      PROVE  LayersRank'
  <2>1. CASE ReadLayer
    BY <1>1, <2>1, RankKept
  <2>2. ASSUME NEW v \in Vms, Start(v)
        PROVE  LayersRank'
    <3>1. pc = "idle" /\ read' = read /\ merged' = merged
      BY <2>2 DEF Start
    <3> QED
      BY <1>1, <3>1 DEF PlanInv, LayersRank, Ranked, NoConfig, Unset
  <2>3. CASE UNCHANGED vars
    <3>1. pc' = pc /\ read' = read /\ merged' = merged
      BY <2>3 DEF vars
    <3> QED
      BY <1>1, <3>1 DEF LayersRank
  <2>4. CASE \/ Refuse \/ Load \/ Resolve4 \/ Resolve6 \/ NoResolve6 \/ Provision
             \/ \E v \in Vms : Delete(v)
    <3>1. pc' # "read"
      BY <2>4 DEF Refuse, Load, Resolve4, Resolve6, NoResolve6, Provision, Delete, Idle
    <3> QED
      BY <3>1 DEF LayersRank
  <2> QED
    BY <1>1, <2>1, <2>2, <2>3, <2>4 DEF Next
<1> QED
  BY InitHolds, PlanCorrect, <1>1, PTL DEF Spec
=============================================================================
