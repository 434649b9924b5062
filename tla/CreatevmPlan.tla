---------------------------- MODULE CreatevmPlan ----------------------------
(***************************************************************************)
(* How createvm decides on a guest's network and keys before it makes      *)
(* anything: it merges up to four config files, reads the libvirt network  *)
(* of each address family, settles addresses, gateways and resolvers,      *)
(* renders the network-config and the keys, and attaches one NIC.  The     *)
(* guests it makes then share their networks with the DHCP servers.        *)
(*                                                                         *)
(* What happens on disk and in libvirt from there on is OneoffVm's.        *)
(***************************************************************************)
EXTENDS Integers, Sequences

CONSTANTS
  Vms,       \* machines that are asked for, one after the other
  Networks,  \* names a user or a config file gives a network
  Default,   \* DEFAULT_NETWORK
  Libvirt,   \* what net-dumpxml says of each network there is
  Places,    \* config files: /etc, home, current directory, --config
  Files,     \* what such a file can say
  Options,   \* what can follow --ip4 and --ip6
  Keys,      \* public keys that can be found or given
  None, Null \* nothing said; a section or a field that is there and empty

Families == {"ip4", "ip6"}

\* What a setting comes from: 0 for nowhere, the rank of a config file, the
\* flag, which outranks them all, or the network itself.  Or it is an empty
\* string that passes for a value.
Flag == Places + 1
Own == Places + 2
Blank == Places + 3

\* A section of a config file, and what it may set: default_network, an image's
\* URL, a network's defaults.
Sections == {"top", "image"} \cup Networks
Fields == {"default_network", "image_url", "gateway", "dns", "search"}

\* Fields that are lists, for which one string may stand
Lists == {"dns", "search"}

\* A bare word that is taken for the name of a network.
NoSuchNetwork == "?"

Addresses == [family : Families \cup {"typo"}, host : Int]

ASSUME PlanAssumption ==
  /\ Places \in Nat
  /\ Default \in Networks
  /\ NoSuchNetwork \notin Networks
  /\ DOMAIN Libvirt \subseteq Networks
  /\ None # Null /\ None \notin Networks
  /\ Options \subseteq [net : Networks \cup {None}, addr : Addresses \cup {None}]

ASSUME LibvirtAssumption ==
  \A n \in DOMAIN Libvirt, f \in Families :
    Libvirt[n][f].ranges \in Seq(SUBSET Int)

ASSUME FilesAssumption ==
  \A file \in Files :
    /\ DOMAIN file = Sections
    /\ file["top"] \notin {None, Null} /\ "default_network" \in DOMAIN file["top"] =>
         file["top"]["default_network"] \in Networks \cup {"", Null}

VARIABLES
  pc,      \* where createvm is
  vm,      \* the machine it is about
  read,    \* the config files read so far
  merged,  \* which of them each setting comes from
  default, \* the network of an address that names none
  plan,    \* what is settled of the _CreateVmContext
  guest    \* each machine's guest, or None

vars == <<pc, vm, read, merged, default, plan, guest>>

Plans ==
  [net : DOMAIN Libvirt, ip : Addresses \cup {None}, gateway : Nat, dns : Nat,
   search : BOOLEAN, net6 : DOMAIN Libvirt \cup {None},
   ip6 : Addresses \cup {None}, gateway6 : Nat, dns6 : Nat]

Guests ==
  [net : DOMAIN Libvirt, static : SUBSET [addr : Addresses, on : DOMAIN Libvirt],
   leased : SUBSET Addresses, resolver : BOOLEAN, listed : BOOLEAN,
   login : BOOLEAN]

TypeOK ==
  /\ pc \in {"idle", "read", "resolve4", "resolve6", "provision"}
  /\ vm \in Vms \cup {None}
  /\ read \in Seq(Files)
  /\ merged \in [Sections -> [Fields -> 0..Places \cup {Blank}]]
  /\ default \in Networks
  /\ plan \in Plans \cup {None}
  /\ guest \in [Vms -> Guests \cup {None}]

Unset == [x \in Fields |-> 0]
NoConfig == [s \in Sections |-> Unset]

Init ==
  /\ pc = "idle"
  /\ vm = None
  /\ read = <<>>
  /\ merged = NoConfig
  /\ default = Default
  /\ plan = None
  /\ guest = [v \in Vms |-> None]

Idle ==
  /\ pc' = "idle"
  /\ vm' = None
  /\ read' = <<>>
  /\ merged' = NoConfig
  /\ default' = Default
  /\ plan' = None

\* Any check or call that fails ends createvm; nothing is made.
Refuse ==
  /\ pc # "idle"
  /\ Idle
  /\ UNCHANGED guest

Start(v) ==
  /\ pc = "idle"
  /\ guest[v] = None
  /\ pc' = "read"
  /\ vm' = v
  /\ UNCHANGED <<read, merged, default, plan, guest>>

-----------------------------------------------------------------------------
(* The layered host configuration *)

\* A field that is null counts for nothing, and so does an empty string: but a
\* list is made of the one for a resolver or search domain, [""], unlooked at.
Counts(x, value, rank) ==
  IF value = "" /\ x \in Lists THEN Blank
  ELSE IF value \in {"", Null} THEN 0 ELSE rank

\* Mutant of Overlay: a mapping replaces the one below as a whole.
Overlay_Shallow(base, over, rank) ==
  [x \in Fields |-> IF x \in DOMAIN over THEN Counts(x, over[x], rank) ELSE 0]

\* Two mappings merge field by field.
Overlay(base, over, rank) ==
  [x \in Fields |-> IF x \in DOMAIN over THEN Counts(x, over[x], rank) ELSE base[x]]

\* A section that is not a mapping replaces what is below it.
deep_merge(base, file, rank) ==
  [s \in Sections |->
     IF file[s] = None THEN base[s]
     ELSE IF file[s] = Null THEN Unset
     ELSE Overlay(base[s], file[s], rank)]

\* A place without a file says nothing.
ReadLayer ==
  /\ pc = "read" /\ Len(read) < Places
  /\ \E file \in Files :
       /\ read' = Append(read, file)
       /\ merged' = deep_merge(merged, file, Len(read) + 1)
  /\ UNCHANGED <<pc, vm, default, plan, guest>>

\* An image the config lists replaces the built-in one of that name as a whole,
\* so it needs a URL of its own.
ImageKnown ==
  (\E i \in 1..Len(read) : read[i]["image"] # None) =>
    merged["image"]["image_url"] # 0

DefaultNetwork ==
  LET i == merged["top"]["default_network"]
  IN  IF i = 0 THEN Default ELSE read[i]["top"]["default_network"]

\* The file's word for it, or the built-in one.
Load ==
  /\ pc = "read" /\ Len(read) = Places
  /\ ImageKnown
  /\ pc' = "resolve4"
  /\ default' = DefaultNetwork
  /\ read' = <<>>
  /\ UNCHANGED <<vm, merged, plan, guest>>

\* The flag if it is there, else what the config has for the network.  A flag
\* may be there and blank, a "," for a list.
_net_default(flag, net, field) ==
  IF flag = None THEN merged[net][field] ELSE IF flag = "" THEN 0 ELSE Flag

-----------------------------------------------------------------------------
(* Networks and addresses *)

\* Mutant of resolve_network_settings: a gateway is enough for a bridge.
resolve_network_settings_Lax(info, family, gateway, dns) ==
  \/ info.mode = "nat" /\ info[family].gateway # None
  \/ info.mode = "bridge" /\ gateway # 0

\* An address, or a network's name, or both.  A sentinel is no address; a bare
\* word that does not look like an address of the family is a network.
parse_option(family, option, fallback) ==
  IF option.net # None THEN option
  ELSE IF option.addr # None /\ option.addr.family \notin {family, "typo"}
  THEN [net |-> NoSuchNetwork, addr |-> None]
  ELSE [net |-> fallback, addr |-> option.addr]

\* Mutant of validate_static_ip: only the subnet is looked at.
validate_static_ip_Anywhere(addr, info) ==
  LET facts == info[addr.family]
  IN  facts.subnet # None => addr.host \in facts.subnet

\* The family of the address selects what it is compared with: the subnet if
\* that is known, and the first DHCP range.
validate_static_ip(addr, info) ==
  LET facts == info[addr.family]
  IN  /\ facts.subnet # None => addr.host \in facts.subnet
      /\ facts.ranges # <<>> => addr.host \notin facts.ranges[1]

\* A NAT network is its own gateway and resolver; a bridge is told both, and is
\* refused without them, with DHCP too; other networks are refused.  What the
\* bridge is told is not looked at: [""] is a resolver.
resolve_network_settings(info, family, gateway, dns) ==
  \/ info.mode = "nat" /\ info[family].gateway # None
  \/ info.mode = "bridge" /\ gateway # 0 /\ dns # 0

Chosen(info, setting) == IF info.mode = "nat" THEN Own ELSE setting

IPv4Plan(asked, gateway, dns, search) ==
  [net |-> asked.net, ip |-> asked.addr, gateway |-> gateway, dns |-> dns,
   search |-> search, net6 |-> None, ip6 |-> None, gateway6 |-> 0, dns6 |-> 0]

WithIPv6(p, asked, gateway, dns) ==
  [p EXCEPT !.net6 = asked.net, !.ip6 = asked.addr, !.gateway6 = gateway, !.dns6 = dns]

\* The IPv4 leg, on the network the NIC will be attached to.  What the address
\* is has to be an address, of either family.
Settle4(option, network, gateway, dns, search) ==
  LET fallback == IF network = None THEN default ELSE network
      asked == parse_option("ip4", option, fallback)
      info == Libvirt[asked.net]
      gw == _net_default(gateway, asked.net, "gateway")
      ns == _net_default(dns, asked.net, "dns")
  IN  /\ asked.net \in DOMAIN Libvirt
      /\ resolve_network_settings(info, "ip4", gw, ns)
      /\ asked.addr # None =>
           asked.addr.family \in Families /\ validate_static_ip(asked.addr, info)
      /\ default' = fallback
      /\ plan' = IPv4Plan(asked, Chosen(info, gw), Chosen(info, ns),
                          _net_default(search, asked.net, "search") # 0)

Resolve4 ==
  /\ pc = "resolve4"
  /\ \E option \in Options, network \in Networks \cup {None},
        gateway, dns \in {None, "", "given"}, search \in {None, "", "given"} :
       Settle4(option, network, gateway, dns, search)
  /\ pc' = "resolve6"
  /\ merged' = NoConfig
  /\ UNCHANGED <<vm, read, guest>>

\* The IPv6 leg.  A bare address is on the network of --network or the config,
\* whichever network --ip4 has named; there are no defaults for it in a config.
Settle6(option, gateway, dns) ==
  LET asked == parse_option("ip6", option, default)
      info == Libvirt[asked.net]
  IN  /\ asked.net \in DOMAIN Libvirt
      /\ resolve_network_settings(info, "ip6", gateway, dns)
      /\ asked.addr # None =>
           asked.addr.family = "ip6" /\ validate_static_ip(asked.addr, info)
      /\ plan' = IF asked.addr = None THEN plan
                 ELSE WithIPv6(plan, asked, Chosen(info, gateway), Chosen(info, dns))

Resolve6 ==
  /\ pc = "resolve6"
  /\ \E option \in Options, gateway, dns \in {0, Flag} : Settle6(option, gateway, dns)
  /\ pc' = "provision"
  /\ UNCHANGED <<vm, read, merged, default, guest>>

\* Without --ip6 nothing is asked of the network.
NoResolve6 ==
  /\ pc = "resolve6"
  /\ pc' = "provision"
  /\ UNCHANGED <<vm, read, merged, default, plan, guest>>

-----------------------------------------------------------------------------
(* What the guest is given *)

\* Static addresses, each with the network it was compared with.
StaticAddresses ==
  {s \in {[addr |-> plan.ip, on |-> plan.net],
          [addr |-> plan.ip6, on |-> plan.net6]} : s.addr # None}

\* network-config.v1.j2 has nameservers only with search domains and knows
\* DHCP only without a static address; network-config.v2.j2 leaves DHCP to
\* IPv4 unless that is static.  The resolvers are those of the static legs.
HasResolver(version) ==
  /\ version = 1 => plan.search
  /\ (plan.ip # None /\ plan.dns # Blank) \/ (plan.ip6 # None /\ plan.dns6 # Blank)

AsksDhcp(family, version) ==
  \/ StaticAddresses = {} /\ (version = 1 => family = "ip4")
  \/ version = 2 /\ family = "ip4" /\ plan.ip = None

\* What the config's user_data is: there is none, it lists no users, users
\* without keys of their own, or users with such keys.
Overrides == {"none", "no users", "users", "users with keys"}

\* Mutant of user_data_supplies_keys: users are enough.
user_data_supplies_keys_Users(override) == override \in {"users", "users with keys"}

user_data_supplies_keys(override) == override = "users with keys"

\* Keys are appended to those of each user; an override without users gets none.
KeysGiven(override, found) ==
  IF override = "no users" THEN {}
  ELSE IF override = "users with keys" THEN found \cup {"its own"} ELSE found

\* What the network's DHCP server leases: addresses of any of its ranges that no
\* guest holds a lease on.
Pool(family, net) ==
  {[family |-> family, host |-> h] :
     h \in UNION {Libvirt[net][family].ranges[i] :
                    i \in DOMAIN Libvirt[net][family].ranges}}

Leasable(family, net) ==
  Pool(family, net) \ UNION {guest[v].leased :
             v \in {w \in Vms : guest[w] # None /\ guest[w].net = net}}

Booted(lease, override, found, version) ==
  [net |-> plan.net, static |-> StaticAddresses, leased |-> lease,
   resolver |-> HasResolver(version), listed |-> override # "no users",
   login |-> KeysGiven(override, found) # {}]

\* The keys are seen to, the documents are rendered and the guest boots with one
\* NIC, on the network of the IPv4 leg.  A lease may not be had.
Provision ==
  /\ pc = "provision"
  /\ \E override \in Overrides, found \in SUBSET Keys, version \in {1, 2} :
       /\ found # {} \/ user_data_supplies_keys(override)
       /\ \E lease \in SUBSET UNION {Leasable(f, plan.net) : f \in Families} :
            /\ \A a, b \in lease : a.family = b.family => a = b
            /\ \A a \in lease : AsksDhcp(a.family, version)
            /\ guest' = [guest EXCEPT ![vm] = Booted(lease, override, found, version)]
  /\ Idle

\* deletevm
Delete(v) ==
  /\ pc = "idle"
  /\ guest[v] # None
  /\ guest' = [guest EXCEPT ![v] = None]
  /\ UNCHANGED <<pc, vm, read, merged, default, plan>>

Next ==
  \/ Refuse \/ ReadLayer \/ Load \/ Resolve4 \/ Resolve6 \/ NoResolve6 \/ Provision
  \/ \E v \in Vms : Start(v) \/ Delete(v)

Spec == Init /\ [][Next]_vars

-----------------------------------------------------------------------------
(* Properties *)

\* A file says something of a field: it has the section empty, or the field.
Says(file, s, x) ==
  file[s] # None /\ (file[s] = Null \/ x \in DOMAIN file[s])

Gives(file, s, x) ==
  file[s] \notin {None, Null} /\ x \in DOMAIN file[s] /\ file[s][x] \notin {"", Null}

Blanks(file, s, x) ==
  x \in Lists /\ file[s] \notin {None, Null} /\ x \in DOMAIN file[s] /\ file[s][x] = ""

\* In the sections m, a setting is that of the last of the files that says
\* anything of it: nobody's if that one has nothing there, unless what it has is
\* the empty string that counts for a resolver or search domain.
Ranked(files, m) ==
  \A s \in Sections, x \in Fields :
    /\ (\A i \in 1..Len(files) : ~Says(files[i], s, x)) => m[s][x] = 0
    /\ \A i \in 1..Len(files) :
         Says(files[i], s, x) /\ (\A j \in i + 1..Len(files) : ~Says(files[j], s, x)) =>
           m[s][x] = IF Gives(files[i], s, x) THEN i
                     ELSE IF Blanks(files[i], s, x) THEN Blank ELSE 0

\* Each setting is the one of the last file that says anything of it, also where
\* that file takes it back, however often files below and above touched other
\* fields of the section (deep_merge, load_host_config, parse_networks).
LayersRank == pc = "read" => Ranked(read, merged)

\* What a setting is said to come from does give it.
Backed ==
  \A s \in Sections, x \in Fields :
    merged[s][x] \notin {0, Blank} =>
      merged[s][x] \in 1..Len(read) /\ Gives(read[merged[s][x]], s, x)

\* Only a resolver or search domain is an empty string, and a file has it so.
BlanksBacked ==
  \A s \in Sections, x \in Fields :
    merged[s][x] = Blank => \E file \in Files : Blanks(file, s, x)

\* Each leg has a gateway and a resolver, and its address fits the network it
\* was compared with.  A resolver may be an empty string only on a bridge, and if
\* a config file has that for it.
Sound(p) ==
  /\ p.gateway \notin {0, Blank} /\ p.dns # 0
  /\ p.dns = Blank =>
       Libvirt[p.net].mode = "bridge" /\ \E file \in Files : Blanks(file, p.net, "dns")
  /\ p.ip # None =>
       p.ip.family \in Families /\ validate_static_ip(p.ip, Libvirt[p.net])
  /\ p.ip6 # None =>
       /\ p.net6 # None /\ p.gateway6 \notin {0, Blank} /\ p.dns6 \notin {0, Blank}
       /\ p.ip6.family \in Families /\ validate_static_ip(p.ip6, Libvirt[p.net6])

\* A guest's addresses are what was settled for it, or were leased to it.
Placed(g) ==
  /\ \A s \in g.static : validate_static_ip(s.addr, Libvirt[s.on])
  /\ \A a \in g.leased : a.family \in Families /\ a \in Pool(a.family, g.net)

\* Whatever the options and the networks are: nothing is made on a bridge without
\* a gateway, or with an address out of place, nor without a resolver unless a
\* config file has an empty string for it, which the checks let through; and no
\* guest has an address other than the ones settled or leased.
PlanInv ==
  /\ TypeOK
  /\ pc = "idle" => read = <<>> /\ merged = NoConfig
  /\ pc = "read" => Backed
  /\ BlanksBacked
  /\ pc \in {"resolve6", "provision"} => plan \in Plans /\ Sound(plan)
  /\ \A v \in Vms : guest[v] # None => Placed(guest[v])

OneRange(net, family) == Len(Libvirt[net][family].ranges) <= 1

\* The DHCP server never leases an address that another guest of the network
\* has for its own: as long as the network has one range, and the address was
\* compared with the network the NIC is on (validate_static_ip).
NoSharedAddress ==
  \A v, w \in Vms : guest[v] # None /\ guest[w] # None =>
    \A s \in guest[v].static, a \in guest[w].leased :
      /\ guest[v].net = guest[w].net
      /\ s.on = guest[v].net
      /\ OneRange(guest[v].net, a.family)
      => s.addr # a

\* A guest can be logged in to with a key, unless its override lists no users:
\* then the keys that were found count for the check and go nowhere.
LoginKept ==
  \A v \in Vms : guest[v] # None /\ guest[v].listed => guest[v].login

\* With a static address on a NAT network goes a resolver, its gateway, into the
\* guest's network-config, as docs/one-off-vms.md has it.
StaticResolves ==
  \A v \in Vms :
    guest[v] # None /\ guest[v].static # {} /\ Libvirt[guest[v].net].mode = "nat" =>
      guest[v].resolver
=============================================================================
