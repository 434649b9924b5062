--------------------------- MODULE MCCreatevmPlan ---------------------------
(* Instances of CreatevmPlan for model checking. *)
EXTENDS CreatevmPlan, TLC

\* "br0" is a bridge libvirt knows nothing else of, "routed" a mode createvm
\* does not take.
MCNetworks == {"default", "lab", "br0", "routed"}

Facts(gateway, subnet, ranges) ==
  [gateway |-> gateway, subnet |-> subnet, ranges |-> ranges]
Nothing == Facts(None, None, <<>>)
Plain == Facts(0, 0..2, <<{1}>>)

MCLibvirt ==
  [n \in MCNetworks |->
     CASE n = "default" -> [mode |-> "nat", ip4 |-> Plain, ip6 |-> Plain]
       [] n = "lab" -> [mode |-> "nat", ip4 |-> Facts(0, 0..2, <<{0}, {1}>>), ip6 |-> Nothing]
       [] n = "br0" -> [mode |-> "bridge", ip4 |-> Nothing, ip6 |-> Nothing]
       [] n = "routed" -> [mode |-> "route", ip4 |-> Plain, ip6 |-> Nothing]]

Silent == [s \in Sections |-> None]
Sets(S, value) == [x \in S |-> value]

\* No file; a default network with a bridge's gateway; a resolver for the
\* bridge; an empty entry; the bridge's gateway and resolver blanked and its search
\* domain null, and an image listed without its URL.
MCFiles ==
  {Silent,
   [Silent EXCEPT !["top"] = Sets({"default_network"}, "br0"),
                  !["br0"] = Sets({"gateway"}, "given")],
   [Silent EXCEPT !["br0"] = Sets({"dns", "search"}, "given")],
   [Silent EXCEPT !["br0"] = Null, !["image"] = Sets({"image_url"}, "given")],
   [Silent EXCEPT !["br0"] = [gateway |-> "", dns |-> "", search |-> Null],
                  !["image"] = Sets({}, "")]}

Addr(family, host) == [family |-> family, host |-> host]
Option(net, addr) == [net |-> net, addr |-> addr]

MCOptions ==
  {Option(None, None), Option("br0", None),
   Option(None, Addr("typo", 0)),
   Option(None, Addr("ip4", 1)), Option(None, Addr("ip4", 2)),
   Option(None, Addr("ip6", 2)),
   Option("lab", Addr("ip4", 1)), Option("lab", Addr("ip6", 1)),
   Option("br0", Addr("ip4", 3))}

Interchangeable == Permutations(Vms)
=============================================================================
