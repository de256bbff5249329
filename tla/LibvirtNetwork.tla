--------------------------- MODULE LibvirtNetwork ---------------------------
(***************************************************************************)
(* The virtual networks of the libvirt daemon, as the provider uses them.   *)
(* This is not code of the repository: each operator is one libvirt call,   *)
(* with the precondition and the effect the handlers count on.              *)
(*                                                                         *)
(* A network is named after the one resource that has its name, so a        *)
(* resource stands for its network, too.  The UUID is not modelled: a       *)
(* network is found by the resource's id when the resource defined it       *)
(* (Own), and a network of the same name that somebody else made is not.    *)
(***************************************************************************)

CONSTANTS Network,      \* libvirt_network resources
          Bridge,       \* bridge interfaces
          IP, Host,     \* addresses and host names of DNS entries
          Foreign,      \* the author of a network made outside Terraform
          None          \* nothing

ASSUME NetworkNoneAssumption ==
    /\ None \notin Network
    /\ Foreign \notin Network
    /\ None # Foreign
    /\ None \notin Bridge

VARIABLES nst,      \* nst[n]: the state of network n
          author,   \* author[n]: who defined it
          bridge,   \* bridge[n]: its bridge, None for one that is not defined
          hosts     \* hosts[n][ip]: the host names of the DNS entry for ip

networkVars == <<nst, author, bridge, hosts>>

\* "transient": active, and not defined any more.
NetworkState == {"absent", "inactive", "active", "transient"}

\* DNS hosts by address; an address without host names has no entry.
Table == [IP -> SUBSET Host]

NoHosts == [ip \in IP |-> {}]

NetworkTypeOK ==
    /\ nst \in [Network -> NetworkState]
    /\ author \in [Network -> Network \union {Foreign, None}]
    /\ bridge \in [Network -> Bridge \union {None}]
    /\ hosts \in [Network -> Table]

\* A network may be there already under the name of a resource.
NetworkInit ==
    /\ nst \in [Network -> {"absent", "active"}]
    /\ author = [n \in Network |-> IF nst[n] = "absent" THEN None ELSE Foreign]
    /\ bridge \in [Network -> Bridge \union {None}]
    /\ \A n, m \in Network :
         /\ bridge[n] = None <=> nst[n] = "absent"
         /\ bridge[n] = bridge[m] => n = m \/ bridge[n] = None
    /\ hosts = [n \in Network |-> NoHosts]

Own(n) == nst[n] # "absent" /\ author[n] = n

Active(n) == Own(n) /\ nst[n] \in {"active", "transient"}

\* The bridges that libvirt takes for unused when it begins to define a network.
FreeBridges == Bridge \ {bridge[n] : n \in Network}

\* The end of a definition: with the bridge that was chosen at its beginning.
NetworkDefineXML(n, br, table) ==
    /\ nst[n] = "absent"
    /\ nst' = [nst EXCEPT ![n] = "inactive"]
    /\ author' = [author EXCEPT ![n] = n]
    /\ bridge' = [bridge EXCEPT ![n] = br]
    /\ hosts' = [hosts EXCEPT ![n] = table]

\* A bridge serves one network.
CanCreate(n) ==
    /\ Own(n)
    /\ nst[n] = "inactive"
    /\ \A m \in Network \ {n} : nst[m] \in {"active", "transient"} => bridge[m] # bridge[n]

NetworkCreate(n) ==
    /\ CanCreate(n)
    /\ nst' = [nst EXCEPT ![n] = "active"]
    /\ UNCHANGED <<author, bridge, hosts>>

Vanishes(n) ==
    /\ nst' = [nst EXCEPT ![n] = "absent"]
    /\ author' = [author EXCEPT ![n] = None]
    /\ bridge' = [bridge EXCEPT ![n] = None]
    /\ hosts' = [hosts EXCEPT ![n] = NoHosts]

\* A network that is not defined any more is gone once it is stopped.
NetworkDestroy(n) ==
    /\ Active(n)
    /\ \/ /\ nst[n] = "active"
          /\ nst' = [nst EXCEPT ![n] = "inactive"]
          /\ UNCHANGED <<author, bridge, hosts>>
       \/ nst[n] = "transient" /\ Vanishes(n)

CanUndefine(n) == Own(n) /\ nst[n] # "transient"

NetworkUndefine(n) ==
    /\ CanUndefine(n)
    /\ \/ nst[n] = "inactive" /\ Vanishes(n)
       \/ /\ nst[n] = "active"
          /\ nst' = [nst EXCEPT ![n] = "transient"]
          /\ UNCHANGED <<author, bridge, hosts>>

\* NetworkUpdate, delete in section DNSHost: the entry with this address, in the
\* running network and in its definition.
CanDeleteHost(n, ip) == Active(n) /\ nst[n] = "active" /\ hosts[n][ip] # {}

DeleteHost(n, ip) ==
    /\ CanDeleteHost(n, ip)
    /\ hosts' = [hosts EXCEPT ![n][ip] = {}]
    /\ UNCHANGED <<nst, author, bridge>>

\* NetworkUpdate, add in section DNSHost: neither the address nor one of the names
\* may have an entry.
CanAddHost(n, ip, names) ==
    /\ Active(n)
    /\ nst[n] = "active"
    /\ hosts[n][ip] = {}
    /\ \A other \in IP : names \intersect hosts[n][other] = {}

AddHost(n, ip, names) ==
    /\ CanAddHost(n, ip, names)
    /\ hosts' = [hosts EXCEPT ![n][ip] = names]
    /\ UNCHANGED <<nst, author, bridge>>
=============================================================================
