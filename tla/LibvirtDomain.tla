--------------------------- MODULE LibvirtDomain ----------------------------
(***************************************************************************)
(* The domains of the libvirt daemon, and the DHCP side of the network they *)
(* are attached to, as the provider uses them.  This is not code of the     *)
(* repository: each operator is one libvirt call, with the precondition and *)
(* the effect the handlers count on, or what a guest does.                  *)
(*                                                                         *)
(* A domain is named after the one resource that has its name, MAC address  *)
(* and host name, so a resource stands for all of them.                     *)
(***************************************************************************)

CONSTANTS Domain,   \* libvirt_domain resources
          IP,       \* addresses of the network
          Foreign,  \* the author of a domain made outside Terraform
          None      \* nothing

ASSUME DomainNoneAssumption ==
    /\ None \notin Domain \union IP
    /\ Foreign \notin Domain
    /\ None # Foreign

VARIABLES dst,      \* dst[n]: the state of domain n
          author,   \* author[n]: who defined it
          dhcp,     \* dhcp[n]: the address of the DHCP host entry with n's MAC or name
          lease     \* lease[n]: the address that n's guest leases

domainVars == <<dst, author, dhcp, lease>>

\* "transient": running or paused, and not defined any more.
DomainState == {"absent", "shutoff", "running", "paused", "transient"}

DomainTypeOK ==
    /\ dst \in [Domain -> DomainState]
    /\ author \in [Domain -> Domain \union {Foreign, None}]
    /\ dhcp \in [Domain -> IP \union {None}]
    /\ lease \in [Domain -> IP \union {None}]

\* A domain may be there already under the name of a resource.
DomainInit ==
    /\ dst \in [Domain -> {"absent", "running"}]
    /\ author = [n \in Domain |-> IF dst[n] = "absent" THEN None ELSE Foreign]
    /\ dhcp = [n \in Domain |-> None]
    /\ lease = [n \in Domain |-> None]

Own(n) == dst[n] # "absent" /\ author[n] = n

Active(n) == Own(n) /\ dst[n] # "shutoff"

\* virDomainGetState; a transient domain is one that runs.
IsRunning(n) == Own(n) /\ dst[n] \in {"running", "transient"}

Leased(ip) == \E n \in Domain : lease[n] = ip

Reserved(n, ip) == \E m \in Domain \ {n} : dhcp[m] = ip

\* The definition has no UUID: the name must be free.
CanDefine(n) == dst[n] = "absent"

DomainDefineXML(n) ==
    /\ CanDefine(n)
    /\ dst' = [dst EXCEPT ![n] = "shutoff"]
    /\ author' = [author EXCEPT ![n] = n]
    /\ UNCHANGED <<dhcp, lease>>

CanStart(n) == Own(n) /\ dst[n] = "shutoff"

DomainCreate(n) ==
    /\ CanStart(n)
    /\ dst' = [dst EXCEPT ![n] = "running"]
    /\ UNCHANGED <<author, dhcp, lease>>

Vanishes(n) ==
    /\ dst' = [dst EXCEPT ![n] = "absent"]
    /\ author' = [author EXCEPT ![n] = None]
    /\ lease' = [lease EXCEPT ![n] = None]
    /\ UNCHANGED dhcp

\* A domain that is not defined any more is gone once it is stopped.
DomainDestroy(n) ==
    /\ Active(n)
    /\ \/ dst[n] = "transient" /\ Vanishes(n)
       \/ /\ dst[n] # "transient"
          /\ dst' = [dst EXCEPT ![n] = "shutoff"]
          /\ lease' = [lease EXCEPT ![n] = None]
          /\ UNCHANGED <<author, dhcp>>

CanUndefine(n) == Own(n) /\ dst[n] # "transient"

DomainUndefine(n) ==
    /\ CanUndefine(n)
    /\ \/ dst[n] = "shutoff" /\ Vanishes(n)
       \/ /\ dst[n] # "shutoff"
          /\ dst' = [dst EXCEPT ![n] = "transient"]
          /\ UNCHANGED <<author, dhcp, lease>>

\* A domain is paused, or goes on.
DomainTurns(n) ==
    /\ Own(n)
    /\ \/ dst[n] = "running" /\ dst' = [dst EXCEPT ![n] = "paused"]
       \/ dst[n] = "paused" /\ dst' = [dst EXCEPT ![n] = "running"]
    /\ UNCHANGED <<author, dhcp, lease>>

\* NetworkUpdate, modify in section IPDhcpHost: the entry with this MAC or name.
CanModifyHost(n) == dhcp[n] # None

\* NetworkUpdate, add-last: neither MAC nor name nor address may have an entry.
CanAddHost(n, ip) == dhcp[n] = None /\ ~Reserved(n, ip)

SetHost(n, ip) ==
    /\ dhcp' = [dhcp EXCEPT ![n] = ip]
    /\ UNCHANGED <<dst, author, lease>>

\* The guest gets the address that is reserved for it, or any that is not reserved.
GetLease(n) ==
    /\ IsRunning(n)
    /\ lease[n] = None
    /\ \E ip \in IP :
         /\ ~Leased(ip)
         /\ IF dhcp[n] # None THEN ip = dhcp[n] ELSE ~Reserved(n, ip)
         /\ lease' = [lease EXCEPT ![n] = ip]
    /\ UNCHANGED <<dst, author, dhcp>>
=============================================================================
