------------------------------- MODULE Domain -------------------------------
(***************************************************************************)
(* libvirt/resource_libvirt_domain.go, domain.go and network_def.go: the    *)
(* handlers of libvirt_domain, one libvirt call after the other, and        *)
(* Terraform that starts them.                                              *)
(*                                                                         *)
(* A domain has one network_interface, in a network with DHCP, and of its   *)
(* attributes the model has "running" and the interface's "addresses" (one  *)
(* at most) and "wait_for_lease".                                           *)
(***************************************************************************)
EXTENDS LibvirtDomain

Config == [addr : IP \union {None}, wait : BOOLEAN, run : BOOLEAN]

CONSTANTS Wanted,   \* Wanted[n]: what a configuration of n may ask for
          Mishap    \* Mishap[n]: the calls of n's handlers that may fail for no
                    \* reason, and what may happen to n behind Terraform's back

Call == {"prepare", "host", "define", "start", "lookup", "read",
         "interfaces", "state", "destroy", "devices", "undefine"}

ASSUME DomainAssumption ==
    /\ Wanted \in [Domain -> SUBSET Config]
    /\ Mishap \in [Domain -> SUBSET (Call \union {"stopped", "undefined", "paused"})]

VARIABLES pc,       \* the next call of each domain's handler
          op,       \* the operation that handler performs
          asked,    \* the attributes that Terraform has planned
          attr,     \* the attributes of the ResourceData
          required, \* requiredStatus of the create
          d,        \* ResourceData.Id(): the domain itself, or None
          state,    \* the id in Terraform's state
          saved,    \* the attributes in Terraform's state
          failed    \* whether the last operation ended with an error

handlerVars == <<pc, op, asked, attr, required, d, state, saved, failed>>
vars == <<domainVars, handlerVars>>

\* The attributes of a resource that is not there.
Blank == [addr |-> None, wait |-> FALSE, run |-> TRUE]

Init ==
    /\ DomainInit
    /\ pc = [n \in Domain |-> "idle"]
    /\ op = [n \in Domain |-> "none"]
    /\ asked = [n \in Domain |-> Blank]
    /\ attr = [n \in Domain |-> Blank]
    /\ required = [n \in Domain |-> TRUE]
    /\ d = [n \in Domain |-> None]
    /\ state = [n \in Domain |-> None]
    /\ saved = [n \in Domain |-> Blank]
    /\ failed = [n \in Domain |-> FALSE]

-----------------------------------------------------------------------------
(* What the handlers have in common.                                        *)

MayFail(n, call) == call \in Mishap[n]

Goto(n, next) ==
    /\ pc' = [pc EXCEPT ![n] = next]
    /\ UNCHANGED <<op, asked, attr, required, d, state, saved, failed>>

\* The handler returns, and Terraform saves its id and attributes, after an error too.
ReturnWith(n, id, values, error) ==
    /\ pc' = [pc EXCEPT ![n] = "idle"]
    /\ op' = [op EXCEPT ![n] = "none"]
    /\ asked' = [asked EXCEPT ![n] = Blank]
    /\ attr' = [attr EXCEPT ![n] = Blank]
    /\ required' = [required EXCEPT ![n] = TRUE]
    /\ d' = [d EXCEPT ![n] = id]
    /\ state' = [state EXCEPT ![n] = id]
    /\ saved' = [saved EXCEPT ![n] = IF id = None THEN Blank ELSE values]
    /\ failed' = [failed EXCEPT ![n] = error]

ReturnOk(n, id) == ReturnWith(n, id, attr[n], FALSE)

ReturnError(n) == ReturnWith(n, d[n], attr[n], TRUE) /\ UNCHANGED domainVars

-----------------------------------------------------------------------------
(* updateOrAddHost: modify, and if there is nothing to modify, add.  Between *)
(* the calls other domains edit the table, too.                              *)

\* Bug: an entry is only added.
AddHostOnly(n, ip, add, done) == Goto(n, add) /\ UNCHANGED domainVars

ModifyHost(n, ip, add, done) ==
    \/ CanModifyHost(n) /\ SetHost(n, ip) /\ Goto(n, done)
    \/ ~CanModifyHost(n) /\ Goto(n, add) /\ UNCHANGED domainVars

AddHost(n, ip, done) == CanAddHost(n, ip) /\ SetHost(n, ip) /\ Goto(n, done)

AddHostFails(n, ip) == ~CanAddHost(n, ip) \/ MayFail(n, "host")

-----------------------------------------------------------------------------
(* resourceLibvirtDomainCreate.                                             *)

\* The definition, the look-up of the volumes and of the network, and
\* setNetworkInterfaces: the address is reserved before the domain is defined.
DomainPrepare(n) ==
    /\ pc[n] = "dom.prepare"
    /\ \/ attr[n].addr # None /\ ModifyHost(n, attr[n].addr, "host.add", "dom.define")
       \/ attr[n].addr = None /\ Goto(n, "dom.define") /\ UNCHANGED domainVars
       \/ MayFail(n, "prepare") /\ ReturnError(n)

HostAdd(n) ==
    /\ pc[n] = "host.add"
    /\ \/ AddHost(n, attr[n].addr, "dom.define")
       \/ AddHostFails(n, attr[n].addr) /\ ReturnError(n)

DomainDefine(n) ==
    /\ pc[n] = "dom.define"
    /\ \/ DomainDefineXML(n) /\ Goto(n, "dom.start")
       \/ (~CanDefine(n) \/ MayFail(n, "define")) /\ ReturnError(n)

\* Bug: the id is not set before the wait.
DomainStartNoId(n) ==
    /\ pc[n] = "dom.start"
    /\ \/ DomainCreate(n) /\ Goto(n, "dom.wait")
       \/ (~CanStart(n) \/ MayFail(n, "start")) /\ ReturnError(n)

\* DomainSetAutostart and DomainCreate, then d.SetId.
DomainStart(n) ==
    /\ pc[n] = "dom.start"
    /\ \/ /\ DomainCreate(n)
          /\ pc' = [pc EXCEPT ![n] = "dom.wait"]
          /\ d' = [d EXCEPT ![n] = n]
          /\ UNCHANGED <<op, asked, attr, required, state, saved, failed>>
       \/ (~CanStart(n) \/ MayFail(n, "start")) /\ ReturnError(n)

\* The read begins when the wait is over; what it overwrites is remembered.
BeginRead(n) ==
    /\ pc' = [pc EXCEPT ![n] = "read.lookup"]
    /\ required' = [required EXCEPT ![n] = attr[n].run]
    /\ UNCHANGED <<op, asked, attr, d, state, saved, failed>>

\* domainIfaceHasAddress, of a domain that runs.
HasAddress(n) == IsRunning(n) /\ lease[n] # None

\* Bug: a domain that runs has an address.
WaitForRunning(n) ==
    /\ pc[n] = "dom.wait"
    /\ \/ (attr[n].wait => IsRunning(n)) /\ BeginRead(n) /\ UNCHANGED domainVars
       \/ attr[n].wait /\ ReturnError(n)

\* Bug: a domain without a lease is forgotten.
WaitDropsId(n) ==
    /\ pc[n] = "dom.wait"
    /\ \/ /\ attr[n].wait => HasAddress(n)
          /\ BeginRead(n)
       \/ attr[n].wait /\ ReturnWith(n, None, attr[n], TRUE)
    /\ UNCHANGED domainVars

\* Bug: the wait has no timeout.
WaitForever(n) ==
    /\ pc[n] = "dom.wait"
    /\ attr[n].wait => HasAddress(n)
    /\ BeginRead(n)
    /\ UNCHANGED domainVars

\* domainWaitForLeases polls while the domain is paused, or runs without an
\* address; it gives up in the fatal states and, in any state, at its timeout.
DomainWait(n) ==
    /\ pc[n] = "dom.wait"
    /\ \/ /\ attr[n].wait => HasAddress(n)
          /\ BeginRead(n)
          /\ UNCHANGED domainVars
       \/ attr[n].wait /\ ReturnError(n)

-----------------------------------------------------------------------------
(* resourceLibvirtDomainRead: the refresh, and a part of the create.        *)

\* A domain that is gone loses its id; a create goes on nevertheless.
ReadLookup(n) ==
    /\ pc[n] = "read.lookup"
    /\ UNCHANGED domainVars
    /\ \/ Own(n) /\ Goto(n, "read.state")
       \/ ~Own(n) /\ op[n] = "read" /\ ReturnOk(n, None)
       \/ /\ ~Own(n) /\ op[n] = "create"
          /\ d' = [d EXCEPT ![n] = None]
          /\ pc' = [pc EXCEPT ![n] = "map.begin"]
          /\ UNCHANGED <<op, asked, attr, required, state, saved, failed>>
       \/ MayFail(n, "lookup") /\ ReturnError(n)

\* The description, the autostart flag and the state.
ReadState(n) ==
    /\ pc[n] = "read.state"
    /\ \/ /\ Own(n)
          /\ attr' = [attr EXCEPT ![n].run = IsRunning(n)]
          /\ pc' = [pc EXCEPT ![n] = "read.interfaces"]
          /\ UNCHANGED <<domainVars, op, asked, required, d, state, saved, failed>>
       \/ (~Own(n) \/ MayFail(n, "read")) /\ ReturnError(n)

\* domainGetIfacesInfo: a domain that does not run has no addresses.
Addresses(n) == IF IsRunning(n) THEN lease[n] ELSE None

\* Disks, interfaces and their network: volumes or networks that are gone are errors.
ReadInterfaces(n) ==
    /\ pc[n] = "read.interfaces"
    /\ \/ /\ Own(n) /\ op[n] = "read"
          /\ ReturnWith(n, d[n], [attr[n] EXCEPT !.addr = Addresses(n)], FALSE)
          /\ UNCHANGED domainVars
       \/ /\ Own(n) /\ op[n] = "create"
          /\ attr' = [attr EXCEPT ![n].addr = Addresses(n)]
          /\ pc' = [pc EXCEPT ![n] = "map.begin"]
          /\ UNCHANGED <<domainVars, op, asked, required, d, state, saved, failed>>
       \/ (~Own(n) \/ MayFail(n, "interfaces")) /\ ReturnError(n)

-----------------------------------------------------------------------------
(* The end of the create.                                                   *)

\* partialNetIfaces: an interface that waits, and whose address is not configured
\* but read by now.
Mappable(n) == asked[n].wait /\ asked[n].addr = None /\ attr[n].addr # None

\* The pending mapping.  Its errors are only logged, the look-up of the network's
\* among them.
MapOrFinish(n) ==
    \/ /\ Mappable(n) /\ CanModifyHost(n)
       /\ SetHost(n, attr[n].addr)
       /\ pc' = [pc EXCEPT ![n] = "dom.finish"]
    \/ /\ Mappable(n) /\ ~CanModifyHost(n)
       /\ pc' = [pc EXCEPT ![n] = "map.add"]
       /\ UNCHANGED domainVars
    \/ /\ ~Mappable(n) \/ MayFail(n, "host")
       /\ pc' = [pc EXCEPT ![n] = "dom.finish"]
       /\ UNCHANGED domainVars

\* Bug: the status that was read decides.
MapBeginForgets(n) ==
    /\ pc[n] = "map.begin"
    /\ MapOrFinish(n)
    /\ UNCHANGED <<attr, op, asked, required, d, state, saved, failed>>

\* d.Set("running") first.
MapBegin(n) ==
    /\ pc[n] = "map.begin"
    /\ attr' = [attr EXCEPT ![n].run = required[n]]
    /\ MapOrFinish(n)
    /\ UNCHANGED <<op, asked, required, d, state, saved, failed>>

MapAdd(n) ==
    /\ pc[n] = "map.add"
    /\ \/ AddHost(n, attr[n].addr, "dom.finish")
       \/ /\ AddHostFails(n, attr[n].addr)
          /\ Goto(n, "dom.finish")
          /\ UNCHANGED domainVars

\* destroyDomainByUserRequest.
DomainFinish(n) ==
    /\ pc[n] = "dom.finish"
    /\ \/ /\ attr[n].run \/ (Own(n) /\ ~Active(n))
          /\ ReturnOk(n, d[n])
          /\ UNCHANGED domainVars
       \/ /\ ~attr[n].run
          /\ Active(n)
          /\ Goto(n, "dom.destroy")
          /\ UNCHANGED domainVars
       \/ ~attr[n].run /\ (~Own(n) \/ MayFail(n, "state")) /\ ReturnError(n)

DomainStop(n) ==
    /\ pc[n] = "dom.destroy"
    /\ \/ DomainDestroy(n) /\ ReturnOk(n, d[n])
       \/ (~Active(n) \/ MayFail(n, "destroy")) /\ ReturnError(n)

-----------------------------------------------------------------------------
(* resourceLibvirtDomainUpdate.                                             *)

\* A domain that does not run is started, whatever attribute "running" says.
UpdateLookup(n) ==
    /\ pc[n] = "up.lookup"
    /\ \/ IsRunning(n) /\ Goto(n, "up.devices") /\ UNCHANGED domainVars
       \/ Own(n) /\ ~IsRunning(n) /\ Goto(n, "up.start") /\ UNCHANGED domainVars
       \/ (~Own(n) \/ MayFail(n, "lookup")) /\ ReturnError(n)

UpdateStart(n) ==
    /\ pc[n] = "up.start"
    /\ \/ DomainCreate(n) /\ Goto(n, "up.devices")
       \/ (~CanStart(n) \/ MayFail(n, "start")) /\ ReturnError(n)

\* Bug: only the first address of an interface is entered.
UpdateFirst(n) ==
    /\ pc[n] = "up.devices"
    /\ \/ /\ saved[n].addr = None /\ attr[n].addr # None
          /\ Goto(n, "up.modify")
          /\ UNCHANGED domainVars
       \/ /\ saved[n].addr # None \/ attr[n].addr = None
          /\ ReturnOk(n, d[n])
          /\ UNCHANGED domainVars
       \/ (~Own(n) \/ MayFail(n, "devices")) /\ ReturnError(n)

\* The cloud-init disk and the autostart flag, and the look-up of the network of an
\* interface that changes.
UpdateDevices(n) ==
    /\ pc[n] = "up.devices"
    /\ \/ /\ attr[n].addr # saved[n].addr /\ attr[n].addr # None
          /\ Goto(n, "up.modify")
          /\ UNCHANGED domainVars
       \/ /\ attr[n].addr = saved[n].addr \/ attr[n].addr = None
          /\ ReturnOk(n, d[n])
          /\ UNCHANGED domainVars
       \/ (~Own(n) \/ MayFail(n, "devices")) /\ ReturnError(n)

UpdateModify(n) ==
    /\ pc[n] = "up.modify"
    /\ \/ /\ CanModifyHost(n)
          /\ SetHost(n, attr[n].addr)
          /\ ReturnOk(n, d[n])
       \/ ~CanModifyHost(n) /\ Goto(n, "up.add") /\ UNCHANGED domainVars
       \/ MayFail(n, "host") /\ ReturnError(n)

UpdateAdd(n) ==
    /\ pc[n] = "up.add"
    /\ \/ /\ CanAddHost(n, attr[n].addr)
          /\ SetHost(n, attr[n].addr)
          /\ ReturnOk(n, d[n])
       \/ AddHostFails(n, attr[n].addr) /\ ReturnError(n)

-----------------------------------------------------------------------------
(* resourceLibvirtDomainDelete.  The DHCP host entry stays.                 *)

\* The look-up, the description and the state.
DeleteLookup(n) ==
    /\ pc[n] = "del.lookup"
    /\ \/ Active(n) /\ Goto(n, "del.destroy") /\ UNCHANGED domainVars
       \/ Own(n) /\ ~Active(n) /\ Goto(n, "del.undefine") /\ UNCHANGED domainVars
       \/ (~Own(n) \/ MayFail(n, "lookup")) /\ ReturnError(n)

DeleteDestroy(n) ==
    /\ pc[n] = "del.destroy"
    /\ \/ DomainDestroy(n) /\ Goto(n, "del.undefine")
       \/ (~Active(n) \/ MayFail(n, "destroy")) /\ ReturnError(n)

\* Bug: an undefine that fails is not reported.
UndefineTolerant(n) ==
    /\ pc[n] = "del.undefine"
    /\ \/ DomainUndefine(n) /\ ReturnOk(n, None)
       \/ (~CanUndefine(n) \/ MayFail(n, "undefine")) /\ ReturnOk(n, None) /\ UNCHANGED domainVars

\* With flags and, if libvirt does not know them, without.
DeleteUndefine(n) ==
    /\ pc[n] = "del.undefine"
    /\ \/ DomainUndefine(n) /\ ReturnOk(n, None)
       \/ (~CanUndefine(n) \/ MayFail(n, "undefine")) /\ ReturnError(n)

HandlerStep(n) ==
    \/ DomainPrepare(n)
    \/ HostAdd(n)
    \/ DomainDefine(n)
    \/ DomainStart(n)
    \/ DomainWait(n)
    \/ ReadLookup(n)
    \/ ReadState(n)
    \/ ReadInterfaces(n)
    \/ MapBegin(n)
    \/ MapAdd(n)
    \/ DomainFinish(n)
    \/ DomainStop(n)
    \/ UpdateLookup(n)
    \/ UpdateStart(n)
    \/ UpdateDevices(n)
    \/ UpdateModify(n)
    \/ UpdateAdd(n)
    \/ DeleteLookup(n)
    \/ DeleteDestroy(n)
    \/ DeleteUndefine(n)

-----------------------------------------------------------------------------
(* Terraform: a walk to refresh and a walk to apply do not overlap.         *)

Refreshing == \E n \in Domain : op[n] = "read"
Applying == \E n \in Domain : op[n] \in {"create", "update", "delete"}

Begin(n, kind, next, config, values) ==
    /\ op[n] = "none"
    /\ op' = [op EXCEPT ![n] = kind]
    /\ pc' = [pc EXCEPT ![n] = next]
    /\ asked' = [asked EXCEPT ![n] = config]
    /\ attr' = [attr EXCEPT ![n] = values]
    /\ failed' = [failed EXCEPT ![n] = FALSE]
    /\ UNCHANGED <<domainVars, required, d, state, saved>>

BeginCreate(n) ==
    /\ state[n] = None
    /\ ~Refreshing
    /\ \E config \in Wanted[n] : Begin(n, "create", "dom.prepare", config, config)

BeginRefresh(n) ==
    /\ state[n] # None
    /\ ~Applying
    /\ Begin(n, "read", "read.lookup", saved[n], saved[n])

\* Without "addresses" in the configuration, the computed ones stay.
Planned(n, config) ==
    [config EXCEPT !.addr = IF config.addr = None THEN saved[n].addr ELSE config.addr]

BeginUpdate(n) ==
    /\ state[n] # None
    /\ ~Refreshing
    /\ \E config \in Wanted[n] :
         /\ Planned(n, config) # saved[n]
         /\ Begin(n, "update", "up.lookup", config, Planned(n, config))

BeginDelete(n) ==
    /\ state[n] # None
    /\ ~Refreshing
    /\ Begin(n, "delete", "del.lookup", saved[n], saved[n])

-----------------------------------------------------------------------------
(* Guests, and what happens behind Terraform's back.                        *)

GuestLeases(n) == GetLease(n) /\ UNCHANGED handlerVars

OutsideStop(n) ==
    /\ "stopped" \in Mishap[n]
    /\ DomainDestroy(n)
    /\ UNCHANGED handlerVars

OutsideUndefine(n) ==
    /\ "undefined" \in Mishap[n]
    /\ DomainUndefine(n)
    /\ UNCHANGED handlerVars

OutsideTurn(n) ==
    /\ "paused" \in Mishap[n]
    /\ DomainTurns(n)
    /\ UNCHANGED handlerVars

Next == \E n \in Domain :
    \/ BeginCreate(n)
    \/ BeginRefresh(n)
    \/ BeginUpdate(n)
    \/ BeginDelete(n)
    \/ HandlerStep(n)
    \/ GuestLeases(n)
    \/ OutsideStop(n)
    \/ OutsideUndefine(n)
    \/ OutsideTurn(n)

Spec == Init /\ [][Next]_vars

\* A handler that has begun goes on: each of its calls answers or fails, and the
\* wait for leases ends at its timeout.  Nothing is assumed about guests.
Fairness == \A n \in Domain : WF_vars(HandlerStep(n))

FairSpec == Spec /\ Fairness

-----------------------------------------------------------------------------
(* Safety.                                                                  *)

Label == {"idle", "dom.prepare", "host.add", "dom.define", "dom.start", "dom.wait",
          "read.lookup", "read.state", "read.interfaces", "map.begin", "map.add", "dom.finish", "dom.destroy",
          "up.lookup", "up.start", "up.devices", "up.modify", "up.add",
          "del.lookup", "del.destroy", "del.undefine"}

\* Labels of a create before d.SetId.
Unnamed == {"dom.prepare", "host.add", "dom.define", "dom.start"}

\* Labels at which an address is entered into the host table.
Mapping == {"host.add", "map.add", "up.modify", "up.add"}

\* The type of the state; an id is there from d.SetId on, and where an address is
\* entered into the host table there is one.
TypeOK ==
    /\ DomainTypeOK
    /\ pc \in [Domain -> Label]
    /\ op \in [Domain -> {"none", "create", "read", "update", "delete"}]
    /\ asked \in [Domain -> Config]
    /\ attr \in [Domain -> Config]
    /\ required \in [Domain -> BOOLEAN]
    /\ d \in [Domain -> Domain \union {None}]
    /\ state \in [Domain -> Domain \union {None}]
    /\ saved \in [Domain -> Config]
    /\ failed \in [Domain -> BOOLEAN]
    /\ \A n \in Domain :
         /\ d[n] \in {n, None}
         /\ state[n] \in {n, None}
         /\ pc[n] \in Unnamed => d[n] = None
         /\ pc[n] \notin Unnamed \union {"idle", "map.begin", "dom.finish"} => d[n] = n
         /\ pc[n] \in Mapping => attr[n].addr # None

\* Whatever fails, and whoever stops, pauses or undefines domains, one that
\* Terraform does not know does not run: a create that fails before DomainCreate has
\* returned leaves a domain that is only defined, and a delete that succeeds has
\* stopped it.
NothingRunsUntracked == \A n \in Domain :
    op[n] = "none" /\ Active(n) => state[n] = n

\* A delete that succeeds leaves no domain, be it running, paused or defined.
DeletedIsGone ==
    [][\A n \in Domain :
         op[n] = "delete" /\ op'[n] = "none" /\ ~failed'[n] => ~Own(n)']_vars

\* A create that succeeds leaves the domain running or stopped as "running" asks,
\* and says so, although the domain has to run for the wait and for the read,
\* and the read reports that it runs.
CreateObeysRunning ==
    [][\A n \in Domain :
         /\ Mishap[n] = {}
         /\ op[n] = "create"
         /\ op'[n] = "none"
         /\ ~failed'[n]
         => asked[n].run = (dst'[n] = "running") /\ saved'[n].run = asked[n].run]_vars

\* "wait until the network interface gets a DHCP lease from libvirt, so that the
\* computed IP addresses will be available": when a create that waited comes to its
\* end it has an address, and the network has reserved it, unless another domain has it.
WaitedIsMapped ==
    [][\A n \in Domain :
         /\ Mishap[n] = {}
         /\ pc[n] # "dom.finish"
         /\ pc'[n] = "dom.finish"
         /\ asked[n].wait
         => /\ attr'[n].addr # None
            /\ (dhcp[n] = attr[n].addr \/ Reserved(n, attr[n].addr))']_vars

\* An address that a configuration sets is reserved for the domain when its create,
\* or the update that changes it, has succeeded.
AddressIsReserved ==
    [][\A n \in Domain :
         /\ op[n] = "create" \/ (op[n] = "update" /\ saved[n].addr # asked[n].addr)
         /\ op'[n] = "none"
         /\ ~failed'[n]
         /\ asked[n].addr # None
         => dhcp'[n] = asked[n].addr]_vars

\* A failing DomainCreate leaves the definition, and no id to delete it by.
Abandoned(n) == dst[n] = "shutoff" /\ MayFail(n, "start")

\* What earlier operations leave behind stops the next create in one case only.  The
\* host entry, which no delete and no failure removes, never does, unless it is another
\* domain's; the name is taken by a domain that Terraform did not make, or by the
\* definition of an own create whose DomainCreate failed.  Without mishaps a create fails
\* for no other reason than these and a guest that gets no lease in time.
RecreateSucceeds ==
    [][\A n \in Domain :
         /\ pc[n] = "host.add" => CanAddHost(n, attr[n].addr) \/ Reserved(n, attr[n].addr)
         /\ pc[n] = "dom.define" => CanDefine(n) \/ author[n] = Foreign \/ Abandoned(n)
         /\ Mishap[n] = {} /\ op[n] = "create" /\ op'[n] = "none" /\ failed'[n]
            => \/ pc[n] = "dom.wait"
               \/ author[n] = Foreign
               \/ Reserved(n, asked[n].addr)]_vars

\* Every operation ends: the wait for leases, too.
EveryOperationEnds == \A n \in Domain : (op[n] # "none") ~> (op[n] = "none")

-----------------------------------------------------------------------------
(* What the documentation says, and the code does not keep.                 *)

\* "Use `false` to turn off the instance": after an update that succeeds, an
\* instance that shall be off does not run.
UpdateTurnsOff ==
    [][\A n \in Domain :
         /\ op[n] = "update"
         /\ op'[n] = "none"
         /\ ~failed'[n]
         /\ ~asked[n].run
         => dst'[n] # "running"]_vars
=============================================================================
