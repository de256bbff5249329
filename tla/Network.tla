------------------------------- MODULE Network -------------------------------
(***************************************************************************)
(* libvirt/resource_libvirt_network.go, network.go and network_dns.go: the  *)
(* handlers of libvirt_network, one libvirt call after the other, and       *)
(* Terraform that starts them.                                              *)
(*                                                                         *)
(* Of the attributes the model has the DNS hosts, the ones an update works  *)
(* on entry by entry.  The networks are those whose bridge libvirt chooses  *)
(* and that have no attribute "domain".                                     *)
(***************************************************************************)
EXTENDS LibvirtNetwork

CONSTANTS Wanted,   \* Wanted[n]: the DNS hosts a configuration of n may ask for
          Mishap    \* Mishap[n]: the calls of n's handlers that may fail for no
                    \* reason, and what may happen to n behind Terraform's back

Call == {"prepare", "define", "create", "destroy", "undefine", "wait", "autostart",
         "lookup", "active", "read", "hosts"}

ASSUME NetworkAssumption ==
    /\ Wanted \in [Network -> SUBSET Table]
    /\ Mishap \in [Network -> SUBSET (Call \union {"stopped", "undefined", "edited"})]

VARIABLES mutex,    \* Client.networkMutex: who holds it
          pc,       \* the next call of each network's handler
          op,       \* the operation that handler performs
          d,        \* ResourceData.Id(): the network itself, or None
          attr,     \* attribute dns.hosts of the ResourceData
          state,    \* the id in Terraform's state
          saved,    \* attribute dns.hosts in Terraform's state
          chosen,   \* the bridge of a definition that libvirt is working on
          todo      \* the entries that a loop of updateDNSHosts has still to do

handlerVars == <<mutex, pc, op, d, attr, state, saved, chosen, todo>>
vars == <<networkVars, handlerVars>>

Init ==
    /\ NetworkInit
    /\ mutex = None
    /\ pc = [n \in Network |-> "idle"]
    /\ op = [n \in Network |-> "none"]
    /\ d = [n \in Network |-> None]
    /\ attr = [n \in Network |-> NoHosts]
    /\ state = [n \in Network |-> None]
    /\ saved = [n \in Network |-> NoHosts]
    /\ chosen = [n \in Network |-> None]
    /\ todo = [n \in Network |-> {}]

-----------------------------------------------------------------------------
(* What the handlers have in common.                                        *)

MayFail(n, call) == call \in Mishap[n]

Goto(n, next) ==
    /\ pc' = [pc EXCEPT ![n] = next]
    /\ UNCHANGED <<mutex, op, d, attr, state, saved, chosen, todo>>

\* The handler returns, and Terraform saves its id and attributes; after an error
\* too, if there is an id: a failed create is tainted, and a failed update leaves
\* the values of the configuration in the state.
ReturnWith(n, id, table) ==
    /\ pc' = [pc EXCEPT ![n] = "idle"]
    /\ op' = [op EXCEPT ![n] = "none"]
    /\ d' = [d EXCEPT ![n] = id]
    /\ attr' = [attr EXCEPT ![n] = IF id = None THEN NoHosts ELSE table]
    /\ state' = [state EXCEPT ![n] = id]
    /\ saved' = [saved EXCEPT ![n] = IF id = None THEN NoHosts ELSE table]
    /\ chosen' = [chosen EXCEPT ![n] = None]
    /\ todo' = [todo EXCEPT ![n] = {}]

Return(n, id) == ReturnWith(n, id, attr[n]) /\ UNCHANGED mutex

ReturnError(n) == Return(n, d[n]) /\ UNCHANGED networkVars

-----------------------------------------------------------------------------
(* resourceLibvirtNetworkCreate.                                            *)

NetworkPrepare(n) ==
    /\ pc[n] = "net.prepare"
    /\ \/ Goto(n, "net.lock")
       \/ MayFail(n, "prepare") /\ Return(n, d[n])
    /\ UNCHANGED networkVars

\* Bug: the definition is not serialised.
NetworkUnlocked(n) ==
    /\ pc[n] = "net.lock"
    /\ Goto(n, "net.define")
    /\ UNCHANGED networkVars

NetworkLock(n) ==
    /\ pc[n] = "net.lock"
    /\ mutex = None
    /\ mutex' = n
    /\ pc' = [pc EXCEPT ![n] = "net.define"]
    /\ UNCHANGED <<networkVars, op, d, attr, state, saved, chosen, todo>>

\* NetworkDefineXML has begun: libvirt has chosen a bridge.
NetworkDefine(n) ==
    /\ pc[n] = "net.define"
    /\ \/ \E br \in FreeBridges :
            /\ chosen' = [chosen EXCEPT ![n] = br]
            /\ pc' = [pc EXCEPT ![n] = "net.defined"]
            /\ UNCHANGED <<mutex, op, d, attr, state, saved, todo>>
       \/ FreeBridges = {} /\ mutex' = None /\ ReturnWith(n, d[n], attr[n])
    /\ UNCHANGED networkVars

\* Bug: the mutex stays locked when the definition fails.
NetworkDefinedLocked(n) ==
    /\ pc[n] = "net.defined"
    /\ \/ /\ NetworkDefineXML(n, chosen[n], attr[n])
          /\ mutex' = None
          /\ pc' = [pc EXCEPT ![n] = "net.start"]
          /\ UNCHANGED <<op, d, attr, state, saved, chosen, todo>>
       \/ (nst[n] # "absent" \/ MayFail(n, "define")) /\ ReturnError(n)

\* NetworkDefineXML has returned, and with it the function that holds the mutex.
NetworkDefined(n) ==
    /\ pc[n] = "net.defined"
    /\ mutex' = None
    /\ \/ /\ NetworkDefineXML(n, chosen[n], attr[n])
          /\ pc' = [pc EXCEPT ![n] = "net.start"]
          /\ UNCHANGED <<op, d, attr, state, saved, chosen, todo>>
       \/ /\ nst[n] # "absent" \/ MayFail(n, "define")
          /\ ReturnWith(n, d[n], attr[n])
          /\ UNCHANGED networkVars

\* A start that fails may leave a "broken network" behind, running or not.
StartFails(n) ==
    /\ ~CanCreate(n) \/ MayFail(n, "create")
    /\ \/ UNCHANGED networkVars
       \/ MayFail(n, "create") /\ NetworkCreate(n)

\* Bug: the id is not set.
NetworkStartNoId(n) ==
    /\ pc[n] = "net.start"
    /\ \/ NetworkCreate(n) /\ Goto(n, "net.wait")
       \/ StartFails(n) /\ Goto(n, "net.stop")

\* NetworkCreate, then d.SetId.
NetworkStart(n) ==
    /\ pc[n] = "net.start"
    /\ \/ /\ NetworkCreate(n)
          /\ pc' = [pc EXCEPT ![n] = "net.wait"]
          /\ d' = [d EXCEPT ![n] = n]
          /\ UNCHANGED <<mutex, op, attr, state, saved, chosen, todo>>
       \/ StartFails(n) /\ Goto(n, "net.stop")

\* The cleanup after a failed start: the errors of both calls are only logged.
CleanupStop(n) ==
    /\ pc[n] = "net.stop"
    /\ \/ NetworkDestroy(n)
       \/ (~Active(n) \/ MayFail(n, "destroy")) /\ UNCHANGED networkVars
    /\ Goto(n, "net.undefine")

\* Bug: a broken network stays defined.
CleanupForgets(n) ==
    /\ pc[n] = "net.undefine"
    /\ ReturnError(n)

CleanupUndefine(n) ==
    /\ pc[n] = "net.undefine"
    /\ \/ NetworkUndefine(n)
       \/ (~CanUndefine(n) \/ MayFail(n, "undefine")) /\ UNCHANGED networkVars
    /\ Return(n, d[n])

\* waitForNetworkActive, one minute at most.
NetworkWait(n) ==
    /\ pc[n] = "net.wait"
    /\ \/ Active(n) /\ Goto(n, "net.autostart")
       \/ (~Active(n) \/ MayFail(n, "wait")) /\ Return(n, d[n])
    /\ UNCHANGED networkVars

\* Attribute "autostart" is not modelled: with it there is one call more.
NetworkAutostart(n) ==
    /\ pc[n] = "net.autostart"
    /\ \/ Goto(n, "netread.lookup")
       \/ (~Own(n) \/ MayFail(n, "autostart")) /\ Return(n, d[n])
    /\ UNCHANGED networkVars

-----------------------------------------------------------------------------
(* resourceLibvirtNetworkRead.                                              *)

NetworkReadLookup(n) ==
    /\ pc[n] = "netread.lookup"
    /\ \/ Own(n) /\ Goto(n, "netread.desc")
       \/ ~Own(n) /\ Return(n, None)
       \/ MayFail(n, "lookup") /\ Return(n, d[n])
    /\ UNCHANGED networkVars

\* The description and the autostart flag.  dnsBlock begins as what the
\* ResourceData has, and gets "hosts" only if libvirt reports some.
NetworkReadDesc(n) ==
    /\ pc[n] = "netread.desc"
    /\ \/ Own(n) /\ ReturnWith(n, d[n], IF hosts[n] = NoHosts THEN attr[n] ELSE hosts[n])
       \/ (~Own(n) \/ MayFail(n, "read")) /\ ReturnWith(n, d[n], attr[n])
    /\ UNCHANGED <<networkVars, mutex>>

-----------------------------------------------------------------------------
(* resourceLibvirtNetworkUpdate and updateDNSHosts.                         *)

\* A network that is gone leaves the state.
UpdateLookup(n) ==
    /\ pc[n] = "netup.lookup"
    /\ \/ Own(n) /\ Goto(n, "netup.active")
       \/ ~Own(n) /\ Return(n, None)
       \/ MayFail(n, "lookup") /\ Return(n, d[n])
    /\ UNCHANGED networkVars

UpdateActive(n) ==
    /\ pc[n] = "netup.active"
    /\ \/ Active(n) /\ Goto(n, "netup.autostart")
       \/ Own(n) /\ ~Active(n) /\ Goto(n, "netup.start")
       \/ (~Own(n) \/ MayFail(n, "active")) /\ Return(n, d[n])
    /\ UNCHANGED networkVars

UpdateStart(n) ==
    /\ pc[n] = "netup.start"
    /\ \/ NetworkCreate(n) /\ Goto(n, "netup.autostart")
       \/ StartFails(n) /\ Return(n, d[n])

\* Bug: every old entry is removed, as if none stayed.
RemovedAll(n) == {ip \in IP : saved[n][ip] # {}}

\* Bug: only addresses without an old entry are added.
AddedNew(n) == {ip \in IP : attr[n][ip] # {} /\ saved[n][ip] = {}}

\* The entries of the old configuration that the new one does not have as they
\* are.  (An entry has all host names of its address.)
Removed(n) == {ip \in IP : saved[n][ip] # {} /\ saved[n][ip] # attr[n][ip]}

Added(n) == {ip \in IP : attr[n][ip] # {} /\ saved[n][ip] # attr[n][ip]}

BeginLoop(n, next, entries) ==
    /\ pc' = [pc EXCEPT ![n] = next]
    /\ todo' = [todo EXCEPT ![n] = entries]
    /\ UNCHANGED <<mutex, op, d, attr, state, saved, chosen>>

UpdateAutostart(n) ==
    /\ pc[n] = "netup.autostart"
    /\ \/ BeginLoop(n, "netup.delete", Removed(n))
       \/ (~Own(n) \/ MayFail(n, "autostart")) /\ Return(n, d[n])
    /\ UNCHANGED networkVars

\* The entries come from a Go map: in any order.  A deletion names the address
\* only.  The first error ends the update.
UpdateDelete(n) ==
    /\ pc[n] = "netup.delete"
    /\ \/ \E ip \in todo[n] :
            \/ DeleteHost(n, ip) /\ BeginLoop(n, "netup.delete", todo[n] \ {ip})
            \/ ~CanDeleteHost(n, ip) /\ ReturnError(n)
       \/ todo[n] # {} /\ MayFail(n, "hosts") /\ ReturnError(n)
       \/ todo[n] = {} /\ BeginLoop(n, "netup.add", Added(n)) /\ UNCHANGED networkVars

UpdateAdd(n) ==
    /\ pc[n] = "netup.add"
    /\ \/ \E ip \in todo[n] :
            \/ AddHost(n, ip, attr[n][ip]) /\ BeginLoop(n, "netup.add", todo[n] \ {ip})
            \/ ~CanAddHost(n, ip, attr[n][ip]) /\ ReturnError(n)
       \/ todo[n] # {} /\ MayFail(n, "hosts") /\ ReturnError(n)
       \/ todo[n] = {} /\ Return(n, d[n]) /\ UNCHANGED networkVars

-----------------------------------------------------------------------------
(* resourceLibvirtNetworkDelete.  Here a network that is gone is an error.  *)

DeleteLookup(n) ==
    /\ pc[n] = "netdel.lookup"
    /\ \/ Own(n) /\ Goto(n, "netdel.active")
       \/ (~Own(n) \/ MayFail(n, "lookup")) /\ Return(n, d[n])
    /\ UNCHANGED networkVars

DeleteActive(n) ==
    /\ pc[n] = "netdel.active"
    /\ \/ Active(n) /\ Goto(n, "netdel.destroy")
       \/ Own(n) /\ ~Active(n) /\ Goto(n, "netdel.undefine")
       \/ (~Own(n) \/ MayFail(n, "active")) /\ Return(n, d[n])
    /\ UNCHANGED networkVars

\* Bug: a network that was active is stopped only.
DeleteDestroyOnly(n) ==
    /\ pc[n] = "netdel.destroy"
    /\ \/ NetworkDestroy(n) /\ Goto(n, "netdel.wait")
       \/ (~Active(n) \/ MayFail(n, "destroy")) /\ ReturnError(n)

DeleteDestroy(n) ==
    /\ pc[n] = "netdel.destroy"
    /\ \/ NetworkDestroy(n) /\ Goto(n, "netdel.undefine")
       \/ (~Active(n) \/ MayFail(n, "destroy")) /\ ReturnError(n)

DeleteUndefine(n) ==
    /\ pc[n] = "netdel.undefine"
    /\ \/ NetworkUndefine(n) /\ Goto(n, "netdel.wait")
       \/ (~CanUndefine(n) \/ MayFail(n, "undefine")) /\ ReturnError(n)

\* waitForNetworkDestroyed, one minute at most.
DeleteWait(n) ==
    /\ pc[n] = "netdel.wait"
    /\ \/ ~Own(n) /\ Return(n, None)
       \/ (Own(n) \/ MayFail(n, "wait")) /\ Return(n, d[n])
    /\ UNCHANGED networkVars

HandlerStep(n) ==
    \/ NetworkPrepare(n)
    \/ NetworkLock(n)
    \/ NetworkDefine(n)
    \/ NetworkDefined(n)
    \/ NetworkStart(n)
    \/ CleanupStop(n)
    \/ CleanupUndefine(n)
    \/ NetworkWait(n)
    \/ NetworkAutostart(n)
    \/ NetworkReadLookup(n)
    \/ NetworkReadDesc(n)
    \/ UpdateLookup(n)
    \/ UpdateActive(n)
    \/ UpdateStart(n)
    \/ UpdateAutostart(n)
    \/ UpdateDelete(n)
    \/ UpdateAdd(n)
    \/ DeleteLookup(n)
    \/ DeleteActive(n)
    \/ DeleteDestroy(n)
    \/ DeleteUndefine(n)
    \/ DeleteWait(n)

-----------------------------------------------------------------------------
(* Terraform: a walk to refresh and a walk to apply do not overlap.         *)

Refreshing == \E n \in Network : op[n] = "read"
Applying == \E n \in Network : op[n] \in {"create", "update", "delete"}

Begin(n, kind, next, table) ==
    /\ op[n] = "none"
    /\ op' = [op EXCEPT ![n] = kind]
    /\ pc' = [pc EXCEPT ![n] = next]
    /\ attr' = [attr EXCEPT ![n] = table]
    /\ UNCHANGED <<networkVars, mutex, d, state, saved, chosen, todo>>

BeginCreate(n) ==
    /\ state[n] = None
    /\ ~Refreshing
    /\ \E table \in Wanted[n] : Begin(n, "create", "net.prepare", table)

BeginRead(n) ==
    /\ state[n] # None
    /\ ~Applying
    /\ Begin(n, "read", "netread.lookup", saved[n])

BeginUpdate(n) ==
    /\ state[n] # None
    /\ ~Refreshing
    /\ \E table \in Wanted[n] \ {saved[n]} : Begin(n, "update", "netup.lookup", table)

BeginDelete(n) ==
    /\ state[n] # None
    /\ ~Refreshing
    /\ Begin(n, "delete", "netdel.lookup", saved[n])

-----------------------------------------------------------------------------
(* Behind Terraform's back.                                                 *)

OutsideStop(n) ==
    /\ "stopped" \in Mishap[n]
    /\ NetworkDestroy(n)
    /\ UNCHANGED handlerVars

OutsideUndefine(n) ==
    /\ "undefined" \in Mishap[n]
    /\ NetworkUndefine(n)
    /\ UNCHANGED handlerVars

OutsideEdit(n) ==
    /\ "edited" \in Mishap[n]
    /\ \E ip \in IP : DeleteHost(n, ip)
    /\ UNCHANGED handlerVars

Next == \E n \in Network :
    \/ BeginCreate(n)
    \/ BeginRead(n)
    \/ BeginUpdate(n)
    \/ BeginDelete(n)
    \/ HandlerStep(n)
    \/ OutsideStop(n)
    \/ OutsideUndefine(n)
    \/ OutsideEdit(n)

Spec == Init /\ [][Next]_vars

\* A handler that has begun goes on, and networkMutex is fair to its waiters.
Fairness == \A n \in Network : SF_vars(HandlerStep(n))

FairSpec == Spec /\ Fairness

-----------------------------------------------------------------------------
(* Safety.                                                                  *)

Label == {"idle", "net.prepare", "net.lock", "net.define", "net.defined", "net.start",
          "net.stop", "net.undefine", "net.wait", "net.autostart", "netread.lookup",
          "netread.desc", "netup.lookup", "netup.active", "netup.start",
          "netup.autostart", "netup.delete", "netup.add", "netdel.lookup",
          "netdel.active", "netdel.destroy", "netdel.undefine", "netdel.wait"}

\* Labels of a create before d.SetId.
Unnamed == {"net.prepare", "net.lock", "net.define", "net.defined", "net.start",
            "net.stop", "net.undefine"}

\* The type of the state; an id is there from d.SetId on, and the DNS hosts that
\* Terraform saves belong to a network it has an id of.
TypeOK ==
    /\ NetworkTypeOK
    /\ mutex \in Network \union {None}
    /\ pc \in [Network -> Label]
    /\ op \in [Network -> {"none", "create", "read", "update", "delete"}]
    /\ chosen \in [Network -> Bridge \union {None}]
    /\ todo \in [Network -> SUBSET IP]
    /\ d \in [Network -> Network \union {None}]
    /\ state \in [Network -> Network \union {None}]
    /\ attr \in [Network -> Table]
    /\ saved \in [Network -> Table]
    /\ \A n \in Network :
         /\ d[n] \in {n, None}
         /\ state[n] \in {n, None}
         /\ pc[n] # "idle" => (d[n] = None <=> pc[n] \in Unnamed)
         /\ state[n] = None => saved[n] = NoHosts

\* "Remove the network in case of failure": when a create is over, a network that
\* it defined is in the state, or it is gone.  No failure of any call but the two
\* of the cleanup itself makes Terraform lose a network, in no operation.
NothingLeaks == \A n \in Network :
    /\ Mishap[n] \intersect {"destroy", "undefine"} = {}
    /\ op[n] = "none"
    /\ Own(n)
    => state[n] = n

\* "define only one network at a time": libvirt chooses a bridge that is free when
\* a definition begins, so two definitions that overlap can get the same one, and
\* only one of the two networks could ever be started.
BridgesDiffer == \A n, m \in Network : bridge[n] = bridge[m] => n = m \/ bridge[n] = None

\* The DNS hosts that a change of the configuration does not touch stay in the
\* network all the while the update deletes and adds others, whatever fails.
UnchangedHostsStay ==
    [][\A n \in Network :
         /\ op[n] = "update"
         /\ <<pc[n], todo[n]>>' # <<pc[n], todo[n]>>
         => \A ip \in IP : saved[n][ip] = attr[n][ip] => hosts'[n][ip] = hosts[n][ip]]_vars

\* If nothing goes wrong, what Terraform's state says of the DNS hosts is what the
\* network has: every change of one set of entries to another one, be it a host
\* name that moves between addresses, is possible entry by entry.
StateTellsHosts == \A n \in Network :
    Mishap[n] = {} /\ op[n] = "none" /\ state[n] # None => saved[n] = hosts[n]

\* If nothing goes wrong, the destroy of a network succeeds and removes it.
DeletesSucceed ==
    [][\A n \in Network :
         /\ Mishap[n] = {}
         /\ op[n] = "delete"
         /\ op'[n] = "none"
         => state'[n] = None /\ nst'[n] = "absent"]_vars

\* Every operation ends: nobody waits for ever for networkMutex, for a network
\* that never gets active or for one that never goes away.
EveryOperationEnds == \A n \in Network : (op[n] # "none") ~> (op[n] = "none")

-----------------------------------------------------------------------------
(* What a comment says, and the code does not keep.                         *)

\* "gets the current resource from libvirt and creates the corresponding
\* `schema.ResourceData`": after a refresh the DNS hosts of the state are those of
\* the network.
RefreshTellsHosts ==
    [][\A n \in Network :
         /\ op[n] = "read"
         /\ pc[n] = "netread.desc"
         /\ pc'[n] = "idle"
         /\ Own(n)
         /\ ~MayFail(n, "read")
         => saved'[n] = hosts[n]]_vars
=============================================================================
