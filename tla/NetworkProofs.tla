---------------------------- MODULE NetworkProofs ----------------------------
(***************************************************************************)
(* Theorems about Network: type correctness, no network lost to Terraform,  *)
(* one bridge per network, updates that leave unchanged hosts alone,        *)
(* deletes that succeed and states that tell the hosts of the network.      *)
(*                                                                         *)
(* Every handler step has a shape (Shape): what it does to libvirt's        *)
(* networks, where the handler goes, what happens to networkMutex.  The     *)
(* lemmas show it action by action; the invariant follows from the shape.   *)
(* Two more invariants, for networks without mishaps, give DeletesEnd and   *)
(* HostsAreTold (CalmInv, HostsInv).  At the end: nobody waits in a circle, *)
(* and every call of an operation leaves fewer to make.                     *)
(***************************************************************************)
EXTENDS Network, FiniteSetTheorems, TLAPS

InDefine(label) == label \in {"net.define", "net.defined"}

\* A definition that has no id yet: the cleanup will remove it, or d.SetId name it.
Unfinished == {"net.start", "net.stop", "net.undefine"}

UpdateLabel == {"netup.lookup", "netup.active", "netup.start", "netup.autostart",
                "netup.delete", "netup.add"}

\* The two calls of the cleanup do not fail for no reason.
CleansUp(n) == Mishap[n] \intersect {"destroy", "undefine"} = {}

\* A handler runs exactly while its network has an operation; otherwise the
\* ResourceData has the id of the state.  An update stays at labels of its own.
ControlInv == \A n \in Network :
    /\ op[n] = "none" <=> pc[n] = "idle"
    /\ op[n] = "none" => d[n] = state[n]
    /\ op[n] = "update" => pc[n] \in UpdateLabel

MutexInv == \A n \in Network : InDefine(pc[n]) <=> mutex = n

\* Networks that are there have a bridge, each its own, and the bridge that a
\* definition has chosen stays free until the definition ends.
BridgeInv ==
    /\ BridgesDiffer
    /\ \A n \in Network :
         /\ bridge[n] = None <=> nst[n] = "absent"
         /\ pc[n] = "net.defined" => chosen[n] \in FreeBridges

\* A network that its resource defined has an id or is not finished, and it does
\* not run any more when the cleanup undefines it.
LeakInv == \A n \in Network : CleansUp(n) =>
    /\ Own(n) => d[n] = n \/ pc[n] \in Unfinished
    /\ pc[n] = "net.undefine" => ~Active(n)

\* The loops of updateDNSHosts work on entries that change.
TodoInv == \A n \in Network :
    pc[n] \in {"netup.delete", "netup.add"} =>
        \A ip \in todo[n] : saved[n][ip] # attr[n][ip]

\* The inductive invariant.
IInv == TypeOK /\ ControlInv /\ MutexInv /\ BridgeInv /\ LeakInv /\ TodoInv

-----------------------------------------------------------------------------
(* The shape of a step.                                                     *)

\* A network changes its state or its hosts, but not its identity.
Alters(n) ==
    /\ Own(n)
    /\ \E s \in NetworkState \ {"absent"} : nst' = [nst EXCEPT ![n] = s]
    /\ \E table \in Table : hosts' = [hosts EXCEPT ![n] = table]
    /\ UNCHANGED <<author, bridge>>

Affects(n) ==
    \/ UNCHANGED networkVars
    \/ Alters(n)
    \/ Own(n) /\ Vanishes(n)
    \/ pc[n] = "net.defined" /\ NetworkDefineXML(n, chosen[n], attr[n])

Moves(n) == \E label \in Label \ {"idle"} :
    /\ pc' = [pc EXCEPT ![n] = label]
    /\ \E id \in {d[n], n} :
         /\ d' = [d EXCEPT ![n] = id]
         /\ id = None <=> label \in Unnamed
    /\ \E br \in Bridge \union {None} : chosen' = [chosen EXCEPT ![n] = br]
    /\ \E entries \in SUBSET IP :
         /\ todo' = [todo EXCEPT ![n] = entries]
         /\ label \in {"netup.delete", "netup.add"} =>
              \A ip \in entries : saved[n][ip] # attr[n][ip]
    /\ op[n] = "update" => label \in UpdateLabel
    /\ UNCHANGED <<op, attr, state, saved>>

Ends(n) == \E id \in {d[n], None}, table \in Table : ReturnWith(n, id, table)

\* networkMutex is held exactly around a definition.
Locks(n) ==
    \/ mutex' = mutex /\ (InDefine(pc'[n]) <=> InDefine(pc[n]))
    \/ mutex = None /\ mutex' = n /\ InDefine(pc'[n])
    \/ mutex = n /\ mutex' = None /\ ~InDefine(pc'[n])

\* What the step leaves behind of the network.
Leaves(n) ==
    /\ pc'[n] = "net.defined" => UNCHANGED networkVars /\ chosen'[n] \in FreeBridges
    /\ CleansUp(n) =>
         /\ Own(n)' => d'[n] = n \/ pc'[n] \in Unfinished
         /\ pc'[n] = "net.undefine" => ~Active(n)'

\* An update touches only the entries of its loop.
Edits(n) == op[n] = "update" =>
    \A ip \in IP : saved[n][ip] = attr[n][ip] => hosts'[n][ip] = hosts[n][ip]

Shape(n) ==
    /\ pc[n] # "idle"
    /\ Affects(n)
    /\ Moves(n) \/ Ends(n)
    /\ Locks(n)
    /\ Leaves(n)
    /\ Edits(n)

-----------------------------------------------------------------------------
(* The steps of libvirt.                                                    *)

\* Each call on an existing network alters it or makes it vanish.
LEMMA CallsAlter ==
    ASSUME NetworkTypeOK, NEW n \in Network
    PROVE  /\ NetworkCreate(n) => Alters(n) /\ hosts' = hosts
           /\ NetworkDestroy(n) => Alters(n) \/ (Own(n) /\ Vanishes(n))
           /\ NetworkUndefine(n) => Alters(n) \/ (Own(n) /\ Vanishes(n))
           /\ \A ip \in IP : DeleteHost(n, ip) => Alters(n)
           /\ \A ip \in IP, names \in SUBSET Host : AddHost(n, ip, names) => Alters(n)
<1>1. ASSUME UNCHANGED hosts
      PROVE  \E table \in Table : hosts' = [hosts EXCEPT ![n] = table]
  BY <1>1 DEF NetworkTypeOK
<1>2. NetworkCreate(n) => Alters(n) /\ hosts' = hosts
  BY <1>1 DEF NetworkCreate, CanCreate, Alters, Own, NetworkState
<1>3. NetworkDestroy(n) => Alters(n) \/ (Own(n) /\ Vanishes(n))
  BY <1>1 DEF NetworkDestroy, Active, Alters, Own, NetworkState
<1>4. NetworkUndefine(n) => Alters(n) \/ (Own(n) /\ Vanishes(n))
  BY <1>1 DEF NetworkUndefine, CanUndefine, Alters, Own, NetworkState
<1>5. ASSUME NEW ip \in IP, NEW names \in SUBSET Host,
             hosts' = [hosts EXCEPT ![n][ip] = names]
      PROVE  \E table \in Table : hosts' = [hosts EXCEPT ![n] = table]
  <2>1. [hosts[n] EXCEPT ![ip] = names] \in Table
    BY <1>5 DEF NetworkTypeOK, Table
  <2>2. hosts' = [hosts EXCEPT ![n] = [hosts[n] EXCEPT ![ip] = names]]
    BY <1>5
  <2>3. QED
    BY <2>1, <2>2
<1>6. ASSUME NEW s, s = nst[n], s # "absent", UNCHANGED nst
      PROVE  \E t \in NetworkState \ {"absent"} : nst' = [nst EXCEPT ![n] = t]
  BY <1>6 DEF NetworkTypeOK
<1>7. \A ip \in IP : DeleteHost(n, ip) => Alters(n)
  <2>1. SUFFICES ASSUME NEW ip \in IP, DeleteHost(n, ip)
                 PROVE  Alters(n)
    OBVIOUS
  <2>2. {} \in SUBSET Host
    OBVIOUS
  <2>3. \E table \in Table : hosts' = [hosts EXCEPT ![n] = table]
    BY <1>5, <2>1, <2>2 DEF DeleteHost
  <2>4. QED
    BY <1>6, <2>1, <2>3 DEF DeleteHost, CanDeleteHost, Active, Own, Alters
<1>8. \A ip \in IP, names \in SUBSET Host : AddHost(n, ip, names) => Alters(n)
  <2>1. SUFFICES ASSUME NEW ip \in IP, NEW names \in SUBSET Host, AddHost(n, ip, names)
                 PROVE  Alters(n)
    OBVIOUS
  <2>2. \E table \in Table : hosts' = [hosts EXCEPT ![n] = table]
    BY <1>5, <2>1 DEF AddHost
  <2>3. QED
    BY <1>6, <2>1, <2>2 DEF AddHost, CanAddHost, Active, Own, Alters
<1>9. QED
  BY <1>2, <1>3, <1>4, <1>7, <1>8

-----------------------------------------------------------------------------
(* The control part of a shape.                                             *)

\* Where a handler at its label may go without touching libvirt,
\* the mutex or the loops.
Follows(n, label) ==
    /\ label \in Label \ {"idle", "net.undefine", "netup.delete", "netup.add"}
    /\ ~InDefine(label)
    /\ label \in Unnamed <=> pc[n] \in Unnamed
    /\ pc[n] \in UpdateLabel => label \in UpdateLabel

\* A handler that goes on with its next call makes a move.
LEMMA MovesTo ==
    ASSUME IInv, NEW n \in Network,
           NEW label \in Label \ {"idle", "netup.delete", "netup.add"}, NEW id \in {d[n], n},
           id = None <=> label \in Unnamed,
           op[n] = "update" => label \in UpdateLabel,
           pc' = [pc EXCEPT ![n] = label],
           d' = [d EXCEPT ![n] = id],
           UNCHANGED <<op, attr, state, saved, chosen, todo>>
    PROVE  Moves(n) /\ pc'[n] = label /\ d'[n] = id
<1>1. chosen' = [chosen EXCEPT ![n] = chosen[n]] /\ chosen[n] \in Bridge \union {None}
  BY DEF IInv, TypeOK
<1>2. todo' = [todo EXCEPT ![n] = todo[n]] /\ todo[n] \in SUBSET IP
  BY DEF IInv, TypeOK
<1>3. \E br \in Bridge \union {None} : chosen' = [chosen EXCEPT ![n] = br]
  BY <1>1
<1>4. \E entries \in SUBSET IP :
         /\ todo' = [todo EXCEPT ![n] = entries]
         /\ label \in {"netup.delete", "netup.add"} =>
              \A ip \in entries : saved[n][ip] # attr[n][ip]
  BY <1>2
<1>5. \E i \in {d[n], n} :
         /\ d' = [d EXCEPT ![n] = i]
         /\ i = None <=> label \in Unnamed
  OBVIOUS
<1>6. Moves(n)
  BY <1>3, <1>4, <1>5 DEF Moves
<1>7. QED
  BY <1>6 DEF IInv, TypeOK

LEMMA GotoMoves ==
    ASSUME IInv, NEW n \in Network, pc[n] # "idle",
           NEW label \in Label \ {"idle", "netup.delete", "netup.add"},
           label \in Unnamed <=> pc[n] \in Unnamed,
           pc[n] \in UpdateLabel => label \in UpdateLabel,
           Goto(n, label)
    PROVE  Moves(n) /\ pc'[n] = label /\ d' = d
<1>1. d' = d /\ d' = [d EXCEPT ![n] = d[n]] /\ (d[n] = None <=> label \in Unnamed)
  BY DEF Goto, IInv, TypeOK
<1>2. op[n] = "update" => label \in UpdateLabel
  BY DEF IInv, ControlInv
<1>3. QED
  BY <1>1, <1>2, MovesTo DEF Goto

\* A handler that returns ends, with its id or with none.
LEMMA ReturnEnds ==
    ASSUME IInv, NEW n \in Network, NEW id \in {d[n], None}, NEW table \in Table,
           ReturnWith(n, id, table)
    PROVE  Ends(n) /\ pc'[n] = "idle" /\ d'[n] = id
BY DEF Ends, ReturnWith, IInv, TypeOK

\* A step that only asks libvirt something has the shape.
LEMMA QuietShape ==
    ASSUME IInv, NEW n \in Network,
           pc[n] \notin Unfinished \union {"idle"}, ~InDefine(pc[n]),
           UNCHANGED <<networkVars, mutex>>,
           \/ \E label \in Label : Follows(n, label) /\ Goto(n, label)
           \/ \E table \in Table : ReturnWith(n, d[n], table)
           \/ ~Own(n) /\ \E table \in Table : ReturnWith(n, None, table)
    PROVE  Shape(n)
<1>1. Affects(n) /\ Own(n)' = Own(n) /\ Active(n)' = Active(n)
  BY DEF Affects, Own, Active, networkVars
<1>2. Edits(n)
  BY DEF Edits, networkVars
<1>3. CleansUp(n) /\ Own(n) => d[n] = n
  BY DEF IInv, LeakInv
<1>4. CASE \E label \in Label : Follows(n, label) /\ Goto(n, label)
  <2>1. PICK label \in Label : Follows(n, label) /\ Goto(n, label)
    BY <1>4
  <2>2. Moves(n) /\ pc'[n] = label /\ d' = d
    BY <2>1, GotoMoves DEF Follows
  <2>3. Locks(n)
    BY <2>1, <2>2 DEF Locks, Follows
  <2>4. Leaves(n)
    BY <1>1, <1>3, <2>1, <2>2 DEF Leaves, Follows, InDefine
  <2>5. QED
    BY <1>1, <1>2, <2>2, <2>3, <2>4 DEF Shape
<1>5. CASE \/ \E table \in Table : ReturnWith(n, d[n], table)
           \/ ~Own(n) /\ \E table \in Table : ReturnWith(n, None, table)
  <2>1. PICK id \in {d[n], None} : /\ \E table \in Table : ReturnWith(n, id, table)
                                   /\ id = d[n] \/ ~Own(n)
    BY <1>5
  <2>2. Ends(n) /\ pc'[n] = "idle" /\ d'[n] = id
    BY <2>1, ReturnEnds
  <2>3. Locks(n)
    BY <2>2 DEF Locks, InDefine
  <2>4. Leaves(n)
    BY <1>1, <1>3, <2>1, <2>2 DEF Leaves
  <2>5. QED
    BY <1>1, <1>2, <2>2, <2>3, <2>4 DEF Shape
<1>6. QED
  BY <1>4, <1>5

-----------------------------------------------------------------------------
(* The actions, one after the other.                                        *)

\* The calls that ask libvirt something.
LEMMA QuietSteps ==
    ASSUME IInv, NEW n \in Network,
           \/ NetworkPrepare(n) \/ NetworkWait(n) \/ NetworkAutostart(n)
           \/ NetworkReadLookup(n) \/ NetworkReadDesc(n)
           \/ UpdateLookup(n) \/ UpdateActive(n)
           \/ DeleteLookup(n) \/ DeleteActive(n) \/ DeleteWait(n)
    PROVE  Shape(n)
<1> DEFINE Quiet == /\ pc[n] \notin Unfinished \union {"idle"}
                    /\ ~InDefine(pc[n])
                    /\ UNCHANGED <<networkVars, mutex>>
                    /\ \/ \E label \in Label : Follows(n, label) /\ Goto(n, label)
                       \/ \E table \in Table : ReturnWith(n, d[n], table)
                       \/ ~Own(n) /\ \E table \in Table : ReturnWith(n, None, table)
<1>1. attr[n] \in Table /\ hosts[n] \in Table
  BY DEF IInv, TypeOK, NetworkTypeOK
<1>2. ASSUME NEW label \in Label, Follows(n, label), Goto(n, label), UNCHANGED networkVars,
             pc[n] \notin Unfinished \union {"idle"}, ~InDefine(pc[n])
      PROVE  Quiet
  BY <1>2 DEF Goto
<1>3. ASSUME NEW id \in {d[n], None}, Return(n, id), id = d[n] \/ ~Own(n), UNCHANGED networkVars,
             pc[n] \notin Unfinished \union {"idle"}, ~InDefine(pc[n])
      PROVE  Quiet
  BY <1>1, <1>3 DEF Return
<1> USE DEF Follows, Label, Unnamed, UpdateLabel, Unfinished, InDefine
<1>4. CASE NetworkPrepare(n)
  <2>1. Quiet
    BY <1>2, <1>3, <1>4 DEF NetworkPrepare
  <2>2. QED
    BY <2>1, QuietShape
<1>5. CASE NetworkWait(n)
  <2>1. Quiet
    BY <1>2, <1>3, <1>5 DEF NetworkWait
  <2>2. QED
    BY <2>1, QuietShape
<1>6. CASE NetworkAutostart(n)
  <2>1. Quiet
    BY <1>2, <1>3, <1>6 DEF NetworkAutostart
  <2>2. QED
    BY <2>1, QuietShape
<1>7. CASE NetworkReadLookup(n)
  <2>1. Quiet
    BY <1>2, <1>3, <1>7 DEF NetworkReadLookup
  <2>2. QED
    BY <2>1, QuietShape
<1>8. CASE NetworkReadDesc(n)
  <2>1. \E table \in Table : ReturnWith(n, d[n], table)
    BY <1>1, <1>8 DEF NetworkReadDesc
  <2>2. QED
    BY <1>8, <2>1, QuietShape DEF NetworkReadDesc
<1>9. CASE UpdateLookup(n)
  <2>1. Quiet
    BY <1>2, <1>3, <1>9 DEF UpdateLookup
  <2>2. QED
    BY <2>1, QuietShape
<1>10. CASE UpdateActive(n)
  <2>1. Quiet
    BY <1>2, <1>3, <1>10 DEF UpdateActive
  <2>2. QED
    BY <2>1, QuietShape
<1>11. CASE DeleteLookup(n)
  <2>1. Quiet
    BY <1>2, <1>3, <1>11 DEF DeleteLookup
  <2>2. QED
    BY <2>1, QuietShape
<1>12. CASE DeleteActive(n)
  <2>1. Quiet
    BY <1>2, <1>3, <1>12 DEF DeleteActive
  <2>2. QED
    BY <2>1, QuietShape
<1>13. CASE DeleteWait(n)
  <2>1. Quiet
    BY <1>2, <1>3, <1>13 DEF DeleteWait
  <2>2. QED
    BY <2>1, QuietShape
<1>14. QED
  BY <1>4, <1>5, <1>6, <1>7, <1>8, <1>9, <1>10, <1>11, <1>12, <1>13

\* networkMutex is taken before a definition.
LEMMA LockShape ==
    ASSUME IInv, NEW n \in Network, NetworkLock(n)
    PROVE  Shape(n)
<1>1. pc'[n] = "net.define" /\ d' = d /\ pc[n] = "net.lock" /\ UNCHANGED networkVars
  BY DEF NetworkLock, IInv, TypeOK
<1>2. Moves(n)
  <2>1. d' = [d EXCEPT ![n] = d[n]] /\ d[n] = None
    BY <1>1 DEF IInv, TypeOK, Unnamed
  <2>2. op[n] # "update"
    BY <1>1 DEF IInv, ControlInv, UpdateLabel
  <2>3. QED
    BY <2>1, <2>2, MovesTo DEF NetworkLock, Label, Unnamed
<1>3. Locks(n)
  BY <1>1 DEF Locks, NetworkLock, InDefine
<1>4. Leaves(n)
  BY <1>1 DEF Leaves, IInv, LeakInv, Unfinished, Own, networkVars
<1>5. QED
  BY <1>1, <1>2, <1>3, <1>4 DEF Shape, Affects, Edits, networkVars

\* A definition begins with a bridge that is free, or fails when there is none.
LEMMA DefineShape ==
    ASSUME IInv, NEW n \in Network, NetworkDefine(n)
    PROVE  Shape(n)
<1>1. pc[n] = "net.define" /\ UNCHANGED networkVars /\ mutex = n
  BY DEF NetworkDefine, IInv, MutexInv, InDefine
<1>2. FreeBridges' = FreeBridges /\ Own(n)' = Own(n)
  BY <1>1 DEF FreeBridges, Own, networkVars
<1>3. d[n] = None /\ op[n] # "update"
  BY <1>1 DEF IInv, TypeOK, ControlInv, Unnamed, UpdateLabel
<1>4. CleansUp(n) => ~Own(n)
  BY <1>1, <1>3, NetworkNoneAssumption DEF IInv, LeakInv, Unfinished
<1>5. CASE \E br \in FreeBridges :
             /\ chosen' = [chosen EXCEPT ![n] = br]
             /\ pc' = [pc EXCEPT ![n] = "net.defined"]
             /\ UNCHANGED <<mutex, op, d, attr, state, saved, todo>>
  <2>1. PICK br \in FreeBridges :
             /\ chosen' = [chosen EXCEPT ![n] = br]
             /\ pc' = [pc EXCEPT ![n] = "net.defined"]
             /\ UNCHANGED <<mutex, op, d, attr, state, saved, todo>>
    BY <1>5
  <2>2. pc'[n] = "net.defined" /\ chosen'[n] \in FreeBridges /\ br \in Bridge
    BY <2>1 DEF IInv, TypeOK, FreeBridges
  <2>3. Moves(n)
    <3>1. d' = [d EXCEPT ![n] = d[n]] /\ todo' = [todo EXCEPT ![n] = todo[n]]
          /\ todo[n] \in SUBSET IP
      BY <2>1 DEF IInv, TypeOK
    <3>2. QED
      BY <1>3, <2>1, <2>2, <3>1 DEF Moves, Label, Unnamed
  <2>4. Locks(n)
    BY <1>1, <2>1, <2>2 DEF Locks, InDefine
  <2>5. Leaves(n)
    BY <1>1, <1>2, <1>4, <2>2 DEF Leaves
  <2>6. QED
    BY <1>1, <2>3, <2>4, <2>5 DEF Shape, Affects, Edits, networkVars
<1>6. CASE mutex' = None /\ ReturnWith(n, d[n], attr[n])
  <2>1. Ends(n) /\ pc'[n] = "idle" /\ d'[n] = d[n]
    BY <1>6, ReturnEnds DEF IInv, TypeOK
  <2>2. Locks(n) /\ Leaves(n)
    BY <1>1, <1>2, <1>4, <1>6, <2>1 DEF Locks, Leaves, InDefine
  <2>3. QED
    BY <1>1, <2>1, <2>2 DEF Shape, Affects, Edits, networkVars
<1>7. QED
  BY <1>5, <1>6 DEF NetworkDefine

\* A definition that has succeeded is not finished; one that has failed is nothing.
LEMMA DefinedShape ==
    ASSUME IInv, NEW n \in Network, NetworkDefined(n)
    PROVE  Shape(n)
<1>1. pc[n] = "net.defined" /\ mutex = n /\ mutex' = None
  BY DEF NetworkDefined, IInv, MutexInv, InDefine
<1>2. d[n] = None /\ op[n] # "update"
  BY <1>1 DEF IInv, TypeOK, ControlInv, Unnamed, UpdateLabel
<1>3. CleansUp(n) => ~Own(n)
  BY <1>1, <1>2, NetworkNoneAssumption DEF IInv, LeakInv, Unfinished
<1>4. CASE /\ NetworkDefineXML(n, chosen[n], attr[n])
           /\ pc' = [pc EXCEPT ![n] = "net.start"]
           /\ UNCHANGED <<op, d, attr, state, saved, chosen, todo>>
  <2>1. pc'[n] = "net.start"
    BY <1>4 DEF IInv, TypeOK
  <2>2. Moves(n)
    <3>1. d' = [d EXCEPT ![n] = d[n]]
      BY <1>4 DEF IInv, TypeOK
    <3>2. QED
      BY <1>2, <1>4, <3>1, MovesTo DEF Label, Unnamed
  <2>3. Locks(n) /\ Leaves(n)
    BY <1>1, <2>1 DEF Locks, Leaves, InDefine, Unfinished
  <2>4. QED
    BY <1>1, <1>2, <1>4, <2>2, <2>3 DEF Shape, Affects, Edits
<1>5. CASE ReturnWith(n, d[n], attr[n]) /\ UNCHANGED networkVars
  <2>1. Ends(n) /\ pc'[n] = "idle" /\ d'[n] = d[n]
    BY <1>5, ReturnEnds DEF IInv, TypeOK
  <2>2. Own(n)' = Own(n)
    BY <1>5 DEF Own, networkVars
  <2>3. Locks(n) /\ Leaves(n)
    BY <1>1, <1>3, <2>1, <2>2 DEF Locks, Leaves, InDefine
  <2>4. QED
    BY <1>1, <1>5, <2>1, <2>3 DEF Shape, Affects, Edits, networkVars
<1>6. QED
  BY <1>1, <1>4, <1>5 DEF NetworkDefined

\* A start that fails leaves the network as it was, or running.
LEMMA StartFailsShape ==
    ASSUME IInv, NEW n \in Network, StartFails(n)
    PROVE  UNCHANGED networkVars \/ (Alters(n) /\ hosts' = hosts)
BY CallsAlter DEF StartFails, IInv, TypeOK

\* The network that has started gets its id; the one that has not goes to the cleanup.
LEMMA StartShape ==
    ASSUME IInv, NEW n \in Network, NetworkStart(n)
    PROVE  Shape(n)
<1>1. pc[n] = "net.start" /\ mutex' = mutex
  BY DEF NetworkStart, Goto
<1>2. d[n] = None /\ op[n] # "update"
  BY <1>1 DEF IInv, TypeOK, ControlInv, Unnamed, UpdateLabel
<1>3. Affects(n)
  BY CallsAlter, StartFailsShape DEF NetworkStart, Affects, IInv, TypeOK
<1>4. CASE /\ pc' = [pc EXCEPT ![n] = "net.wait"]
           /\ d' = [d EXCEPT ![n] = n]
           /\ UNCHANGED <<mutex, op, attr, state, saved, chosen, todo>>
  <2>1. Moves(n) /\ pc'[n] = "net.wait" /\ d'[n] = n
    BY <1>2, <1>4, MovesTo, NetworkNoneAssumption DEF Label, Unnamed
  <2>2. Locks(n) /\ Leaves(n)
    BY <1>1, <2>1 DEF Locks, Leaves, InDefine
  <2>3. QED
    BY <1>1, <1>2, <1>3, <2>1, <2>2 DEF Shape, Edits
<1>5. CASE Goto(n, "net.stop")
  <2>1. Moves(n) /\ pc'[n] = "net.stop"
    BY <1>1, <1>5, GotoMoves DEF Label, Unnamed, UpdateLabel
  <2>2. Locks(n) /\ Leaves(n)
    BY <1>1, <2>1 DEF Locks, Leaves, InDefine, Unfinished
  <2>3. QED
    BY <1>1, <1>2, <1>3, <2>1, <2>2 DEF Shape, Edits
<1>6. QED
  BY <1>4, <1>5 DEF NetworkStart

\* The cleanup stops the network if it can be stopped.
LEMMA CleanupStopShape ==
    ASSUME IInv, NEW n \in Network, CleanupStop(n)
    PROVE  Shape(n)
<1>1. pc[n] = "net.stop" /\ mutex' = mutex /\ Goto(n, "net.undefine")
  BY DEF CleanupStop, Goto
<1>2. op[n] # "update"
  BY <1>1 DEF IInv, ControlInv, UpdateLabel
<1>3. Affects(n)
  BY CallsAlter DEF CleanupStop, Affects, IInv, TypeOK
<1>4. Moves(n) /\ pc'[n] = "net.undefine"
  BY <1>1, GotoMoves DEF Label, Unnamed, UpdateLabel
<1>5. CleansUp(n) => ~Active(n)'
  <2>1. CASE NetworkDestroy(n)
    BY <2>1 DEF NetworkDestroy, Vanishes, Active, Own, IInv, TypeOK, NetworkTypeOK
  <2>2. CASE UNCHANGED networkVars /\ (~Active(n) \/ MayFail(n, "destroy"))
    BY <2>2 DEF Active, Own, networkVars, CleansUp, MayFail
  <2>3. QED
    BY <2>1, <2>2 DEF CleanupStop
<1>6. Locks(n) /\ Leaves(n)
  BY <1>1, <1>4, <1>5 DEF Locks, Leaves, InDefine, Unfinished
<1>7. QED
  BY <1>1, <1>2, <1>3, <1>4, <1>6 DEF Shape, Edits

\* The cleanup undefines the network, which is stopped, and it is gone.
LEMMA CleanupUndefineShape ==
    ASSUME IInv, NEW n \in Network, CleanupUndefine(n)
    PROVE  Shape(n)
<1>1. pc[n] = "net.undefine" /\ mutex' = mutex /\ Return(n, d[n])
  BY DEF CleanupUndefine, Return
<1>2. op[n] # "update"
  BY <1>1 DEF IInv, ControlInv, UpdateLabel
<1>3. Affects(n)
  BY CallsAlter DEF CleanupUndefine, Affects, IInv, TypeOK
<1>4. Ends(n) /\ pc'[n] = "idle"
  BY <1>1, ReturnEnds DEF Return, IInv, TypeOK
<1>5. CleansUp(n) => ~Own(n)'
  <2>1. SUFFICES ASSUME CleansUp(n)
                 PROVE  ~Own(n)'
    OBVIOUS
  <2>2. ~Active(n)
    BY <1>1, <2>1 DEF IInv, LeakInv
  <2>3. CASE NetworkUndefine(n)
    BY <2>2, <2>3 DEF NetworkUndefine, CanUndefine, Vanishes, Active, Own, IInv, TypeOK,
                      NetworkTypeOK
  <2>4. CASE UNCHANGED networkVars /\ ~CanUndefine(n)
    BY <2>2, <2>4 DEF CanUndefine, Active, Own, networkVars
  <2>5. QED
    BY <2>1, <2>3, <2>4 DEF CleanupUndefine, CleansUp, MayFail
<1>6. Locks(n) /\ Leaves(n)
  BY <1>1, <1>4, <1>5 DEF Locks, Leaves, InDefine
<1>7. QED
  BY <1>1, <1>2, <1>3, <1>4, <1>6 DEF Shape, Edits

\* A step of a handler whose network has its id keeps the id.
LEMMA NamedShape ==
    ASSUME IInv, NEW n \in Network, pc[n] \notin Unnamed \union {"idle"},
           mutex' = mutex,
           UNCHANGED networkVars \/ Alters(n) \/ (Own(n) /\ Vanishes(n)),
           Moves(n) \/ Ends(n),
           pc'[n] \notin {"net.define", "net.defined", "net.undefine"},
           d'[n] = d[n],
           Edits(n)
    PROVE  Shape(n)
<1>1. d[n] = n
  BY DEF IInv, TypeOK
<1>2. Locks(n) /\ Leaves(n)
  BY <1>1 DEF Locks, Leaves, InDefine, Unnamed
<1>3. QED
  BY <1>2 DEF Shape, Affects

\* A loop of updateDNSHosts begins or goes on.
LEMMA LoopMoves ==
    ASSUME IInv, NEW n \in Network, pc[n] \in UpdateLabel,
           NEW label \in {"netup.delete", "netup.add"}, NEW entries \in SUBSET IP,
           \A ip \in entries : saved[n][ip] # attr[n][ip],
           BeginLoop(n, label, entries)
    PROVE  Moves(n) /\ pc'[n] = label /\ d'[n] = d[n]
<1>1. d' = [d EXCEPT ![n] = d[n]] /\ d[n] = n /\ n # None
  BY NetworkNoneAssumption DEF BeginLoop, IInv, TypeOK, Unnamed, UpdateLabel
<1>2. \E br \in Bridge \union {None} : chosen' = [chosen EXCEPT ![n] = br]
  BY DEF BeginLoop, IInv, TypeOK
<1>3. \E id \in {d[n], n} : /\ d' = [d EXCEPT ![n] = id]
                            /\ id = None <=> label \in Unnamed
  BY <1>1 DEF Unnamed
<1>4. \E e \in SUBSET IP :
         /\ todo' = [todo EXCEPT ![n] = e]
         /\ label \in {"netup.delete", "netup.add"} =>
              \A ip \in e : saved[n][ip] # attr[n][ip]
  BY DEF BeginLoop
<1>5. label \in Label \ {"idle"} /\ label \in UpdateLabel
  BY DEF Label, UpdateLabel
<1>6. Moves(n)
  BY <1>2, <1>3, <1>4, <1>5 DEF Moves, BeginLoop
<1>7. QED
  BY <1>1, <1>6 DEF BeginLoop, IInv, TypeOK

\* An update starts a network that does not run, and begins to remove hosts.
LEMMA UpdateStartShape ==
    ASSUME IInv, NEW n \in Network, UpdateStart(n)
    PROVE  Shape(n)
<1>1. pc[n] = "netup.start" /\ mutex' = mutex
  BY DEF UpdateStart, Goto, Return
<1>2. UNCHANGED networkVars \/ (Alters(n) /\ hosts' = hosts)
  BY CallsAlter, StartFailsShape DEF UpdateStart, IInv, TypeOK
<1>3. Edits(n)
  BY <1>2 DEF Edits, networkVars
<1>4. CASE Goto(n, "netup.autostart")
  <2>1. Moves(n) /\ pc'[n] = "netup.autostart" /\ d' = d
    BY <1>1, <1>4, GotoMoves DEF Label, Unnamed, UpdateLabel
  <2>2. QED
    BY <1>1, <1>2, <1>3, <2>1, NamedShape DEF Unnamed
<1>5. CASE Return(n, d[n])
  <2>1. Ends(n) /\ pc'[n] = "idle" /\ d'[n] = d[n]
    BY <1>5, ReturnEnds DEF Return, IInv, TypeOK
  <2>2. QED
    BY <1>1, <1>2, <1>3, <2>1, NamedShape DEF Unnamed
<1>6. QED
  BY <1>4, <1>5 DEF UpdateStart

LEMMA UpdateAutostartShape ==
    ASSUME IInv, NEW n \in Network, UpdateAutostart(n)
    PROVE  Shape(n)
<1>1. pc[n] = "netup.autostart" /\ mutex' = mutex /\ UNCHANGED networkVars
  BY DEF UpdateAutostart, BeginLoop, Return
<1>2. Edits(n)
  BY <1>1 DEF Edits, networkVars
<1>3. CASE BeginLoop(n, "netup.delete", Removed(n))
  <2>1. Removed(n) \in SUBSET IP /\ \A ip \in Removed(n) : saved[n][ip] # attr[n][ip]
    BY DEF Removed
  <2>2. Moves(n) /\ pc'[n] = "netup.delete" /\ d'[n] = d[n]
    BY <1>1, <1>3, <2>1, LoopMoves DEF UpdateLabel
  <2>3. QED
    BY <1>1, <1>2, <2>2, NamedShape DEF Unnamed
<1>4. CASE Return(n, d[n])
  <2>1. Ends(n) /\ pc'[n] = "idle" /\ d'[n] = d[n]
    BY <1>4, ReturnEnds DEF Return, IInv, TypeOK
  <2>2. QED
    BY <1>1, <1>2, <2>1, NamedShape DEF Unnamed
<1>5. QED
  BY <1>3, <1>4 DEF UpdateAutostart

\* An error in a loop, or the end of the last one.
LEMMA LoopReturnShape ==
    ASSUME IInv, NEW n \in Network, pc[n] \in {"netup.delete", "netup.add"},
           Return(n, d[n]), UNCHANGED networkVars
    PROVE  Shape(n)
<1>1. Ends(n) /\ pc'[n] = "idle" /\ d'[n] = d[n] /\ mutex' = mutex
  BY ReturnEnds DEF Return, IInv, TypeOK
<1>2. Edits(n)
  BY DEF Edits, networkVars
<1>3. QED
  BY <1>1, <1>2, NamedShape DEF Unnamed

\* An entry of a loop, done: the entries that are left still change.
LEMMA LoopStepShape ==
    ASSUME IInv, NEW n \in Network, pc[n] \in {"netup.delete", "netup.add"},
           NEW ip \in todo[n], Alters(n), NEW names,
           hosts' = [hosts EXCEPT ![n][ip] = names],
           BeginLoop(n, pc[n], todo[n] \ {ip})
    PROVE  Shape(n)
<1>1. /\ todo[n] \ {ip} \in SUBSET IP
      /\ \A i \in todo[n] : saved[n][i] # attr[n][i]
  BY DEF IInv, TypeOK, TodoInv
<1>2. pc[n] \in UpdateLabel /\ mutex' = mutex
  BY DEF UpdateLabel, BeginLoop
<1>3. \A i \in todo[n] \ {ip} : saved[n][i] # attr[n][i]
  BY <1>1
<1>4. Moves(n) /\ pc'[n] = pc[n] /\ d'[n] = d[n]
  BY <1>1, <1>2, <1>3, LoopMoves
<1>5. Edits(n)
  BY <1>1 DEF Edits, IInv, TypeOK, NetworkTypeOK, Table
<1>6. QED
  BY <1>2, <1>4, <1>5, NamedShape DEF Unnamed

\* The deletions of an update.
LEMMA UpdateDeleteShape ==
    ASSUME IInv, NEW n \in Network, UpdateDelete(n)
    PROVE  Shape(n)
<1>1. pc[n] = "netup.delete" /\ todo[n] \subseteq IP
  BY DEF UpdateDelete, IInv, TypeOK
<1>2. CASE \E ip \in todo[n] :
             DeleteHost(n, ip) /\ BeginLoop(n, "netup.delete", todo[n] \ {ip})
  <2>1. PICK ip \in todo[n] :
             DeleteHost(n, ip) /\ BeginLoop(n, "netup.delete", todo[n] \ {ip})
    BY <1>2
  <2>2. Alters(n)
    BY <1>1, <2>1, CallsAlter DEF IInv, TypeOK
  <2>3. hosts' = [hosts EXCEPT ![n][ip] = {}]
    BY <2>1 DEF DeleteHost
  <2>4. QED
    BY <1>1, <2>1, <2>2, <2>3, LoopStepShape
<1>3. CASE ReturnError(n)
  BY <1>1, <1>3, LoopReturnShape DEF ReturnError
<1>4. CASE BeginLoop(n, "netup.add", Added(n)) /\ UNCHANGED networkVars
  <2>1. Added(n) \in SUBSET IP /\ \A ip \in Added(n) : saved[n][ip] # attr[n][ip]
    BY DEF Added
  <2>2. pc[n] \in UpdateLabel /\ mutex' = mutex
    BY <1>1, <1>4 DEF UpdateLabel, BeginLoop
  <2>3. Moves(n) /\ pc'[n] = "netup.add" /\ d'[n] = d[n]
    BY <1>4, <2>1, <2>2, LoopMoves
  <2>4. Edits(n)
    BY <1>4 DEF Edits, networkVars
  <2>5. QED
    BY <1>1, <1>4, <2>2, <2>3, <2>4, NamedShape DEF Unnamed
<1>5. QED
  BY <1>2, <1>3, <1>4 DEF UpdateDelete

\* The additions of an update.
LEMMA UpdateAddShape ==
    ASSUME IInv, NEW n \in Network, UpdateAdd(n)
    PROVE  Shape(n)
<1>1. pc[n] = "netup.add" /\ todo[n] \subseteq IP
  BY DEF UpdateAdd, IInv, TypeOK
<1>2. CASE \E ip \in todo[n] :
             AddHost(n, ip, attr[n][ip]) /\ BeginLoop(n, "netup.add", todo[n] \ {ip})
  <2>1. PICK ip \in todo[n] :
             AddHost(n, ip, attr[n][ip]) /\ BeginLoop(n, "netup.add", todo[n] \ {ip})
    BY <1>2
  <2>2. attr[n][ip] \in SUBSET Host /\ ip \in IP
    BY <1>1 DEF IInv, TypeOK, Table
  <2>3. Alters(n)
    BY <2>1, <2>2, CallsAlter DEF IInv, TypeOK
  <2>4. hosts' = [hosts EXCEPT ![n][ip] = attr[n][ip]]
    BY <2>1 DEF AddHost
  <2>5. QED
    BY <1>1, <2>1, <2>3, <2>4, LoopStepShape
<1>3. CASE ReturnError(n)
  BY <1>1, <1>3, LoopReturnShape DEF ReturnError
<1>4. CASE Return(n, d[n]) /\ UNCHANGED networkVars
  BY <1>1, <1>4, LoopReturnShape
<1>5. QED
  BY <1>2, <1>3, <1>4 DEF UpdateAdd

\* A delete stops the network and undefines it.
LEMMA DeleteShape ==
    ASSUME IInv, NEW n \in Network, DeleteDestroy(n) \/ DeleteUndefine(n)
    PROVE  Shape(n)
<1>1. pc[n] \in {"netdel.destroy", "netdel.undefine"} /\ mutex' = mutex
  BY DEF DeleteDestroy, DeleteUndefine, ReturnError, Return, Goto
<1>2. UNCHANGED networkVars \/ Alters(n) \/ (Own(n) /\ Vanishes(n))
  BY CallsAlter DEF DeleteDestroy, DeleteUndefine, ReturnError, IInv, TypeOK
<1>3. Edits(n)
  BY <1>1 DEF Edits, IInv, ControlInv, UpdateLabel
<1>4. ASSUME NEW label \in {"netdel.undefine", "netdel.wait"}, Goto(n, label)
      PROVE  Shape(n)
  <2>1. Moves(n) /\ pc'[n] = label /\ d' = d
    BY <1>1, <1>4, GotoMoves DEF Label, Unnamed, UpdateLabel
  <2>2. QED
    BY <1>1, <1>2, <1>3, <2>1, NamedShape DEF Unnamed
<1>5. CASE ReturnError(n)
  <2>1. Ends(n) /\ pc'[n] = "idle" /\ d'[n] = d[n]
    BY <1>5, ReturnEnds DEF ReturnError, Return, IInv, TypeOK
  <2>2. QED
    BY <1>1, <1>2, <1>3, <2>1, NamedShape DEF Unnamed
<1>6. QED
  BY <1>4, <1>5 DEF DeleteDestroy, DeleteUndefine

\* Every step of a handler has the shape.
LEMMA HandlerShape ==
    ASSUME IInv, NEW n \in Network, HandlerStep(n)
    PROVE  Shape(n)
BY QuietSteps, LockShape, DefineShape, DefinedShape, StartShape, CleanupStopShape,
   CleanupUndefineShape, UpdateStartShape, UpdateAutostartShape, UpdateDeleteShape,
   UpdateAddShape, DeleteShape
DEF HandlerStep

-----------------------------------------------------------------------------
(* The invariant.                                                           *)

\* What becomes of the networks and their bridges.
LEMMA AffectsNetworks ==
    ASSUME IInv, NEW n \in Network, Affects(n)
    PROVE  /\ NetworkTypeOK'
           /\ BridgesDiffer'
           /\ \A m \in Network : bridge'[m] = None <=> nst'[m] = "absent"
           /\ \A m \in Network \ {n} : Own(m)' = Own(m) /\ Active(m)' = Active(m)
           /\ nst[n] # "absent" \/ pc[n] # "net.defined" => FreeBridges \subseteq FreeBridges'
<1>1. CASE UNCHANGED networkVars
  BY <1>1 DEF networkVars, IInv, TypeOK, NetworkTypeOK, BridgeInv, BridgesDiffer, Own, Active,
              FreeBridges
<1>2. CASE Alters(n)
  BY <1>2 DEF Alters, IInv, TypeOK, NetworkTypeOK, BridgeInv, BridgesDiffer, Own, Active,
              FreeBridges
<1>3. CASE Own(n) /\ Vanishes(n)
  <2>1. NoHosts \in Table
    BY DEF NoHosts, Table
  <2>2. NetworkTypeOK'
    BY <1>3, <2>1 DEF Vanishes, IInv, TypeOK, NetworkTypeOK, NetworkState
  <2>3. BridgesDiffer' /\ \A m \in Network : bridge'[m] = None <=> nst'[m] = "absent"
    BY <1>3 DEF Vanishes, IInv, TypeOK, NetworkTypeOK, BridgeInv, BridgesDiffer
  <2>4. \A m \in Network \ {n} : Own(m)' = Own(m) /\ Active(m)' = Active(m)
    BY <1>3 DEF Vanishes, IInv, TypeOK, NetworkTypeOK, Own, Active
  <2>5. FreeBridges \subseteq FreeBridges'
    BY <1>3, NetworkNoneAssumption DEF Vanishes, IInv, TypeOK, NetworkTypeOK, FreeBridges
  <2>6. QED
    BY <2>2, <2>3, <2>4, <2>5
<1>4. CASE pc[n] = "net.defined" /\ NetworkDefineXML(n, chosen[n], attr[n])
  <2>1. chosen[n] \in FreeBridges /\ chosen[n] \in Bridge /\ attr[n] \in Table
    BY <1>4 DEF IInv, BridgeInv, FreeBridges, TypeOK
  <2>2. NetworkTypeOK'
    BY <1>4, <2>1 DEF NetworkDefineXML, IInv, TypeOK, NetworkTypeOK, NetworkState
  <2>3. BridgesDiffer' /\ \A m \in Network : bridge'[m] = None <=> nst'[m] = "absent"
    BY <1>4, <2>1, NetworkNoneAssumption
    DEF NetworkDefineXML, IInv, TypeOK, NetworkTypeOK, BridgeInv, BridgesDiffer, FreeBridges
  <2>4. \A m \in Network \ {n} : Own(m)' = Own(m) /\ Active(m)' = Active(m)
    BY <1>4 DEF NetworkDefineXML, IInv, TypeOK, NetworkTypeOK, Own, Active
  <2>5. QED
    BY <1>4, <2>2, <2>3, <2>4 DEF NetworkDefineXML
<1>5. QED
  BY <1>1, <1>2, <1>3, <1>4 DEF Affects

\* The other handlers stay where they are.
LEMMA OthersStay ==
    ASSUME IInv, NEW n \in Network, Moves(n) \/ Ends(n)
    PROVE  \A m \in Network \ {n} :
               /\ UNCHANGED <<pc[m], op[m], d[m], attr[m]>>
               /\ UNCHANGED <<state[m], saved[m], chosen[m], todo[m]>>
BY DEF Moves, Ends, ReturnWith, IInv, TypeOK

\* The control state of the handler that moves or ends.
LEMMA ShapeControl ==
    ASSUME IInv, NEW n \in Network, Shape(n)
    PROVE  TypeOK' /\ ControlInv' /\ TodoInv'
<1>1. NetworkTypeOK'
  BY AffectsNetworks DEF Shape
<1>2. mutex' \in Network \union {None}
  BY DEF Shape, Locks, IInv, TypeOK
<1>3. CASE Moves(n)
  <2>1. PICK label \in Label \ {"idle"}, id \in {d[n], n}, entries \in SUBSET IP :
          /\ pc' = [pc EXCEPT ![n] = label]
          /\ d' = [d EXCEPT ![n] = id]
          /\ id = None <=> label \in Unnamed
          /\ todo' = [todo EXCEPT ![n] = entries]
          /\ label \in {"netup.delete", "netup.add"} =>
               \A ip \in entries : saved[n][ip] # attr[n][ip]
          /\ op[n] = "update" => label \in UpdateLabel
    BY <1>3 DEF Moves
  <2>2. UNCHANGED <<op, attr, state, saved>>
    BY <1>3 DEF Moves
  <2>3. chosen' \in [Network -> Bridge \union {None}]
    BY <1>3 DEF Moves, IInv, TypeOK
  <2>4. TypeOK'
    BY <1>1, <1>2, <2>1, <2>2, <2>3 DEF TypeOK, IInv
  <2>5. ControlInv'
    BY <2>1, <2>2 DEF Shape, ControlInv, IInv, TypeOK
  <2>6. TodoInv'
    BY <2>1, <2>2 DEF TodoInv, IInv, TypeOK
  <2>7. QED
    BY <2>4, <2>5, <2>6
<1>4. CASE Ends(n)
  <2>1. PICK id \in {d[n], None}, table \in Table : ReturnWith(n, id, table)
    BY <1>4 DEF Ends
  <2>2. NoHosts \in Table /\ "idle" \in Label
    BY DEF NoHosts, Table, Label
  <2>3. TypeOK'
    BY <1>1, <1>2, <2>1, <2>2 DEF ReturnWith, TypeOK, IInv
  <2>4. ControlInv'
    BY <2>1 DEF ReturnWith, ControlInv, IInv, TypeOK
  <2>5. TodoInv'
    BY <2>1 DEF ReturnWith, TodoInv, IInv, TypeOK
  <2>6. QED
    BY <2>3, <2>4, <2>5
<1>5. QED
  BY <1>3, <1>4 DEF Shape

\* A step of a handler keeps the invariant.
LEMMA ShapeKeeps ==
    ASSUME IInv, NEW n \in Network, Shape(n)
    PROVE  IInv'
<1>1. TypeOK' /\ ControlInv' /\ TodoInv'
  BY ShapeControl
<1>2. /\ \A m \in Network \ {n} : UNCHANGED <<pc[m], d[m], chosen[m]>>
      /\ \A m \in Network \ {n} : Own(m)' = Own(m) /\ Active(m)' = Active(m)
  BY OthersStay, AffectsNetworks DEF Shape
<1>3. MutexInv'
  BY <1>2, NetworkNoneAssumption DEF Shape, Locks, MutexInv, IInv
<1>4. BridgeInv'
  <2>1. /\ BridgesDiffer'
        /\ \A m \in Network : bridge'[m] = None <=> nst'[m] = "absent"
        /\ nst[n] # "absent" \/ pc[n] # "net.defined" => FreeBridges \subseteq FreeBridges'
    BY AffectsNetworks DEF Shape
  <2>2. ASSUME pc'[n] = "net.defined"
        PROVE  chosen'[n] \in FreeBridges'
    BY <2>2 DEF Shape, Leaves, FreeBridges, networkVars
  <2>3. ASSUME NEW m \in Network \ {n}, pc'[m] = "net.defined"
        PROVE  chosen'[m] \in FreeBridges'
    <3>1. pc[m] = "net.defined" /\ chosen'[m] = chosen[m] /\ chosen[m] \in FreeBridges
      BY <1>2, <2>3 DEF IInv, BridgeInv
    <3>2. pc[n] # "net.defined"
      BY <3>1 DEF IInv, MutexInv, InDefine
    <3>3. QED
      BY <2>1, <3>1, <3>2
  <2>4. QED
    BY <2>1, <2>2, <2>3 DEF BridgeInv
<1>5. LeakInv'
  <2>1. CleansUp(n)' = CleansUp(n)
    BY DEF CleansUp
  <2>2. ASSUME NEW m \in Network \ {n}, CleansUp(m)
        PROVE  /\ Own(m)' => d'[m] = m \/ pc'[m] \in Unfinished
               /\ pc'[m] = "net.undefine" => ~Active(m)'
    BY <1>2, <2>2 DEF IInv, LeakInv
  <2>3. QED
    BY <2>1, <2>2 DEF Shape, Leaves, LeakInv, CleansUp
<1>6. QED
  BY <1>1, <1>3, <1>4, <1>5 DEF IInv

\* Terraform begins an operation on a network that has none.
LEMMA BeginKeeps ==
    ASSUME IInv, NEW n \in Network,
           BeginCreate(n) \/ BeginRead(n) \/ BeginUpdate(n) \/ BeginDelete(n)
    PROVE  IInv'
<1>1. PICK kind \in {"create", "read", "update", "delete"},
           next \in {"net.prepare", "netread.lookup", "netup.lookup", "netdel.lookup"},
           table \in Table :
        /\ Begin(n, kind, next, table)
        /\ next = "net.prepare" <=> state[n] = None
        /\ kind = "update" => next = "netup.lookup"
  <2>1. saved[n] \in Table /\ Wanted[n] \subseteq Table
    BY NetworkAssumption DEF IInv, TypeOK
  <2>2. QED
    BY <2>1 DEF BeginCreate, BeginRead, BeginUpdate, BeginDelete
<1>2. pc[n] = "idle" /\ d[n] = state[n]
  BY <1>1 DEF Begin, IInv, ControlInv
<1>3. TypeOK'
  BY <1>1, <1>2 DEF Begin, IInv, TypeOK, NetworkTypeOK, networkVars, Label, Unnamed
<1>4. ControlInv'
  BY <1>1 DEF Begin, IInv, TypeOK, ControlInv, UpdateLabel
<1>5. MutexInv'
  BY <1>1, <1>2 DEF Begin, IInv, TypeOK, MutexInv, InDefine
<1>6. BridgeInv'
  BY <1>1 DEF Begin, IInv, TypeOK, BridgeInv, BridgesDiffer, FreeBridges, networkVars
<1>7. LeakInv'
  BY <1>1, <1>2 DEF Begin, IInv, TypeOK, LeakInv, CleansUp, Own, Active, Unfinished, networkVars
<1>8. TodoInv'
  BY <1>1 DEF Begin, IInv, TypeOK, TodoInv
<1>9. QED
  BY <1>3, <1>4, <1>5, <1>6, <1>7, <1>8 DEF IInv

\* Somebody stops, undefines or edits a network.
LEMMA OutsideKeeps ==
    ASSUME IInv, NEW n \in Network, OutsideStop(n) \/ OutsideUndefine(n) \/ OutsideEdit(n)
    PROVE  IInv'
<1>1. Alters(n) \/ (Own(n) /\ Vanishes(n))
  BY CallsAlter DEF OutsideStop, OutsideUndefine, OutsideEdit, IInv, TypeOK
<1>2. UNCHANGED handlerVars
  BY DEF OutsideStop, OutsideUndefine, OutsideEdit
<1>3. /\ NetworkTypeOK'
      /\ BridgesDiffer'
      /\ \A m \in Network : bridge'[m] = None <=> nst'[m] = "absent"
      /\ \A m \in Network \ {n} : Own(m)' = Own(m) /\ Active(m)' = Active(m)
      /\ FreeBridges \subseteq FreeBridges'
  BY <1>1, AffectsNetworks DEF Affects, Alters, Own
<1>4. TypeOK' /\ ControlInv' /\ MutexInv' /\ TodoInv'
  BY <1>2, <1>3 DEF handlerVars, IInv, TypeOK, ControlInv, MutexInv, TodoInv
<1>5. BridgeInv'
  BY <1>2, <1>3 DEF handlerVars, IInv, BridgeInv
<1>6. LeakInv'
  <2>1. Own(n)
    BY <1>1 DEF Alters
  <2>2. ~Active(n) => ~Active(n)'
    BY <2>1 DEF OutsideStop, OutsideUndefine, OutsideEdit, NetworkDestroy, NetworkUndefine,
                CanUndefine, Vanishes, DeleteHost, CanDeleteHost, Active, Own, IInv, TypeOK,
                NetworkTypeOK
  <2>3. QED
    BY <1>2, <1>3, <2>1, <2>2 DEF handlerVars, IInv, LeakInv, CleansUp
<1>7. QED
  BY <1>4, <1>5, <1>6 DEF IInv

LEMMA StutterKeeps == IInv /\ UNCHANGED vars => IInv'
BY DEF vars, networkVars, handlerVars, IInv, TypeOK, NetworkTypeOK, ControlInv, MutexInv, InDefine,
       BridgeInv, BridgesDiffer, FreeBridges, LeakInv, CleansUp, Own, Active, TodoInv

LEMMA InitEstablishes == Init => IInv
<1> SUFFICES ASSUME Init
             PROVE  IInv
  OBVIOUS
<1>1. NoHosts \in Table
  BY DEF NoHosts, Table
<1>2. NetworkTypeOK
  <2>1. author \in [Network -> Network \union {Foreign, None}]
    BY DEF Init, NetworkInit
  <2>2. nst \in [Network -> NetworkState]
    BY DEF Init, NetworkInit, NetworkState
  <2>3. QED
    BY <1>1, <2>1, <2>2 DEF Init, NetworkInit, NetworkTypeOK
<1>3. TypeOK
  BY <1>1, <1>2 DEF Init, TypeOK, Label
<1>4. ControlInv /\ MutexInv /\ TodoInv
  BY NetworkNoneAssumption DEF Init, ControlInv, MutexInv, InDefine, TodoInv
<1>5. BridgeInv
  BY DEF Init, NetworkInit, BridgeInv, BridgesDiffer
<1>6. LeakInv
  <2>1. \A n \in Network : ~Own(n)
    BY NetworkNoneAssumption DEF Init, NetworkInit, Own
  <2>2. QED
    BY <2>1 DEF Init, LeakInv
<1>7. QED
  BY <1>3, <1>4, <1>5, <1>6 DEF IInv

LEMMA NextKeeps == IInv /\ [Next]_vars => IInv'
<1>1. SUFFICES ASSUME IInv, Next
               PROVE  IInv'
  BY StutterKeeps
<1>2. PICK n \in Network :
        \/ BeginCreate(n) \/ BeginRead(n) \/ BeginUpdate(n) \/ BeginDelete(n)
        \/ HandlerStep(n)
        \/ OutsideStop(n) \/ OutsideUndefine(n) \/ OutsideEdit(n)
  BY <1>1 DEF Next
<1>3. CASE HandlerStep(n)
  BY <1>1, <1>3, HandlerShape, ShapeKeeps
<1>4. QED
  BY <1>1, <1>2, <1>3, BeginKeeps, OutsideKeeps

-----------------------------------------------------------------------------
(* Networks that meet no mishap.                                            *)

ReadLabel == {"netread.lookup", "netread.desc"}
DeleteLabel == {"netdel.lookup", "netdel.active", "netdel.destroy", "netdel.undefine",
                "netdel.wait"}
CreateLabel == Unnamed \union {"net.wait", "net.autostart"}

LabelGood(n) ==
    /\ op[n] = "create" => pc[n] \in CreateLabel \union ReadLabel
    /\ op[n] = "read" => pc[n] \in ReadLabel
    /\ op[n] = "delete" => pc[n] \in DeleteLabel

\* A network that has an id runs until its delete stops it, and no start fails.
RunGood(n) ==
    /\ d[n] = n /\ pc[n] \notin {"netdel.undefine", "netdel.wait"} => Own(n) /\ nst[n] = "active"
    /\ pc[n] \in {"netdel.undefine", "net.start"} => Own(n) /\ nst[n] = "inactive"
    /\ pc[n] = "netdel.wait" => nst[n] = "absent"
    /\ pc[n] \notin {"net.stop", "net.undefine", "netup.start"}

Calm(n) == LabelGood(n) /\ RunGood(n)

CalmInv == IInv /\ \A n \in Network : Mishap[n] = {} => Calm(n)

\* A delete that ends has removed the network.
Removes(n) ==
    /\ Mishap[n] = {}
    /\ op[n] = "delete"
    /\ op'[n] = "none"
    => state'[n] = None /\ nst'[n] = "absent"

-----------------------------------------------------------------------------
(* What a step does to its network.                                         *)

SameState(n) == nst'[n] = nst[n] /\ author'[n] = author[n]

SameIds(n) == op'[n] = op[n] /\ d'[n] = d[n] /\ state'[n] = state[n] /\ saved'[n] = saved[n]

LEMMA GoesTo ==
    ASSUME IInv, NEW n \in Network
    PROVE  /\ \A label \in Label : Goto(n, label) =>
                pc'[n] = label /\ SameIds(n) /\ attr'[n] = attr[n] /\ todo'[n] = todo[n]
           /\ \A label \in Label, entries \in SUBSET IP : BeginLoop(n, label, entries) =>
                pc'[n] = label /\ SameIds(n) /\ attr'[n] = attr[n] /\ todo'[n] = entries
           /\ \A id, table : ReturnWith(n, id, table) =>
                /\ pc'[n] = "idle" /\ op'[n] = "none" /\ d'[n] = id /\ state'[n] = id
                /\ id # None => saved'[n] = table
BY DEF IInv, TypeOK, Goto, BeginLoop, ReturnWith, SameIds

LEMMA NetworkEffects ==
    ASSUME IInv, NEW n \in Network
    PROVE  /\ UNCHANGED networkVars => SameState(n) /\ hosts'[n] = hosts[n]
           /\ NetworkDefineXML(n, chosen[n], attr[n]) =>
                nst'[n] = "inactive" /\ author'[n] = n /\ hosts'[n] = attr[n]
           /\ NetworkCreate(n) =>
                nst'[n] = "active" /\ author'[n] = author[n] /\ hosts'[n] = hosts[n]
           /\ NetworkDestroy(n) /\ nst[n] = "active" =>
                nst'[n] = "inactive" /\ author'[n] = author[n] /\ hosts'[n] = hosts[n]
           /\ NetworkUndefine(n) /\ nst[n] = "inactive" => nst'[n] = "absent"
           /\ \A ip \in IP : DeleteHost(n, ip) =>
                SameState(n) /\ hosts'[n] = [hosts[n] EXCEPT ![ip] = {}]
           /\ \A ip \in IP : AddHost(n, ip, attr[n][ip]) =>
                SameState(n) /\ hosts'[n] = [hosts[n] EXCEPT ![ip] = attr[n][ip]]
<1> USE DEF IInv, TypeOK, NetworkTypeOK, SameState
<1>1. UNCHANGED networkVars => SameState(n) /\ hosts'[n] = hosts[n]
  BY DEF networkVars
<1>2. NetworkDefineXML(n, chosen[n], attr[n]) =>
        nst'[n] = "inactive" /\ author'[n] = n /\ hosts'[n] = attr[n]
  BY DEF NetworkDefineXML
<1>3. NetworkCreate(n) =>
        nst'[n] = "active" /\ author'[n] = author[n] /\ hosts'[n] = hosts[n]
  BY DEF NetworkCreate
<1>4. NetworkDestroy(n) /\ nst[n] = "active" =>
        nst'[n] = "inactive" /\ author'[n] = author[n] /\ hosts'[n] = hosts[n]
  BY DEF NetworkDestroy
<1>5. NetworkUndefine(n) /\ nst[n] = "inactive" => nst'[n] = "absent"
  BY DEF NetworkUndefine, Vanishes
<1>6. \A ip \in IP : DeleteHost(n, ip) =>
        SameState(n) /\ hosts'[n] = [hosts[n] EXCEPT ![ip] = {}]
  BY DEF DeleteHost
<1>7. \A ip \in IP : AddHost(n, ip, attr[n][ip]) =>
        SameState(n) /\ hosts'[n] = [hosts[n] EXCEPT ![ip] = attr[n][ip]]
  BY DEF AddHost
<1>8. QED
  BY <1>1, <1>2, <1>3, <1>4, <1>5, <1>6, <1>7

\* A bridge of one's own is a start that libvirt does not refuse.
LEMMA StartsOnOwnBridge ==
    ASSUME IInv, NEW n \in Network, Own(n), nst[n] = "inactive"
    PROVE  CanCreate(n)
BY DEF IInv, BridgeInv, BridgesDiffer, CanCreate, Own

\* The calls of other networks leave this one alone.
LEMMA OthersCalls ==
    ASSUME IInv, NEW n \in Network, Affects(n)
    PROVE  \A m \in Network \ {n} : SameState(m) /\ hosts'[m] = hosts[m]
<1> USE DEF IInv, TypeOK, NetworkTypeOK, SameState
<1>1. CASE UNCHANGED networkVars
  BY <1>1 DEF networkVars
<1>2. CASE Alters(n)
  BY <1>2 DEF Alters
<1>3. CASE Vanishes(n)
  BY <1>3 DEF Vanishes
<1>4. CASE NetworkDefineXML(n, chosen[n], attr[n])
  BY <1>4 DEF NetworkDefineXML
<1>5. QED
  BY <1>1, <1>2, <1>3, <1>4 DEF Affects

-----------------------------------------------------------------------------
(* The networks run.                                                        *)

\* A step within an operation that leaves the network as it is.
LEMMA CalmGoesOn ==
    ASSUME IInv, NEW n \in Network, Calm(n), pc[n] # "idle",
           SameState(n), NEW label \in Label, pc'[n] = label, SameIds(n),
           label \notin Unfinished \union {"idle", "netup.start", "netdel.undefine", "netdel.wait"},
           pc[n] \notin {"netdel.undefine", "netdel.wait"},
           op[n] = "create" => label \in CreateLabel \union ReadLabel,
           op[n] = "read" => label \in ReadLabel,
           op[n] = "delete" => label \in DeleteLabel
    PROVE  Calm(n)' /\ Removes(n)
<1>1. LabelGood(n)'
  BY DEF LabelGood, SameIds
<1>2. RunGood(n)'
  BY DEF Calm, RunGood, SameState, SameIds, Own, Unfinished
<1>3. Removes(n)
  BY DEF Removes, SameIds, IInv, ControlInv
<1>4. QED
  BY <1>1, <1>2, <1>3 DEF Calm

\* An operation other than a delete ends.
LEMMA CalmEnds ==
    ASSUME IInv, NEW n \in Network, Calm(n), op[n] # "delete",
           pc[n] \notin {"netdel.undefine", "netdel.wait"},
           SameState(n), NEW id \in {d[n], None}, NEW table, ReturnWith(n, id, table)
    PROVE  Calm(n)' /\ Removes(n)
<1>1. pc'[n] = "idle" /\ op'[n] = "none" /\ d'[n] = id
  BY GoesTo
<1>2. n # None
  BY NetworkNoneAssumption
<1>3. Calm(n)'
  BY <1>1, <1>2 DEF Calm, LabelGood, RunGood, SameState, Own
<1>4. QED
  BY <1>3 DEF Removes

LEMMA CalmCreate ==
    ASSUME IInv, NEW n \in Network, Mishap[n] = {}, Calm(n),
           \/ NetworkPrepare(n) \/ NetworkLock(n) \/ NetworkDefine(n) \/ NetworkDefined(n)
           \/ NetworkStart(n) \/ CleanupStop(n) \/ CleanupUndefine(n)
           \/ NetworkWait(n) \/ NetworkAutostart(n)
    PROVE  Calm(n)' /\ Removes(n)
<1> USE DEF Label, Unnamed, CreateLabel, ReadLabel, DeleteLabel, Unfinished
<1>1. pc[n] \in CreateLabel /\ op[n] = "create"
  BY DEF NetworkPrepare, NetworkLock, NetworkDefine, NetworkDefined, NetworkStart,
         CleanupStop, CleanupUndefine, NetworkWait, NetworkAutostart, IInv, TypeOK,
         ControlInv, UpdateLabel, Calm, LabelGood
<1>2. \A call : ~MayFail(n, call)
  BY DEF MayFail
<1>3. ASSUME UNCHANGED networkVars, NEW label \in {"net.lock", "net.autostart", "netread.lookup"},
             Goto(n, label)
      PROVE  Calm(n)' /\ Removes(n)
  BY <1>1, <1>3, GoesTo, NetworkEffects, CalmGoesOn
<1>4. ASSUME UNCHANGED networkVars, NEW table, ReturnWith(n, d[n], table)
      PROVE  Calm(n)' /\ Removes(n)
  BY <1>1, <1>4, NetworkEffects, CalmEnds
<1>5. CASE NetworkPrepare(n)
  BY <1>2, <1>3, <1>5 DEF NetworkPrepare
<1>6. CASE NetworkLock(n)
  <2>1. pc'[n] = "net.define" /\ SameIds(n) /\ SameState(n)
    BY <1>6, NetworkEffects DEF NetworkLock, SameIds, IInv, TypeOK
  <2>2. QED
    BY <1>1, <2>1, CalmGoesOn
<1>7. CASE NetworkDefine(n)
  <2>1. CASE \E br \in FreeBridges :
               /\ chosen' = [chosen EXCEPT ![n] = br]
               /\ pc' = [pc EXCEPT ![n] = "net.defined"]
               /\ UNCHANGED <<mutex, op, d, attr, state, saved, todo>>
    <3>1. pc'[n] = "net.defined" /\ SameIds(n) /\ SameState(n)
      BY <1>7, <2>1, NetworkEffects DEF NetworkDefine, SameIds, IInv, TypeOK
    <3>2. QED
      BY <1>1, <3>1, CalmGoesOn
  <2>2. QED
    BY <1>4, <1>7, <2>1 DEF NetworkDefine
<1>8. CASE NetworkDefined(n)
  <2>1. CASE /\ NetworkDefineXML(n, chosen[n], attr[n])
             /\ pc' = [pc EXCEPT ![n] = "net.start"]
             /\ UNCHANGED <<op, d, attr, state, saved, chosen, todo>>
    <3>1. pc'[n] = "net.start" /\ SameIds(n) /\ nst'[n] = "inactive" /\ author'[n] = n
      BY <2>1, NetworkEffects DEF SameIds, IInv, TypeOK
    <3>2. d[n] = None /\ n # None
      BY <1>8, NetworkNoneAssumption DEF NetworkDefined, IInv, TypeOK
    <3>3. Calm(n)'
      BY <1>1, <3>1, <3>2 DEF Calm, LabelGood, RunGood, Own, SameIds
    <3>4. QED
      BY <1>1, <3>3 DEF Removes
  <2>2. QED
    BY <1>4, <1>8, <2>1 DEF NetworkDefined
<1>9. CASE NetworkStart(n)
  <2>1. Own(n) /\ nst[n] = "inactive"
    BY <1>9 DEF NetworkStart, Calm, RunGood
  <2>2. ~StartFails(n)
    BY <1>2, <2>1, StartsOnOwnBridge DEF StartFails
  <2>3. /\ pc'[n] = "net.wait" /\ op'[n] = op[n] /\ nst'[n] = "active" /\ author'[n] = n
    BY <1>9, <2>1, <2>2, NetworkEffects DEF NetworkStart, Own, IInv, TypeOK
  <2>4. Calm(n)'
    BY <1>1, <2>3 DEF Calm, LabelGood, RunGood, Own
  <2>5. QED
    BY <1>1, <2>4 DEF Removes
<1>10. CASE NetworkWait(n)
  <2>1. Active(n)
    BY <1>10, NetworkNoneAssumption DEF NetworkWait, Calm, RunGood, Active, IInv, TypeOK
  <2>2. QED
    BY <1>2, <1>3, <1>10, <2>1 DEF NetworkWait
<1>11. CASE NetworkAutostart(n)
  BY <1>3, <1>4, <1>11 DEF NetworkAutostart, Return
<1>12. QED
  BY <1>5, <1>6, <1>7, <1>8, <1>9, <1>10, <1>11
  DEF CleanupStop, CleanupUndefine, Calm, RunGood

LEMMA CalmRead ==
    ASSUME IInv, NEW n \in Network, Calm(n), NetworkReadLookup(n) \/ NetworkReadDesc(n)
    PROVE  Calm(n)' /\ Removes(n)
<1> USE DEF Label, Unnamed, CreateLabel, ReadLabel, DeleteLabel, Unfinished
<1>1. pc[n] \in ReadLabel /\ op[n] \in {"create", "read"} /\ SameState(n)
  BY NetworkEffects
  DEF NetworkReadLookup, NetworkReadDesc, IInv, TypeOK, ControlInv, UpdateLabel, Calm, LabelGood
<1>2. ASSUME NEW id \in {d[n], None}, NEW table, ReturnWith(n, id, table)
      PROVE  Calm(n)' /\ Removes(n)
  BY <1>1, <1>2, CalmEnds
<1>3. CASE NetworkReadLookup(n)
  <2>1. CASE Goto(n, "netread.desc")
    BY <1>1, <2>1, GoesTo, CalmGoesOn
  <2>2. QED
    BY <1>2, <1>3, <2>1 DEF NetworkReadLookup, Return
<1>4. CASE NetworkReadDesc(n)
  BY <1>2, <1>4 DEF NetworkReadDesc
<1>5. QED
  BY <1>3, <1>4

LEMMA CalmUpdate ==
    ASSUME IInv, NEW n \in Network, Mishap[n] = {}, Calm(n),
           \/ UpdateLookup(n) \/ UpdateActive(n) \/ UpdateStart(n) \/ UpdateAutostart(n)
           \/ UpdateDelete(n) \/ UpdateAdd(n)
    PROVE  Calm(n)' /\ Removes(n)
<1> USE DEF Label, Unnamed, CreateLabel, ReadLabel, DeleteLabel, Unfinished, UpdateLabel
<1>1. pc[n] \in UpdateLabel /\ op[n] = "update" /\ d[n] = n
  BY DEF UpdateLookup, UpdateActive, UpdateStart, UpdateAutostart, UpdateDelete, UpdateAdd,
         IInv, TypeOK, ControlInv, Calm, LabelGood
<1>2. Active(n) /\ pc[n] # "netup.start"
  BY <1>1 DEF Calm, RunGood, Active
<1>3. SameState(n)
  <2>1. todo[n] \subseteq IP
    BY DEF IInv, TypeOK
  <2>2. QED
    BY <1>2, <2>1, NetworkEffects
    DEF UpdateLookup, UpdateActive, UpdateStart, UpdateAutostart, UpdateDelete, UpdateAdd,
        ReturnError
<1>4. CASE \E id \in {d[n], None}, table \in Table : ReturnWith(n, id, table)
  BY <1>1, <1>3, <1>4, CalmEnds
<1>5. CASE \E label \in UpdateLabel \ {"netup.start"} : pc'[n] = label /\ SameIds(n)
  BY <1>1, <1>3, <1>5, CalmGoesOn
<1>6. ASSUME NEW label \in UpdateLabel \ {"netup.start"}, Goto(n, label)
      PROVE  Calm(n)' /\ Removes(n)
  BY <1>5, <1>6, GoesTo
<1>7. ASSUME NEW label \in {"netup.delete", "netup.add"}, NEW entries \in SUBSET IP,
             BeginLoop(n, label, entries)
      PROVE  Calm(n)' /\ Removes(n)
  BY <1>5, <1>7, GoesTo
<1>8. ASSUME NEW id \in {d[n], None}, Return(n, id)
      PROVE  Calm(n)' /\ Removes(n)
  BY <1>4, <1>8 DEF Return, IInv, TypeOK
<1>9. CASE UpdateLookup(n) \/ UpdateActive(n) \/ UpdateStart(n)
  BY <1>2, <1>6, <1>8, <1>9 DEF UpdateLookup, UpdateActive, UpdateStart
<1>10. CASE UpdateAutostart(n)
  BY <1>7, <1>8, <1>10 DEF UpdateAutostart, Removed
<1>11. /\ \A ip : todo[n] \ {ip} \in SUBSET IP
       /\ Added(n) \in SUBSET IP
  BY DEF IInv, TypeOK, Added
<1>12. CASE UpdateDelete(n)
  <2>1. CASE \E ip \in todo[n] : BeginLoop(n, "netup.delete", todo[n] \ {ip})
    BY <1>7, <1>11, <2>1
  <2>2. CASE ReturnError(n)
    BY <1>8, <2>2 DEF ReturnError
  <2>3. CASE BeginLoop(n, "netup.add", Added(n))
    BY <1>7, <1>11, <2>3
  <2> QED
    BY <1>12, <2>1, <2>2, <2>3 DEF UpdateDelete
<1>13. CASE UpdateAdd(n)
  <2>1. CASE \E ip \in todo[n] : BeginLoop(n, "netup.add", todo[n] \ {ip})
    BY <1>7, <1>11, <2>1
  <2>2. CASE \E id \in {d[n], None} : Return(n, id)
    BY <1>8, <2>2
  <2> QED
    BY <1>13, <2>1, <2>2 DEF UpdateAdd, ReturnError
<1>14. QED
  BY <1>9, <1>10, <1>12, <1>13

\* A delete goes through without an error.
LEMMA CalmDelete ==
    ASSUME IInv, NEW n \in Network, Mishap[n] = {}, Calm(n),
           \/ DeleteLookup(n) \/ DeleteActive(n) \/ DeleteDestroy(n) \/ DeleteUndefine(n)
           \/ DeleteWait(n)
    PROVE  Calm(n)' /\ Removes(n)
<1> USE DEF Label, Unnamed, CreateLabel, ReadLabel, DeleteLabel, Unfinished, UpdateLabel
<1>1. pc[n] \in DeleteLabel /\ op[n] = "delete" /\ d[n] = n
  BY DEF DeleteLookup, DeleteActive, DeleteDestroy, DeleteUndefine, DeleteWait,
         IInv, TypeOK, ControlInv, Calm, LabelGood
<1>2. \A call : ~MayFail(n, call)
  BY DEF MayFail
<1>3. pc[n] \notin {"netdel.undefine", "netdel.wait"} => Own(n) /\ Active(n) /\ nst[n] = "active"
  BY <1>1 DEF Calm, RunGood, Active
<1>4. CASE DeleteLookup(n)
  BY <1>1, <1>2, <1>3, <1>4, GoesTo, NetworkEffects, CalmGoesOn DEF DeleteLookup
<1>5. CASE DeleteActive(n)
  BY <1>1, <1>2, <1>3, <1>5, GoesTo, NetworkEffects, CalmGoesOn DEF DeleteActive
<1>6. CASE DeleteDestroy(n)
  <2>1. NetworkDestroy(n) /\ Goto(n, "netdel.undefine") /\ nst[n] = "active" /\ author[n] = n
    BY <1>2, <1>3, <1>6 DEF DeleteDestroy, Own
  <2>2. pc'[n] = "netdel.undefine" /\ SameIds(n) /\ nst'[n] = "inactive" /\ author'[n] = n
    BY <2>1, GoesTo, NetworkEffects
  <2>3. QED
    BY <1>1, <2>2 DEF Calm, LabelGood, RunGood, Own, SameIds, Removes
<1>7. CASE DeleteUndefine(n)
  <2>1. Own(n) /\ nst[n] = "inactive"
    BY <1>7 DEF DeleteUndefine, Calm, RunGood
  <2>2. NetworkUndefine(n) /\ Goto(n, "netdel.wait")
    BY <1>2, <1>7, <2>1 DEF DeleteUndefine, CanUndefine
  <2>3. pc'[n] = "netdel.wait" /\ SameIds(n) /\ nst'[n] = "absent"
    BY <2>1, <2>2, GoesTo, NetworkEffects
  <2>4. QED
    BY <1>1, <2>3 DEF Calm, LabelGood, RunGood, SameIds, Removes
<1>8. CASE DeleteWait(n)
  <2>1. nst[n] = "absent" /\ ~Own(n)
    BY <1>8 DEF DeleteWait, Calm, RunGood, Own
  <2>2. Return(n, None) /\ SameState(n)
    BY <1>2, <1>8, <2>1, NetworkEffects DEF DeleteWait
  <2>3. pc'[n] = "idle" /\ op'[n] = "none" /\ d'[n] = None /\ state'[n] = None
    BY <2>2, GoesTo DEF Return
  <2>4. nst'[n] = "absent" /\ n # None
    BY <2>1, <2>2, NetworkNoneAssumption DEF SameState
  <2>5. QED
    BY <2>3, <2>4 DEF Calm, LabelGood, RunGood, Removes
<1>9. QED
  BY <1>4, <1>5, <1>6, <1>7, <1>8

LEMMA CalmBegin ==
    ASSUME IInv, NEW n \in Network, Calm(n),
           BeginCreate(n) \/ BeginRead(n) \/ BeginUpdate(n) \/ BeginDelete(n)
    PROVE  Calm(n)' /\ Removes(n)
<1> USE DEF Label, Unnamed, CreateLabel, ReadLabel, DeleteLabel, Unfinished
<1>1. PICK kind \in {"create", "read", "update", "delete"},
           next \in {"net.prepare", "netread.lookup", "netup.lookup", "netdel.lookup"},
           table \in Table :
        /\ Begin(n, kind, next, table)
        /\ next = "net.prepare" <=> kind = "create"
        /\ kind = "read" => next = "netread.lookup"
        /\ kind = "delete" => next = "netdel.lookup"
  BY NetworkAssumption DEF BeginCreate, BeginRead, BeginUpdate, BeginDelete, IInv, TypeOK
<1>2. /\ pc'[n] = next /\ op'[n] = kind /\ d'[n] = d[n] /\ SameState(n)
      /\ pc[n] = "idle" /\ op[n] = "none"
  BY <1>1, NetworkEffects DEF Begin, IInv, TypeOK, ControlInv
<1>3. QED
  BY <1>1, <1>2 DEF Calm, LabelGood, RunGood, Removes, SameState, Own

\* What a network is calm about, no step of another one disturbs.
LEMMA CalmOthers ==
    ASSUME IInv, NEW n \in Network, Affects(n), Moves(n) \/ Ends(n),
           NEW m \in Network \ {n}, Calm(m)
    PROVE  Calm(m)' /\ Removes(m)
<1>1. SameState(m)
  BY OthersCalls
<1>2. pc'[m] = pc[m] /\ op'[m] = op[m] /\ d'[m] = d[m]
  BY OthersStay
<1>3. QED
  BY <1>1, <1>2 DEF Calm, LabelGood, RunGood, SameState, Own, Removes

LEMMA NextCalm ==
    ASSUME CalmInv, Next
    PROVE  CalmInv' /\ \A n \in Network : Removes(n)
<1>1. IInv /\ IInv'
  BY NextKeeps DEF CalmInv
<1>2. PICK n \in Network :
        \/ BeginCreate(n) \/ BeginRead(n) \/ BeginUpdate(n) \/ BeginDelete(n)
        \/ HandlerStep(n)
        \/ OutsideStop(n) \/ OutsideUndefine(n) \/ OutsideEdit(n)
  BY DEF Next
<1>3. ASSUME Mishap[n] = {}
      PROVE  Calm(n)' /\ Removes(n)
  <2>1. Calm(n)
    BY <1>3 DEF CalmInv
  <2>2. CASE HandlerStep(n)
    BY <1>1, <1>3, <2>1, <2>2, CalmCreate, CalmRead, CalmUpdate, CalmDelete DEF HandlerStep
  <2>3. QED
    BY <1>1, <1>2, <1>3, <2>1, <2>2, CalmBegin DEF OutsideStop, OutsideUndefine, OutsideEdit
<1>4. ASSUME NEW m \in Network \ {n}, Mishap[m] = {}
      PROVE  Calm(m)' /\ Removes(m)
  <2>1. Calm(m)
    BY <1>4 DEF CalmInv
  <2>2. CASE HandlerStep(n)
    BY <1>1, <2>1, <2>2, HandlerShape, CalmOthers DEF Shape
  <2>3. CASE BeginCreate(n) \/ BeginRead(n) \/ BeginUpdate(n) \/ BeginDelete(n)
    <3>1. /\ pc'[m] = pc[m] /\ op'[m] = op[m] /\ d'[m] = d[m]
          /\ UNCHANGED networkVars
      BY <1>1, <2>3 DEF BeginCreate, BeginRead, BeginUpdate, BeginDelete, Begin, IInv, TypeOK
    <3>2. QED
      BY <2>1, <3>1 DEF networkVars, Calm, LabelGood, RunGood, Own, Removes
  <2>4. CASE OutsideStop(n) \/ OutsideUndefine(n) \/ OutsideEdit(n)
    <3>1. UNCHANGED handlerVars /\ Affects(n)
      BY <1>1, <2>4, CallsAlter
      DEF OutsideStop, OutsideUndefine, OutsideEdit, Affects, IInv, TypeOK
    <3>2. SameState(m)
      BY <1>1, <3>1, OthersCalls
    <3>3. QED
      BY <2>1, <3>1, <3>2 DEF handlerVars, Calm, LabelGood, RunGood, SameState, Own, Removes
  <2>5. QED
    BY <1>2, <2>2, <2>3, <2>4
<1>5. QED
  BY <1>1, <1>3, <1>4 DEF CalmInv, Removes

LEMMA CalmInvariance == Spec => []CalmInv
<1>1. Init => CalmInv
  <2>1. SUFFICES ASSUME Init PROVE \A n \in Network : Calm(n)
    BY InitEstablishes DEF CalmInv
  <2>2. QED
    BY <2>1, NetworkNoneAssumption DEF Init, Calm, LabelGood, RunGood
<1>2. CalmInv /\ [Next]_vars => CalmInv'
  <2>1. SUFFICES ASSUME CalmInv, UNCHANGED vars PROVE CalmInv'
    BY NextCalm
  <2>2. IInv'
    BY <2>1, StutterKeeps DEF CalmInv
  <2>3. QED
    BY <2>1, <2>2 DEF CalmInv, vars, networkVars, handlerVars, Calm, LabelGood, RunGood, Own
<1>3. QED
  BY <1>1, <1>2, PTL DEF Spec

-----------------------------------------------------------------------------
(* The DNS hosts of networks that meet no mishap.                           *)

\* A configuration gives a host name to one address only.
OneAddress == \A n \in Network : \A table \in Wanted[n] : \A ip, other \in IP :
    ip # other => table[ip] \intersect table[other] = {}

\* The hosts of the network: between operations they are those of the state; in a
\* create, from the definition on, those of the ResourceData; and in an update, entry
\* by entry, what is saved until its deletion, and what is asked for once it is added.
HostsGood(n) ==
    /\ op[n] \in {"none", "read"} /\ state[n] = n => saved[n] = hosts[n]
    /\ pc[n] \in {"net.start", "net.wait", "net.autostart"} \union ReadLabel => attr[n] = hosts[n]
    /\ pc[n] \in UpdateLabel => attr[n] \in Wanted[n]
    /\ pc[n] \in {"netup.lookup", "netup.active", "netup.autostart"} => saved[n] = hosts[n]
    /\ pc[n] = "netup.delete" =>
         /\ todo[n] \subseteq Removed(n)
         /\ \A ip \in IP : hosts[n][ip] =
              IF ip \in todo[n] \/ saved[n][ip] = attr[n][ip] THEN saved[n][ip] ELSE {}
    /\ pc[n] = "netup.add" =>
         /\ todo[n] \subseteq Added(n)
         /\ \A ip \in IP : hosts[n][ip] = IF ip \in todo[n] THEN {} ELSE attr[n][ip]

HostsInv ==
    /\ CalmInv
    /\ OneAddress
    /\ \A n \in Network : Mishap[n] = {} => HostsGood(n)

\* A step within an operation that is no update.
LEMMA HostsGoOn ==
    ASSUME IInv, NEW n \in Network, HostsGood(n),
           pc[n] \notin {"idle"} \union UpdateLabel, hosts'[n] = hosts[n],
           NEW label \in Label \ ({"idle", "net.start"} \union UpdateLabel),
           label \in {"net.wait", "net.autostart"} \union ReadLabel =>
               pc[n] \in {"net.start", "net.wait", "net.autostart"} \union ReadLabel,
           pc'[n] = label, op'[n] = op[n], state'[n] = state[n], saved'[n] = saved[n],
           attr'[n] = attr[n]
    PROVE  HostsGood(n)'
BY DEF HostsGood, UpdateLabel

\* An operation ends without an id, or with the hosts of the network.
LEMMA HostsEnd ==
    ASSUME IInv, NEW n \in Network, NEW id \in {n, None}, NEW table, ReturnWith(n, id, table),
           id = n => table = hosts'[n]
    PROVE  HostsGood(n)'
<1>1. /\ pc'[n] = "idle" /\ op'[n] = "none" /\ d'[n] = id /\ state'[n] = id
      /\ id # None => saved'[n] = table
  BY GoesTo
<1>2. n # None
  BY NetworkNoneAssumption
<1>3. QED
  BY <1>1, <1>2 DEF HostsGood, UpdateLabel, ReadLabel

LEMMA HostsCreate ==
    ASSUME IInv, NEW n \in Network, Mishap[n] = {}, Calm(n), HostsGood(n),
           \/ NetworkPrepare(n) \/ NetworkLock(n) \/ NetworkDefine(n) \/ NetworkDefined(n)
           \/ NetworkStart(n) \/ CleanupStop(n) \/ CleanupUndefine(n)
           \/ NetworkWait(n) \/ NetworkAutostart(n)
    PROVE  HostsGood(n)'
<1> USE DEF Label, Unnamed, ReadLabel, UpdateLabel
<1>1. d[n] \in {n, None} /\ n # None /\ (pc[n] \in Unnamed => d[n] = None)
  BY NetworkNoneAssumption DEF IInv, TypeOK
<1>2. \A call : ~MayFail(n, call)
  BY DEF MayFail
<1>3. CASE NetworkPrepare(n)
  BY <1>2, <1>3, GoesTo, NetworkEffects, HostsGoOn DEF NetworkPrepare, SameIds
<1>4. CASE NetworkLock(n)
  <2>1. pc'[n] = "net.define" /\ SameIds(n) /\ attr'[n] = attr[n] /\ hosts'[n] = hosts[n]
    BY <1>4, NetworkEffects DEF NetworkLock, SameIds, IInv, TypeOK
  <2>2. QED
    BY <1>4, <2>1, HostsGoOn DEF NetworkLock, SameIds
<1>5. CASE NetworkDefine(n)
  <2>1. CASE \E br \in FreeBridges :
               /\ chosen' = [chosen EXCEPT ![n] = br]
               /\ pc' = [pc EXCEPT ![n] = "net.defined"]
               /\ UNCHANGED <<mutex, op, d, attr, state, saved, todo>>
    <3>1. pc'[n] = "net.defined" /\ SameIds(n) /\ attr'[n] = attr[n] /\ hosts'[n] = hosts[n]
      BY <1>5, <2>1, NetworkEffects DEF NetworkDefine, SameIds, IInv, TypeOK
    <3>2. QED
      BY <1>5, <3>1, HostsGoOn DEF NetworkDefine, SameIds
  <2>2. CASE ReturnWith(n, d[n], attr[n])
    BY <1>1, <1>5, <2>2, HostsEnd DEF NetworkDefine
  <2>3. QED
    BY <1>5, <2>1, <2>2 DEF NetworkDefine
<1>6. CASE NetworkDefined(n)
  <2>1. CASE /\ NetworkDefineXML(n, chosen[n], attr[n])
             /\ pc' = [pc EXCEPT ![n] = "net.start"]
             /\ UNCHANGED <<op, d, attr, state, saved, chosen, todo>>
    <3>1. pc'[n] = "net.start" /\ SameIds(n) /\ attr'[n] = attr[n] /\ hosts'[n] = attr[n]
      BY <2>1, NetworkEffects DEF SameIds, IInv, TypeOK
    <3>2. op[n] \notin {"none", "read"}
      BY <1>6 DEF NetworkDefined, Calm, LabelGood, IInv, ControlInv
    <3>3. QED
      BY <3>1, <3>2 DEF HostsGood, SameIds
  <2>2. CASE ReturnWith(n, d[n], attr[n])
    BY <1>1, <1>6, <2>2, HostsEnd DEF NetworkDefined
  <2>3. QED
    BY <1>6, <2>1, <2>2 DEF NetworkDefined
<1>7. CASE NetworkStart(n)
  <2>1. ~StartFails(n)
    BY <1>2, <1>7, StartsOnOwnBridge DEF NetworkStart, StartFails, Calm, RunGood
  <2>2. /\ pc'[n] = "net.wait" /\ UNCHANGED <<op, attr, state, saved>>
        /\ hosts'[n] = hosts[n]
    BY <1>7, <2>1, NetworkEffects DEF NetworkStart, IInv, TypeOK
  <2>3. QED
    BY <1>7, <2>2, HostsGoOn DEF NetworkStart
<1>8. CASE NetworkWait(n)
  <2>1. Active(n)
    BY <1>1, <1>8 DEF NetworkWait, Calm, RunGood, Active, IInv, TypeOK
  <2>2. QED
    BY <1>2, <1>8, <2>1, GoesTo, NetworkEffects, HostsGoOn DEF NetworkWait, SameIds
<1>9. CASE NetworkAutostart(n)
  <2>1. Own(n)
    BY <1>1, <1>9 DEF NetworkAutostart, Calm, RunGood, IInv, TypeOK
  <2>2. QED
    BY <1>2, <1>9, <2>1, GoesTo, NetworkEffects, HostsGoOn DEF NetworkAutostart, SameIds
<1>10. QED
  BY <1>3, <1>4, <1>5, <1>6, <1>7, <1>8, <1>9
  DEF CleanupStop, CleanupUndefine, Calm, RunGood

\* What is read is what the ResourceData has already.
LEMMA HostsRead ==
    ASSUME IInv, NEW n \in Network, Mishap[n] = {}, HostsGood(n),
           NetworkReadLookup(n) \/ NetworkReadDesc(n)
    PROVE  HostsGood(n)'
<1> USE DEF Label, ReadLabel, UpdateLabel
<1>1. /\ pc[n] \in ReadLabel /\ attr[n] = hosts[n] /\ hosts'[n] = hosts[n]
      /\ d[n] \in {n, None}
  BY NetworkEffects DEF NetworkReadLookup, NetworkReadDesc, HostsGood, IInv, TypeOK
<1>2. ASSUME NEW id \in {d[n], None}, ReturnWith(n, id, hosts[n])
      PROVE  HostsGood(n)'
  BY <1>1, <1>2, HostsEnd
<1>3. CASE NetworkReadLookup(n)
  <2>1. CASE Goto(n, "netread.desc")
    BY <1>1, <2>1, GoesTo, HostsGoOn DEF SameIds
  <2>2. QED
    BY <1>1, <1>2, <1>3, <2>1 DEF NetworkReadLookup, Return
<1>4. CASE NetworkReadDesc(n)
  BY <1>1, <1>2, <1>4 DEF NetworkReadDesc
<1>5. QED
  BY <1>3, <1>4

\* The entries that an update removes are there, and those that it adds are possible.
LEMMA HostsUpdate ==
    ASSUME IInv, NEW n \in Network, Mishap[n] = {}, Calm(n), HostsGood(n), OneAddress,
           \/ UpdateLookup(n) \/ UpdateActive(n) \/ UpdateStart(n) \/ UpdateAutostart(n)
           \/ UpdateDelete(n) \/ UpdateAdd(n)
    PROVE  HostsGood(n)'
<1> USE DEF Label, ReadLabel, UpdateLabel
<1>1. pc[n] \in UpdateLabel /\ op[n] = "update" /\ d[n] = n /\ n # None
  BY NetworkNoneAssumption
  DEF UpdateLookup, UpdateActive, UpdateStart, UpdateAutostart, UpdateDelete, UpdateAdd,
      IInv, TypeOK, ControlInv, Calm, LabelGood, Unnamed, DeleteLabel, CreateLabel
<1>2. /\ Active(n) /\ Own(n) /\ nst[n] = "active" /\ pc[n] # "netup.start"
      /\ \A call : ~MayFail(n, call)
  BY <1>1 DEF Calm, RunGood, Active, MayFail
<1>3. /\ saved[n] \in [IP -> SUBSET Host] /\ attr[n] \in [IP -> SUBSET Host]
      /\ hosts[n] \in [IP -> SUBSET Host] /\ todo[n] \subseteq IP
  BY DEF IInv, TypeOK, NetworkTypeOK, Table
<1>4. \/ Removed(n)' = Removed(n) /\ Added(n)' = Added(n)
      \/ saved'[n] # saved[n] \/ attr'[n] # attr[n]
  BY DEF Removed, Added
<1>5. CASE UpdateLookup(n) \/ UpdateActive(n)
  <2>1. PICK label \in {"netup.active", "netup.autostart"} :
          Goto(n, label) /\ UNCHANGED networkVars
    BY <1>2, <1>5 DEF UpdateLookup, UpdateActive
  <2>2. /\ pc'[n] = label /\ SameIds(n) /\ attr'[n] = attr[n] /\ hosts'[n] = hosts[n]
    BY <2>1, GoesTo, NetworkEffects
  <2>3. saved[n] = hosts[n] /\ attr[n] \in Wanted[n]
    BY <1>5 DEF UpdateLookup, UpdateActive, HostsGood
  <2>4. QED
    BY <1>1, <2>2, <2>3 DEF HostsGood, SameIds
<1>6. CASE UpdateAutostart(n)
  <2>1. BeginLoop(n, "netup.delete", Removed(n)) /\ UNCHANGED networkVars
    BY <1>2, <1>6 DEF UpdateAutostart
  <2>2. Removed(n) \in SUBSET IP
    BY DEF Removed
  <2>3. /\ pc'[n] = "netup.delete" /\ SameIds(n) /\ attr'[n] = attr[n] /\ hosts'[n] = hosts[n]
        /\ todo'[n] = Removed(n)
    BY <2>1, <2>2, GoesTo, NetworkEffects
  <2>4. saved[n] = hosts[n] /\ attr[n] \in Wanted[n]
    BY <1>6 DEF UpdateAutostart, HostsGood
  <2>5. \A ip \in IP : hosts[n][ip] =
          IF ip \in Removed(n) \/ saved[n][ip] = attr[n][ip] THEN saved[n][ip] ELSE {}
    BY <2>4 DEF Removed
  <2>6. Removed(n)' = Removed(n)
    BY <1>4, <2>3 DEF SameIds
  <2>7. QED
    BY <1>1, <2>3, <2>4, <2>5, <2>6 DEF HostsGood, SameIds
<1>7. CASE UpdateDelete(n)
  <2>1. /\ todo[n] \subseteq Removed(n) /\ attr[n] \in Wanted[n]
        /\ \A ip \in IP : hosts[n][ip] =
             IF ip \in todo[n] \/ saved[n][ip] = attr[n][ip] THEN saved[n][ip] ELSE {}
    BY <1>7 DEF UpdateDelete, HostsGood
  <2>2. \A ip \in todo[n] : CanDeleteHost(n, ip)
    BY <1>2, <2>1 DEF CanDeleteHost, Removed
  <2>3. CASE \E ip \in todo[n] :
               DeleteHost(n, ip) /\ BeginLoop(n, "netup.delete", todo[n] \ {ip})
    <3>1. PICK ip \in todo[n] :
            DeleteHost(n, ip) /\ BeginLoop(n, "netup.delete", todo[n] \ {ip})
      BY <2>3
    <3>2. ip \in IP /\ todo[n] \ {ip} \in SUBSET IP
      BY <1>3
    <3>3. /\ pc'[n] = "netup.delete" /\ SameIds(n) /\ attr'[n] = attr[n]
          /\ hosts'[n] = [hosts[n] EXCEPT ![ip] = {}]
          /\ todo'[n] = todo[n] \ {ip}
      <4>1. pc'[n] = "netup.delete" /\ SameIds(n) /\ attr'[n] = attr[n] /\ todo'[n] = todo[n] \ {ip}
        BY <3>1, <3>2, GoesTo
      <4>2. hosts'[n] = [hosts[n] EXCEPT ![ip] = {}]
        BY <3>1, <3>2, NetworkEffects
      <4> QED
        BY <4>1, <4>2
    <3>4. saved[n][ip] # attr[n][ip]
      BY <2>1, <3>1 DEF Removed
    <3>5. \A i \in IP : hosts'[n][i] =
            IF i \in todo'[n] \/ saved[n][i] = attr[n][i] THEN saved[n][i] ELSE {}
      BY <1>3, <2>1, <3>2, <3>3, <3>4
    <3>6. Removed(n)' = Removed(n)
      BY <1>4, <3>3 DEF SameIds
    <3>7. todo'[n] \subseteq Removed(n)'
      BY <2>1, <3>3, <3>6
    <3>8. QED
      BY <1>1, <2>1, <3>3, <3>5, <3>7 DEF HostsGood, SameIds
  <2>4. CASE todo[n] = {} /\ BeginLoop(n, "netup.add", Added(n)) /\ UNCHANGED networkVars
    <3>1. Added(n) \in SUBSET IP
      BY DEF Added
    <3>2. /\ pc'[n] = "netup.add" /\ SameIds(n) /\ attr'[n] = attr[n] /\ hosts'[n] = hosts[n]
          /\ todo'[n] = Added(n)
      BY <2>4, <3>1, GoesTo, NetworkEffects
    <3>3. \A ip \in IP : hosts[n][ip] = IF ip \in Added(n) THEN {} ELSE attr[n][ip]
      BY <2>1, <2>4 DEF Added
    <3>4. Added(n)' = Added(n)
      BY <1>4, <3>2 DEF SameIds
    <3>5. QED
      BY <1>1, <2>1, <3>2, <3>3, <3>4 DEF HostsGood, SameIds
  <2>5. QED
    BY <1>2, <1>7, <2>2, <2>3, <2>4 DEF UpdateDelete
<1>8. CASE UpdateAdd(n)
  <2>1. /\ todo[n] \subseteq Added(n) /\ attr[n] \in Wanted[n]
        /\ \A ip \in IP : hosts[n][ip] = IF ip \in todo[n] THEN {} ELSE attr[n][ip]
    BY <1>8 DEF UpdateAdd, HostsGood
  <2>2. \A ip \in todo[n] : CanAddHost(n, ip, attr[n][ip])
    <3>1. SUFFICES ASSUME NEW ip \in todo[n], NEW other \in IP
                   PROVE  attr[n][ip] \intersect hosts[n][other] = {}
      BY <1>2, <1>3, <2>1 DEF CanAddHost
    <3>2. CASE other \in todo[n]
      BY <2>1, <3>2
    <3>3. CASE other \notin todo[n]
      <4>1. hosts[n][other] = attr[n][other] /\ ip # other /\ ip \in IP
        BY <1>3, <2>1, <3>3
      <4>2. attr[n][ip] \intersect attr[n][other] = {}
        BY <2>1, <4>1 DEF OneAddress
      <4>3. QED
        BY <4>1, <4>2
    <3>4. QED
      BY <3>2, <3>3
  <2>3. CASE \E ip \in todo[n] :
               AddHost(n, ip, attr[n][ip]) /\ BeginLoop(n, "netup.add", todo[n] \ {ip})
    <3>1. PICK ip \in todo[n] :
            AddHost(n, ip, attr[n][ip]) /\ BeginLoop(n, "netup.add", todo[n] \ {ip})
      BY <2>3
    <3>2. ip \in IP /\ todo[n] \ {ip} \in SUBSET IP
      BY <1>3
    <3>3. /\ pc'[n] = "netup.add" /\ SameIds(n) /\ attr'[n] = attr[n]
          /\ hosts'[n] = [hosts[n] EXCEPT ![ip] = attr[n][ip]]
          /\ todo'[n] = todo[n] \ {ip}
      <4>1. pc'[n] = "netup.add" /\ SameIds(n) /\ attr'[n] = attr[n] /\ todo'[n] = todo[n] \ {ip}
        BY <3>1, <3>2, GoesTo
      <4>2. hosts'[n] = [hosts[n] EXCEPT ![ip] = attr[n][ip]]
        BY <3>1, <3>2, NetworkEffects
      <4> QED
        BY <4>1, <4>2
    <3>4. \A i \in IP : hosts'[n][i] = IF i \in todo'[n] THEN {} ELSE attr[n][i]
      BY <1>3, <2>1, <3>2, <3>3
    <3>5. Added(n)' = Added(n)
      BY <1>4, <3>3 DEF SameIds
    <3>6. QED
      BY <1>1, <2>1, <3>3, <3>4, <3>5 DEF HostsGood, SameIds
  <2>4. CASE todo[n] = {} /\ Return(n, d[n]) /\ UNCHANGED networkVars
    <3>1. hosts[n] = attr[n] /\ hosts'[n] = hosts[n]
      BY <1>3, <2>1, <2>4, NetworkEffects
    <3>2. QED
      BY <1>1, <2>4, <3>1, HostsEnd DEF Return
  <2>5. QED
    BY <1>2, <1>8, <2>2, <2>3, <2>4 DEF UpdateAdd
<1>9. QED
  BY <1>2, <1>5, <1>6, <1>7, <1>8 DEF UpdateStart

LEMMA HostsDelete ==
    ASSUME IInv, NEW n \in Network, Mishap[n] = {}, Calm(n), HostsGood(n),
           \/ DeleteLookup(n) \/ DeleteActive(n) \/ DeleteDestroy(n) \/ DeleteUndefine(n)
           \/ DeleteWait(n)
    PROVE  HostsGood(n)'
<1> USE DEF Label, ReadLabel, UpdateLabel, DeleteLabel
<1>1. pc[n] \in DeleteLabel /\ op[n] = "delete" /\ d[n] = n
  BY DEF DeleteLookup, DeleteActive, DeleteDestroy, DeleteUndefine, DeleteWait, Unnamed,
         CreateLabel, IInv, TypeOK, ControlInv, Calm, LabelGood
<1>2. \A call : ~MayFail(n, call)
  BY DEF MayFail
<1>3. /\ pc[n] \notin {"netdel.undefine", "netdel.wait"} => Active(n) /\ Own(n)
      /\ pc[n] = "netdel.undefine" => CanUndefine(n)
      /\ pc[n] = "netdel.wait" => ~Own(n)
  BY <1>1 DEF Calm, RunGood, Active, CanUndefine, Own
<1>4. CASE \E label \in DeleteLabel : Goto(n, label)
  <2>1. \E label \in DeleteLabel : pc'[n] = label /\ SameIds(n)
    BY <1>4, GoesTo
  <2>2. QED
    BY <1>1, <2>1 DEF HostsGood, SameIds
<1>5. CASE Return(n, None)
  BY <1>5, NetworkNoneAssumption, HostsEnd DEF Return
<1>6. QED
  BY <1>2, <1>3, <1>4, <1>5
  DEF DeleteLookup, DeleteActive, DeleteDestroy, DeleteUndefine, DeleteWait

LEMMA HostsBegin ==
    ASSUME IInv, NEW n \in Network, HostsGood(n),
           BeginCreate(n) \/ BeginRead(n) \/ BeginUpdate(n) \/ BeginDelete(n)
    PROVE  HostsGood(n)'
<1>1. PICK kind \in {"create", "read", "update", "delete"},
           next \in {"net.prepare", "netread.lookup", "netup.lookup", "netdel.lookup"},
           table \in Table :
        /\ Begin(n, kind, next, table)
        /\ kind = "read" <=> next = "netread.lookup"
        /\ kind = "read" => table = saved[n]
        /\ kind # "create" => state[n] = n
        /\ next = "netup.lookup" => table \in Wanted[n] /\ kind = "update"
  BY NetworkAssumption DEF BeginCreate, BeginRead, BeginUpdate, BeginDelete, IInv, TypeOK
<1>2. /\ pc'[n] = next /\ op'[n] = kind /\ state'[n] = state[n] /\ saved'[n] = saved[n]
      /\ attr'[n] = table /\ hosts'[n] = hosts[n] /\ op[n] = "none"
  BY <1>1, NetworkEffects DEF Begin, IInv, TypeOK
<1>3. QED
  BY <1>1, <1>2 DEF HostsGood, ReadLabel, UpdateLabel

LEMMA HostsOthers ==
    ASSUME IInv, NEW n \in Network, Affects(n), Moves(n) \/ Ends(n),
           NEW m \in Network \ {n}, HostsGood(m)
    PROVE  HostsGood(m)'
<1>1. hosts'[m] = hosts[m]
  BY OthersCalls
<1>2. /\ pc'[m] = pc[m] /\ op'[m] = op[m] /\ attr'[m] = attr[m]
      /\ state'[m] = state[m] /\ saved'[m] = saved[m] /\ todo'[m] = todo[m]
  BY OthersStay
<1>3. QED
  BY <1>1, <1>2 DEF HostsGood, Removed, Added

LEMMA NextHosts ==
    ASSUME HostsInv, Next
    PROVE  HostsInv'
<1>1. IInv /\ CalmInv' /\ OneAddress /\ OneAddress'
  BY NextCalm DEF HostsInv, CalmInv, OneAddress
<1>2. PICK n \in Network :
        \/ BeginCreate(n) \/ BeginRead(n) \/ BeginUpdate(n) \/ BeginDelete(n)
        \/ HandlerStep(n)
        \/ OutsideStop(n) \/ OutsideUndefine(n) \/ OutsideEdit(n)
  BY DEF Next
<1>3. ASSUME Mishap[n] = {}
      PROVE  HostsGood(n)'
  <2>1. Calm(n) /\ HostsGood(n)
    BY <1>3 DEF HostsInv, CalmInv
  <2>2. CASE HandlerStep(n)
    BY <1>1, <1>3, <2>1, <2>2, HostsCreate, HostsRead, HostsUpdate, HostsDelete
    DEF HandlerStep
  <2>3. QED
    BY <1>1, <1>2, <1>3, <2>1, <2>2, HostsBegin DEF OutsideStop, OutsideUndefine, OutsideEdit
<1>4. ASSUME NEW m \in Network \ {n}, Mishap[m] = {}
      PROVE  HostsGood(m)'
  <2>1. HostsGood(m)
    BY <1>4 DEF HostsInv
  <2>2. CASE HandlerStep(n)
    BY <1>1, <2>1, <2>2, HandlerShape, HostsOthers DEF Shape
  <2>3. CASE BeginCreate(n) \/ BeginRead(n) \/ BeginUpdate(n) \/ BeginDelete(n)
    <3>1. /\ pc'[m] = pc[m] /\ op'[m] = op[m] /\ attr'[m] = attr[m]
          /\ UNCHANGED <<networkVars, state, saved, todo>>
      BY <1>1, <2>3 DEF BeginCreate, BeginRead, BeginUpdate, BeginDelete, Begin, IInv, TypeOK
    <3>2. QED
      BY <2>1, <3>1 DEF networkVars, HostsGood, Removed, Added
  <2>4. CASE OutsideStop(n) \/ OutsideUndefine(n) \/ OutsideEdit(n)
    <3>1. UNCHANGED handlerVars /\ Affects(n)
      BY <1>1, <2>4, CallsAlter
      DEF OutsideStop, OutsideUndefine, OutsideEdit, Affects, IInv, TypeOK
    <3>2. hosts'[m] = hosts[m]
      BY <1>1, <3>1, OthersCalls
    <3>3. QED
      BY <2>1, <3>1, <3>2 DEF handlerVars, HostsGood, Removed, Added
  <2>5. QED
    BY <1>2, <2>2, <2>3, <2>4
<1>5. QED
  BY <1>1, <1>3, <1>4 DEF HostsInv

-----------------------------------------------------------------------------
(* The theorems.                                                            *)

\* The invariant holds in every reachable state.
THEOREM Invariance == Spec => []IInv
BY InitEstablishes, NextKeeps, PTL DEF Spec

\* The state has its type; in particular the ResourceData has an id exactly from
\* d.SetId of resourceLibvirtNetworkCreate on.
THEOREM TypeCorrect == Spec => []TypeOK
<1>1. IInv => TypeOK
  BY DEF IInv
<1>2. QED
  BY <1>1, Invariance, PTL

\* A create that fails after NetworkDefineXML leaves no network that Terraform does
\* not know, for any number of networks and any failure but one of the cleanup.
THEOREM NothingLost == Spec => []NothingLeaks
<1>1. IInv => NothingLeaks
  <2>1. SUFFICES ASSUME IInv, NEW n \in Network, CleansUp(n), op[n] = "none", Own(n)
                 PROVE  state[n] = n
    BY DEF NothingLeaks, CleansUp
  <2>2. pc[n] = "idle" /\ d[n] = state[n]
    BY <2>1 DEF IInv, ControlInv
  <2>3. QED
    BY <2>1, <2>2 DEF IInv, LeakInv, Unfinished
<1>2. QED
  BY <1>1, Invariance, PTL

\* With networkMutex around NetworkDefineXML no two networks get one bridge, however
\* many definitions Terraform starts at once.
THEOREM OwnBridges == Spec => []BridgesDiffer
<1>1. IInv => BridgesDiffer
  BY DEF IInv, BridgeInv
<1>2. QED
  BY <1>1, Invariance, PTL

\* updateDNSHosts leaves alone what the change of the configuration does not touch.
THEOREM UnchangedStay == Spec => UnchangedHostsStay
<1> DEFINE Stay == \A n \in Network :
                     /\ op[n] = "update"
                     /\ <<pc[n], todo[n]>>' # <<pc[n], todo[n]>>
                     => \A ip \in IP : saved[n][ip] = attr[n][ip] => hosts'[n][ip] = hosts[n][ip]
<1>1. ASSUME IInv, NEW n \in Network, Next, op[n] = "update",
             <<pc[n], todo[n]>>' # <<pc[n], todo[n]>>,
             NEW ip \in IP, saved[n][ip] = attr[n][ip]
      PROVE  hosts'[n][ip] = hosts[n][ip]
  <2>1. PICK m \in Network :
          \/ BeginCreate(m) \/ BeginRead(m) \/ BeginUpdate(m) \/ BeginDelete(m)
          \/ HandlerStep(m)
          \/ OutsideStop(m) \/ OutsideUndefine(m) \/ OutsideEdit(m)
    BY <1>1 DEF Next
  <2>2. CASE BeginCreate(m) \/ BeginRead(m) \/ BeginUpdate(m) \/ BeginDelete(m)
    BY <2>2 DEF BeginCreate, BeginRead, BeginUpdate, BeginDelete, Begin, networkVars
  <2>3. CASE HandlerStep(m)
    <3>1. Shape(m)
      BY <1>1, <2>3, HandlerShape
    <3>2. m = n
      BY <1>1, <3>1, OthersStay DEF Shape
    <3>3. QED
      BY <1>1, <3>1, <3>2 DEF Shape, Edits
  <2>4. CASE OutsideStop(m) \/ OutsideUndefine(m) \/ OutsideEdit(m)
    BY <1>1, <2>4 DEF OutsideStop, OutsideUndefine, OutsideEdit, handlerVars
  <2>5. QED
    BY <2>1, <2>2, <2>3, <2>4
<1>2. IInv /\ [Next]_vars => [Stay]_vars
  BY <1>1
<1>3. QED
  BY <1>2, Invariance, PTL DEF Spec, UnchangedHostsStay
\* Networks of other resources, and whatever happens to them, do not stop a delete:
\* the network runs from its create on, stops, and is undefined.
THEOREM DeletesEnd == Spec => DeletesSucceed
<1>1. CalmInv /\ [Next]_vars => [\A n \in Network : Removes(n)]_vars
  BY NextCalm
<1>2. QED
  BY <1>1, CalmInvariance, PTL DEF Spec, DeletesSucceed, Removes

\* updateDNSHosts can turn every set of hosts into every other one, entry by entry, as
\* long as no configuration gives one host name two addresses (libvirt refuses the
\* second entry); what Terraform saves is then what the network has.
THEOREM HostsAreTold == OneAddress /\ Spec => []StateTellsHosts
<1>1. OneAddress /\ Init => HostsInv
  <2>1. SUFFICES ASSUME OneAddress, Init PROVE HostsInv
    OBVIOUS
  <2>2. CalmInv
    BY <2>1, InitEstablishes, NetworkNoneAssumption
    DEF CalmInv, Init, Calm, LabelGood, RunGood
  <2>3. \A n \in Network : HostsGood(n)
    BY <2>1, NetworkNoneAssumption DEF Init, HostsGood, ReadLabel, UpdateLabel
  <2>4. QED
    BY <2>1, <2>2, <2>3 DEF HostsInv
<1>2. HostsInv /\ [Next]_vars => HostsInv'
  <2>1. SUFFICES ASSUME HostsInv, UNCHANGED vars PROVE HostsInv'
    BY NextHosts
  <2>2. IInv'
    BY <2>1, StutterKeeps DEF HostsInv, CalmInv
  <2>3. CalmInv'
    BY <2>1, <2>2
    DEF HostsInv, CalmInv, vars, networkVars, handlerVars, Calm, LabelGood, RunGood, Own
  <2>4. QED
    BY <2>1, <2>3 DEF HostsInv, OneAddress, vars, networkVars, handlerVars, HostsGood, Removed, Added
<1>3. HostsInv => StateTellsHosts
  BY DEF HostsInv, CalmInv, IInv, TypeOK, HostsGood, StateTellsHosts
<1>4. QED
  BY <1>1, <1>2, <1>3, PTL DEF Spec

-----------------------------------------------------------------------------
(* Operations end.                                                          *)

\* A create whose next call is the Lock of networkMutex, which is taken.
WaitsForMutex(n) == pc[n] = "net.lock" /\ mutex # None

\* Whoever waits for networkMutex waits for a create that is in its definition, and that
\* waits for no mutex.
NoCircularWait == \A n \in Network : WaitsForMutex(n) =>
    \E m \in Network \ {n} : op[m] # "none" /\ InDefine(pc[m]) /\ ~WaitsForMutex(m)

\* No deadlock: every return path out of the definition gives the mutex back.
THEOREM NoDeadlock == Spec => []NoCircularWait
<1>1. ASSUME IInv, NEW n \in Network, WaitsForMutex(n)
      PROVE  \E m \in Network \ {n} : op[m] # "none" /\ InDefine(pc[m]) /\ ~WaitsForMutex(m)
  <2>1. mutex \in Network /\ InDefine(pc[mutex])
    BY <1>1 DEF WaitsForMutex, IInv, TypeOK, MutexInv
  <2>2. mutex # n /\ op[mutex] # "none" /\ ~WaitsForMutex(mutex)
    BY <1>1, <2>1 DEF WaitsForMutex, InDefine, IInv, ControlInv
  <2>3. QED
    BY <2>1, <2>2
<1>2. IInv => NoCircularWait
  BY <1>1 DEF NoCircularWait
<1>3. QED
  BY <1>2, Invariance, PTL

\* The number of calls that an operation has left, at most, with so many entries in the
\* loop it is in: both loops of updateDNSHosts are over entries of a configuration.
CallsFrom(label, entries) ==
    CASE label = "idle" -> 0
      [] label \in {"netread.desc", "net.undefine", "netdel.wait"} -> 1
      [] label \in {"netread.lookup", "net.stop", "netdel.undefine"} -> 2
      [] label \in {"net.autostart", "netdel.destroy"} -> 3
      [] label \in {"net.wait", "netdel.active"} -> 4
      [] label \in {"net.start", "netdel.lookup"} -> 5
      [] label = "net.defined" -> 6
      [] label = "net.define" -> 7
      [] label = "net.lock" -> 8
      [] label = "net.prepare" -> 9
      [] label = "netup.add" -> entries + 1
      [] label = "netup.delete" -> entries + Cardinality(IP) + 2
      [] label = "netup.autostart" -> 2 * Cardinality(IP) + 3
      [] label = "netup.start" -> 2 * Cardinality(IP) + 4
      [] label = "netup.active" -> 2 * Cardinality(IP) + 5
      [] label = "netup.lookup" -> 2 * Cardinality(IP) + 6

CallsLeft(n) == CallsFrom(pc[n], Cardinality(todo[n]))

\* Every call of a handler leaves fewer to make, and nobody else makes them more: no loop
\* meets an entry twice, whatever is stopped, undefined or edited meanwhile.
CallsRunOut == \A n \in Network :
    op[n] # "none" =>
        /\ CallsLeft(n)' <= CallsLeft(n)
        /\ HandlerStep(n) => CallsLeft(n)' < CallsLeft(n)

\* The number at each label.
LEMMA CallsFromIs ==
    \A c :
      /\ CallsFrom("idle", c) = 0
      /\ \A l \in {"netread.desc", "net.undefine", "netdel.wait"} : CallsFrom(l, c) = 1
      /\ \A l \in {"netread.lookup", "net.stop", "netdel.undefine"} : CallsFrom(l, c) = 2
      /\ \A l \in {"net.autostart", "netdel.destroy"} : CallsFrom(l, c) = 3
      /\ \A l \in {"net.wait", "netdel.active"} : CallsFrom(l, c) = 4
      /\ \A l \in {"net.start", "netdel.lookup"} : CallsFrom(l, c) = 5
      /\ CallsFrom("net.defined", c) = 6
      /\ CallsFrom("net.define", c) = 7
      /\ CallsFrom("net.lock", c) = 8
      /\ CallsFrom("net.prepare", c) = 9
      /\ CallsFrom("netup.add", c) = c + 1
      /\ CallsFrom("netup.delete", c) = c + Cardinality(IP) + 2
      /\ CallsFrom("netup.autostart", c) = 2 * Cardinality(IP) + 3
      /\ CallsFrom("netup.start", c) = 2 * Cardinality(IP) + 4
      /\ CallsFrom("netup.active", c) = 2 * Cardinality(IP) + 5
      /\ CallsFrom("netup.lookup", c) = 2 * Cardinality(IP) + 6
BY DEF CallsFrom

\* A loop has at most as many entries as there are addresses.
LEMMA EntriesCount ==
    ASSUME IsFiniteSet(IP), NEW entries \in SUBSET IP
    PROVE  /\ Cardinality(IP) \in Nat
           /\ IsFiniteSet(entries)
           /\ Cardinality(entries) \in 0 .. Cardinality(IP)
<1>1. IsFiniteSet(entries) /\ Cardinality(entries) <= Cardinality(IP)
  BY FS_Subset
<1>2. Cardinality(IP) \in Nat /\ Cardinality(entries) \in Nat
  BY <1>1, FS_CardinalityType
<1>3. QED
  BY <1>1, <1>2

\* An operation has at most nine calls left and two for each address.
LEMMA CallsLeftType ==
    ASSUME IsFiniteSet(IP), TypeOK, NEW n \in Network
    PROVE  CallsLeft(n) \in 0 .. 2 * Cardinality(IP) + 9
<1> DEFINE K == Cardinality(IP)
           c == Cardinality(todo[n])
<1>1. K \in Nat /\ c \in 0 .. K
  BY EntriesCount DEF TypeOK
<1>2. pc[n] \in Label
  BY DEF TypeOK
<1> HIDE DEF c
<1>3. CallsFrom(pc[n], c) \in 0 .. 2 * K + 9
  BY <1>1, <1>2, CallsFromIs DEF Label
<1>4. QED
  BY <1>3 DEF CallsLeft, c

\* A step of the handler outside the loops, from one call to another or to its return.
Edge(n, from, tos) == pc[n] = from /\ pc'[n] \in tos \union {"idle"}

\* The calls of creates, reads and deletes, one after the other.
LEMMA OneByOne ==
    ASSUME IInv, NEW n \in Network
    PROVE  /\ NetworkPrepare(n) => Edge(n, "net.prepare", {"net.lock"})
           /\ NetworkLock(n) => Edge(n, "net.lock", {"net.define"})
           /\ NetworkDefine(n) => Edge(n, "net.define", {"net.defined"})
           /\ NetworkDefined(n) => Edge(n, "net.defined", {"net.start"})
           /\ NetworkStart(n) => Edge(n, "net.start", {"net.wait", "net.stop"})
           /\ CleanupStop(n) => Edge(n, "net.stop", {"net.undefine"})
           /\ CleanupUndefine(n) => Edge(n, "net.undefine", {})
           /\ NetworkWait(n) => Edge(n, "net.wait", {"net.autostart"})
           /\ NetworkAutostart(n) => Edge(n, "net.autostart", {"netread.lookup"})
           /\ NetworkReadLookup(n) => Edge(n, "netread.lookup", {"netread.desc"})
           /\ NetworkReadDesc(n) => Edge(n, "netread.desc", {})
           /\ UpdateLookup(n) => Edge(n, "netup.lookup", {"netup.active"})
           /\ UpdateActive(n) => Edge(n, "netup.active", {"netup.start", "netup.autostart"})
           /\ UpdateStart(n) => Edge(n, "netup.start", {"netup.autostart"})
           /\ DeleteLookup(n) => Edge(n, "netdel.lookup", {"netdel.active"})
           /\ DeleteActive(n) => Edge(n, "netdel.active", {"netdel.destroy", "netdel.undefine"})
           /\ DeleteDestroy(n) => Edge(n, "netdel.destroy", {"netdel.undefine"})
           /\ DeleteUndefine(n) => Edge(n, "netdel.undefine", {"netdel.wait"})
           /\ DeleteWait(n) => Edge(n, "netdel.wait", {})
<1>1. /\ \A label : Goto(n, label) => pc'[n] = label
      /\ \A label : pc' = [pc EXCEPT ![n] = label] => pc'[n] = label
      /\ \A id, table : ReturnWith(n, id, table) => pc'[n] = "idle"
      /\ \A id : Return(n, id) => pc'[n] = "idle"
      /\ ReturnError(n) => pc'[n] = "idle"
  BY DEF IInv, TypeOK, Goto, ReturnWith, Return, ReturnError
<1> USE <1>1 DEF Edge
<1>2. NetworkPrepare(n) => Edge(n, "net.prepare", {"net.lock"})
  BY DEF NetworkPrepare
<1>3. NetworkLock(n) => Edge(n, "net.lock", {"net.define"})
  BY DEF NetworkLock
<1>4. NetworkDefine(n) => Edge(n, "net.define", {"net.defined"})
  BY DEF NetworkDefine
<1>5. NetworkDefined(n) => Edge(n, "net.defined", {"net.start"})
  BY DEF NetworkDefined
<1>6. NetworkStart(n) => Edge(n, "net.start", {"net.wait", "net.stop"})
  BY DEF NetworkStart
<1>7. CleanupStop(n) => Edge(n, "net.stop", {"net.undefine"})
  BY DEF CleanupStop
<1>8. CleanupUndefine(n) => Edge(n, "net.undefine", {})
  BY DEF CleanupUndefine
<1>9. NetworkWait(n) => Edge(n, "net.wait", {"net.autostart"})
  BY DEF NetworkWait
<1>10. NetworkAutostart(n) => Edge(n, "net.autostart", {"netread.lookup"})
  BY DEF NetworkAutostart
<1>11. NetworkReadLookup(n) => Edge(n, "netread.lookup", {"netread.desc"})
  BY DEF NetworkReadLookup
<1>12. NetworkReadDesc(n) => Edge(n, "netread.desc", {})
  BY DEF NetworkReadDesc
<1>13. UpdateLookup(n) => Edge(n, "netup.lookup", {"netup.active"})
  BY DEF UpdateLookup
<1>14. UpdateActive(n) => Edge(n, "netup.active", {"netup.start", "netup.autostart"})
  BY DEF UpdateActive
<1>15. UpdateStart(n) => Edge(n, "netup.start", {"netup.autostart"})
  BY DEF UpdateStart
<1>16. DeleteLookup(n) => Edge(n, "netdel.lookup", {"netdel.active"})
  BY DEF DeleteLookup
<1>17. DeleteActive(n) => Edge(n, "netdel.active", {"netdel.destroy", "netdel.undefine"})
  BY DEF DeleteActive
<1>18. DeleteDestroy(n) => Edge(n, "netdel.destroy", {"netdel.undefine"})
  BY DEF DeleteDestroy
<1>19. DeleteUndefine(n) => Edge(n, "netdel.undefine", {"netdel.wait"})
  BY DEF DeleteUndefine
<1>20. DeleteWait(n) => Edge(n, "netdel.wait", {})
  BY DEF DeleteWait
<1> HIDE DEF Edge
<1>21. QED
  BY <1>2, <1>3, <1>4, <1>5, <1>6, <1>7, <1>8, <1>9, <1>10, <1>11, <1>12, <1>13, <1>14, <1>15,
     <1>16, <1>17, <1>18, <1>19, <1>20

\* The loops: an entry is done with, or the next loop begins with entries of its own.
LEMMA LoopEdges ==
    ASSUME IInv, NEW n \in Network
    PROVE  /\ UpdateAutostart(n) =>
                pc[n] = "netup.autostart" /\ pc'[n] \in {"idle", "netup.delete"}
           /\ UpdateDelete(n) =>
                /\ pc[n] = "netup.delete"
                /\ \/ pc'[n] = "idle"
                   \/ pc'[n] = "netup.add"
                   \/ pc'[n] = "netup.delete" /\ \E ip \in todo[n] : todo'[n] = todo[n] \ {ip}
           /\ UpdateAdd(n) =>
                /\ pc[n] = "netup.add"
                /\ \/ pc'[n] = "idle"
                   \/ pc'[n] = "netup.add" /\ \E ip \in todo[n] : todo'[n] = todo[n] \ {ip}
<1>1. /\ \A label, entries : BeginLoop(n, label, entries) =>
           pc'[n] = label /\ todo'[n] = entries
      /\ \A id : Return(n, id) => pc'[n] = "idle"
      /\ ReturnError(n) => pc'[n] = "idle"
  BY DEF IInv, TypeOK, BeginLoop, ReturnWith, Return, ReturnError
<1>2. UpdateAutostart(n) => pc[n] = "netup.autostart" /\ pc'[n] \in {"idle", "netup.delete"}
  BY <1>1 DEF UpdateAutostart
<1>3. UpdateDelete(n) =>
        /\ pc[n] = "netup.delete"
        /\ \/ pc'[n] = "idle"
           \/ pc'[n] = "netup.add"
           \/ pc'[n] = "netup.delete" /\ \E ip \in todo[n] : todo'[n] = todo[n] \ {ip}
  BY <1>1 DEF UpdateDelete
<1>4. UpdateAdd(n) =>
        /\ pc[n] = "netup.add"
        /\ \/ pc'[n] = "idle"
           \/ pc'[n] = "netup.add" /\ \E ip \in todo[n] : todo'[n] = todo[n] \ {ip}
  BY <1>1 DEF UpdateAdd
<1>5. QED
  BY <1>2, <1>3, <1>4

\* A handler's own call leaves fewer to make.
LEMMA HandlerShortens ==
    ASSUME IsFiniteSet(IP), IInv, IInv', NEW n \in Network, HandlerStep(n)
    PROVE  CallsLeft(n)' < CallsLeft(n) /\ CallsLeft(n)' <= CallsLeft(n)
<1> DEFINE K == Cardinality(IP)
           c == Cardinality(todo[n])
           cAfter == Cardinality(todo'[n])
           before == CallsFrom(pc[n], c)
           after == CallsFrom(pc'[n], cAfter)
<1>1. K \in Nat /\ c \in 0 .. K /\ cAfter \in 0 .. K
  <2>1. todo[n] \in SUBSET IP /\ todo'[n] \in SUBSET IP
    BY DEF IInv, TypeOK
  <2>2. QED
    BY <2>1, EntriesCount
<1>2. \A ip \in todo[n] : todo'[n] = todo[n] \ {ip} => cAfter = c - 1
  <2>1. IsFiniteSet(todo[n])
    BY EntriesCount DEF IInv, TypeOK
  <2>2. QED
    BY <2>1, FS_RemoveElement
<1>3. CallsLeft(n) = before /\ CallsLeft(n)' = after
  BY DEF CallsLeft
<1> HIDE DEF K, c, cAfter
<1>4. CallsFrom("netup.add", cAfter) = cAfter + 1 /\ CallsFrom("netup.add", c) = c + 1
  BY CallsFromIs
<1>5. /\ CallsFrom("netup.delete", cAfter) = cAfter + K + 2
      /\ CallsFrom("netup.delete", c) = c + K + 2
      /\ CallsFrom("idle", cAfter) = 0
      /\ \A e \in {c, cAfter} :
           /\ CallsFrom("netup.autostart", e) = 2 * K + 3
           /\ CallsFrom("netup.start", e) = 2 * K + 4
           /\ CallsFrom("netup.active", e) = 2 * K + 5
           /\ CallsFrom("netup.lookup", e) = 2 * K + 6
  BY CallsFromIs DEF K
<1>6. CASE UpdateAutostart(n) \/ UpdateDelete(n) \/ UpdateAdd(n)
  <2>1. after < before
    BY <1>1, <1>2, <1>4, <1>5, <1>6, LoopEdges
  <2>2. after <= before
    BY <1>1, <1>2, <1>4, <1>5, <1>6, LoopEdges
  <2>3. QED
    BY <1>3, <2>1, <2>2
<1>7. CASE UpdateLookup(n) \/ UpdateActive(n) \/ UpdateStart(n)
  BY <1>1, <1>3, <1>5, <1>7, OneByOne DEF Edge
<1>8. CASE \/ NetworkPrepare(n) \/ NetworkLock(n) \/ NetworkDefine(n) \/ NetworkDefined(n)
           \/ NetworkStart(n) \/ CleanupStop(n) \/ CleanupUndefine(n) \/ NetworkWait(n)
           \/ NetworkAutostart(n) \/ NetworkReadLookup(n) \/ NetworkReadDesc(n)
  BY <1>3, <1>8, OneByOne, CallsFromIs DEF Edge
<1>9. CASE \/ DeleteLookup(n) \/ DeleteActive(n) \/ DeleteDestroy(n) \/ DeleteUndefine(n)
           \/ DeleteWait(n)
  BY <1>3, <1>9, OneByOne, CallsFromIs DEF Edge
<1>10. QED
  BY <1>6, <1>7, <1>8, <1>9 DEF HandlerStep

\* Whatever somebody else does leaves a handler where it is.
LEMMA OthersLeave ==
    ASSUME IInv, NEW n \in Network, op[n] # "none", Next, ~HandlerStep(n)
    PROVE  pc'[n] = pc[n] /\ todo'[n] = todo[n]
<1>1. PICK m \in Network :
        \/ BeginCreate(m) \/ BeginRead(m) \/ BeginUpdate(m) \/ BeginDelete(m)
        \/ HandlerStep(m)
        \/ OutsideStop(m) \/ OutsideUndefine(m) \/ OutsideEdit(m)
  BY DEF Next
<1>2. CASE BeginCreate(m) \/ BeginRead(m) \/ BeginUpdate(m) \/ BeginDelete(m)
  BY <1>2 DEF BeginCreate, BeginRead, BeginUpdate, BeginDelete, Begin, IInv, TypeOK
<1>3. CASE HandlerStep(m)
  <2>1. m # n /\ (Moves(m) \/ Ends(m))
    BY <1>3, HandlerShape DEF Shape
  <2>2. QED
    BY <2>1, OthersStay
<1>4. CASE OutsideStop(m) \/ OutsideUndefine(m) \/ OutsideEdit(m)
  BY <1>4 DEF OutsideStop, OutsideUndefine, OutsideEdit, handlerVars
<1>5. QED
  BY <1>1, <1>2, <1>3, <1>4

\* With any mishap, for any number of networks and addresses: an operation has at most
\* nine calls left and two for each address, each of its calls leaves fewer, and nothing
\* gives it more to do.
THEOREM CallsShorten ==
    ASSUME IsFiniteSet(IP)
    PROVE  Spec => /\ [](\A n \in Network : CallsLeft(n) \in 0 .. 2 * Cardinality(IP) + 9)
                   /\ [][CallsRunOut]_vars
<1>1. IInv => \A n \in Network : CallsLeft(n) \in 0 .. 2 * Cardinality(IP) + 9
  BY CallsLeftType DEF IInv
<1>2. ASSUME IInv, Next, NEW n \in Network, op[n] # "none", ~HandlerStep(n)
      PROVE  CallsLeft(n)' <= CallsLeft(n)
  <2>1. CallsLeft(n)' = CallsLeft(n)
    BY <1>2, OthersLeave DEF CallsLeft
  <2>2. CallsLeft(n) \in Nat
    <3>1. Cardinality(IP) \in Nat
      BY EntriesCount
    <3>2. QED
      BY <1>1, <1>2, <3>1
  <2>3. QED
    BY <2>1, <2>2
<1>3. ASSUME IInv, IInv', Next, NEW n \in Network, HandlerStep(n)
      PROVE  CallsLeft(n)' < CallsLeft(n) /\ CallsLeft(n)' <= CallsLeft(n)
  BY <1>3, HandlerShortens
<1>4. IInv /\ IInv' /\ [Next]_vars => [CallsRunOut]_vars
  BY <1>2, <1>3 DEF CallsRunOut
<1>5. QED
  BY <1>1, <1>4, Invariance, PTL DEF Spec
=============================================================================
