---------------------------- MODULE DomainProofs ----------------------------
(***************************************************************************)
(* Theorems about Domain: type correctness, no domain that runs without     *)
(* Terraform knowing it, deletes that leave nothing, creates that obey      *)
(* "running", guests' leases and configured addresses that end up in the    *)
(* table of DHCP hosts, and what is left over that stops a create.          *)
(*                                                                         *)
(* A step of domain n changes variables at n only (Affects, Handles), so    *)
(* the invariant is a statement about one domain (Good, and Detail for      *)
(* CreateObeys, WaitMaps, Reserving and Recreating), and each action is     *)
(* shown to establish it for its own domain.  Recreating needs one fact     *)
(* more, FreeGood: what is there without an id was left by a start that     *)
(* failed.  At the end: every call of an operation leaves fewer to make.    *)
(***************************************************************************)
EXTENDS Domain, Naturals, TLAPS

DeleteLabel == {"del.lookup", "del.destroy", "del.undefine"}

\* Labels of a create at which the interfaces have been read.
ReadBehind == {"map.add", "dom.finish", "dom.destroy"}

\* A handler runs exactly while its domain has an operation; otherwise the
\* ResourceData has the id of the state.
ControlGood(n) ==
    /\ op[n] = "none" <=> pc[n] = "idle"
    /\ op[n] = "none" => d[n] = state[n]
    /\ pc[n] = "map.begin" => op[n] = "create"
    /\ op[n] = "delete" => pc[n] \in DeleteLabel

\* The type of the state that belongs to one domain.
TypeGood(n) ==
    /\ d[n] \in {n, None}
    /\ state[n] \in {n, None}
    /\ pc[n] \in Unnamed => d[n] = None
    /\ pc[n] \notin Unnamed \union {"idle", "map.begin", "dom.finish"} => d[n] = n
    /\ pc[n] \in Mapping => attr[n].addr # None

\* A domain that runs has an id, and is stopped when its delete undefines it.
TrackGood(n) ==
    /\ Active(n) => d[n] = n
    /\ pc[n] = "del.undefine" => ~Active(n)

\* A create that has not read the interfaces has the configured address.
AddressGood(n) ==
    op[n] = "create" /\ pc[n] \notin ReadBehind /\ (pc[n] = "map.begin" => d[n] = None)
        => attr[n].addr = asked[n].addr

Good(n) == ControlGood(n) /\ TypeGood(n) /\ TrackGood(n) /\ AddressGood(n)

\* The inductive invariant.
IInv == TypeOK /\ \A n \in Domain : Good(n)

-----------------------------------------------------------------------------
(* A step of one domain.                                                    *)

\* What a step may do to libvirt's side of a domain.
Affects(n) ==
    /\ \E st \in DomainState : dst' = [dst EXCEPT ![n] = st]
    /\ \E who \in Domain \union {Foreign, None} : author' = [author EXCEPT ![n] = who]
    /\ \E ip \in IP \union {None} : dhcp' = [dhcp EXCEPT ![n] = ip]
    /\ \E ip \in IP \union {None} : lease' = [lease EXCEPT ![n] = ip]

\* What a step may do to the handler.
Handles(n) ==
    /\ \E label \in Label : pc' = [pc EXCEPT ![n] = label]
    /\ \E kind \in {"none", "create", "read", "update", "delete"} : op' = [op EXCEPT ![n] = kind]
    /\ \E config \in Config : asked' = [asked EXCEPT ![n] = config]
    /\ \E config \in Config : attr' = [attr EXCEPT ![n] = config]
    /\ \E run \in BOOLEAN : required' = [required EXCEPT ![n] = run]
    /\ \E id \in {n, None} : d' = [d EXCEPT ![n] = id]
    /\ \E id \in {n, None} : state' = [state EXCEPT ![n] = id]
    /\ \E config \in Config : saved' = [saved EXCEPT ![n] = config]
    /\ \E error \in BOOLEAN : failed' = [failed EXCEPT ![n] = error]

\* A delete that ends without an error leaves nothing.
Deletes(n) == op[n] = "delete" /\ op'[n] = "none" /\ ~failed'[n] => ~Own(n)'

Step(n) == Affects(n) /\ Handles(n) /\ Good(n)' /\ Deletes(n)

\* A step of n keeps what is true of the other domains.
LEMMA StepKeeps ==
    ASSUME IInv, NEW n \in Domain, Step(n)
    PROVE  IInv'
<1>1. DomainTypeOK'
  BY DEF IInv, TypeOK, DomainTypeOK, Step, Affects
<1>2. /\ pc' \in [Domain -> Label]
      /\ op' \in [Domain -> {"none", "create", "read", "update", "delete"}]
      /\ asked' \in [Domain -> Config]
      /\ attr' \in [Domain -> Config]
      /\ required' \in [Domain -> BOOLEAN]
      /\ d' \in [Domain -> Domain \union {None}]
      /\ state' \in [Domain -> Domain \union {None}]
      /\ saved' \in [Domain -> Config]
      /\ failed' \in [Domain -> BOOLEAN]
  BY DEF IInv, TypeOK, Step, Handles
<1>3. ASSUME NEW m \in Domain
      PROVE  Good(m)'
  <2>1. CASE m = n
    BY <2>1 DEF Step
  <2>2. CASE m # n
    <3>1. dst'[m] = dst[m] /\ author'[m] = author[m]
      BY <2>2 DEF IInv, TypeOK, DomainTypeOK, Step, Affects
    <3>2. /\ pc'[m] = pc[m] /\ op'[m] = op[m] /\ asked'[m] = asked[m] /\ attr'[m] = attr[m]
          /\ d'[m] = d[m] /\ state'[m] = state[m]
      BY <2>2 DEF IInv, TypeOK, Step, Handles
    <3>3. Good(m)
      BY DEF IInv
    <3>4. QED
      BY <3>1, <3>2, <3>3
      DEF Good, ControlGood, TypeGood, TrackGood, AddressGood, Active, Own
  <2>3. QED
    BY <2>1, <2>2
<1>4. \A m \in Domain : TypeGood(m)'
  BY <1>3 DEF Good
<1>5. TypeOK'
  BY <1>1, <1>2, <1>4 DEF TypeOK, TypeGood
<1>6. QED
  BY <1>3, <1>5 DEF IInv

-----------------------------------------------------------------------------
(* What the steps have in common.                                           *)

LEMMA QuietAffects ==
    ASSUME IInv, NEW n \in Domain, UNCHANGED domainVars
    PROVE  Affects(n) /\ Own(n)' = Own(n) /\ Active(n)' = Active(n)
<1>1. Own(n)' = Own(n) /\ Active(n)' = Active(n)
  BY DEF Own, Active, domainVars
<1>2. \E st \in DomainState : dst' = [dst EXCEPT ![n] = st]
  BY DEF IInv, TypeOK, DomainTypeOK, domainVars
<1>3. \E who \in Domain \union {Foreign, None} : author' = [author EXCEPT ![n] = who]
  BY DEF IInv, TypeOK, DomainTypeOK, domainVars
<1>4. \E ip \in IP \union {None} : dhcp' = [dhcp EXCEPT ![n] = ip]
  BY DEF IInv, TypeOK, DomainTypeOK, domainVars
<1>5. \E ip \in IP \union {None} : lease' = [lease EXCEPT ![n] = ip]
  BY DEF IInv, TypeOK, DomainTypeOK, domainVars
<1>6. QED
  BY <1>1, <1>2, <1>3, <1>4, <1>5 DEF Affects

\* Each call touches one domain, and these are its effects.
LEMMA CallsAffect ==
    ASSUME IInv, NEW n \in Domain
    PROVE  /\ DomainDefineXML(n) => Affects(n) /\ ~Active(n)'
           /\ DomainCreate(n) => Affects(n)
           /\ DomainDestroy(n) => Affects(n) /\ ~Active(n)'
           /\ DomainUndefine(n) => Affects(n) /\ (Active(n)' => Active(n))
           /\ DomainUndefine(n) /\ ~Active(n) => ~Own(n)' /\ ~Active(n)'
           /\ DomainTurns(n) => Affects(n) /\ Active(n)
           /\ GetLease(n) => Affects(n) /\ Active(n)' = Active(n)
           /\ \A ip \in IP : SetHost(n, ip) => Affects(n) /\ Active(n)' = Active(n)
<1> USE DEF IInv, TypeOK, DomainTypeOK
<1>1. ASSUME UNCHANGED dhcp
      PROVE  \E ip \in IP \union {None} : dhcp' = [dhcp EXCEPT ![n] = ip]
  BY <1>1
<1>2. ASSUME UNCHANGED lease
      PROVE  \E ip \in IP \union {None} : lease' = [lease EXCEPT ![n] = ip]
  BY <1>2
<1>3. ASSUME UNCHANGED author
      PROVE  \E who \in Domain \union {Foreign, None} : author' = [author EXCEPT ![n] = who]
  BY <1>3
<1>4. ASSUME UNCHANGED dst
      PROVE  \E st \in DomainState : dst' = [dst EXCEPT ![n] = st]
  BY <1>4
<1>5. DomainDefineXML(n) => Affects(n) /\ ~Active(n)'
  BY <1>1, <1>2 DEF DomainDefineXML, Affects, Active, DomainState
<1>6. DomainCreate(n) => Affects(n)
  BY <1>1, <1>2, <1>3 DEF DomainCreate, Affects, DomainState
<1>7. Vanishes(n) => Affects(n) /\ ~Own(n)' /\ ~Active(n)'
  BY <1>1 DEF Vanishes, Affects, Own, Active, DomainState
<1>8. DomainDestroy(n) => Affects(n) /\ ~Active(n)'
  BY <1>1, <1>3, <1>7 DEF DomainDestroy, Affects, Active, DomainState
<1>9. DomainUndefine(n) => Affects(n) /\ (Active(n)' => Active(n))
  BY <1>1, <1>2, <1>3, <1>7
  DEF DomainUndefine, CanUndefine, Affects, Own, Active, DomainState
<1>10. DomainUndefine(n) /\ ~Active(n) => ~Own(n)' /\ ~Active(n)'
  BY <1>7 DEF DomainUndefine, CanUndefine, Active
<1>11. DomainTurns(n) => Affects(n) /\ Active(n)
  BY <1>1, <1>2, <1>3 DEF DomainTurns, Affects, Own, Active, DomainState
<1>12. GetLease(n) => Affects(n) /\ Active(n)' = Active(n)
  BY <1>1, <1>3, <1>4 DEF GetLease, Affects, Own, Active
<1>13. \A ip \in IP : SetHost(n, ip) => Affects(n) /\ Active(n)' = Active(n)
  BY <1>2, <1>3, <1>4 DEF SetHost, Affects, Own, Active
<1>14. QED
  BY <1>5, <1>6, <1>8, <1>9, <1>10, <1>11, <1>12, <1>13

\* A handler that stays what it is handles.
LEMMA Same ==
    ASSUME IInv, NEW n \in Domain
    PROVE  /\ op' = op => \E kind \in {"none", "create", "read", "update", "delete"} :
                              op' = [op EXCEPT ![n] = kind]
           /\ asked' = asked => \E config \in Config : asked' = [asked EXCEPT ![n] = config]
           /\ attr' = attr => \E config \in Config : attr' = [attr EXCEPT ![n] = config]
           /\ required' = required => \E run \in BOOLEAN : required' = [required EXCEPT ![n] = run]
           /\ d' = d => \E id \in {n, None} : d' = [d EXCEPT ![n] = id]
           /\ state' = state => \E id \in {n, None} : state' = [state EXCEPT ![n] = id]
           /\ saved' = saved => \E config \in Config : saved' = [saved EXCEPT ![n] = config]
           /\ failed' = failed => \E error \in BOOLEAN : failed' = [failed EXCEPT ![n] = error]
           /\ pc' = pc => \E label \in Label : pc' = [pc EXCEPT ![n] = label]
<1>1. d' = d => \E id \in {n, None} : d' = [d EXCEPT ![n] = id]
  BY DEF IInv, TypeOK
<1>2. state' = state => \E id \in {n, None} : state' = [state EXCEPT ![n] = id]
  BY DEF IInv, TypeOK
<1>3. QED
  BY <1>1, <1>2 DEF IInv, TypeOK

LEMMA GotoHandles ==
    ASSUME IInv, NEW n \in Domain, NEW label \in Label, Goto(n, label)
    PROVE  Handles(n) /\ pc'[n] = label
<1>1. \E l \in Label : pc' = [pc EXCEPT ![n] = l]
  BY DEF Goto
<1>2. Handles(n)
  BY <1>1, Same DEF Handles, Goto
<1>3. QED
  BY <1>2 DEF Goto, IInv, TypeOK

\* A handler that goes on to a label whose claims hold makes a step.
LEMMA GotoStep ==
    ASSUME IInv, NEW n \in Domain, Affects(n), pc[n] # "idle",
           NEW label \in Label \ {"idle", "map.begin"}, Goto(n, label),
           label \in Unnamed => pc[n] \in Unnamed,
           label \in Unnamed \union {"dom.finish"} \/ d[n] = n,
           label \in Mapping => attr[n].addr # None,
           pc[n] \in DeleteLabel => label \in DeleteLabel,
           pc[n] = "map.begin" \/ pc[n] \in ReadBehind => label \in ReadBehind,
           Active(n)' => d[n] = n,
           label = "del.undefine" => ~Active(n)'
    PROVE  Step(n)
<1>1. Handles(n) /\ pc'[n] = label
  BY GotoHandles
<1>2. Good(n)
  BY DEF IInv
<1>3. UNCHANGED <<op, asked, attr, d, state>>
  BY DEF Goto
<1>4. ControlGood(n)'
  BY <1>1, <1>2, <1>3 DEF Good, ControlGood
<1>5. TypeGood(n)'
  BY <1>1, <1>2, <1>3 DEF Good, TypeGood, Unnamed
<1>6. TrackGood(n)'
  BY <1>1, <1>3 DEF TrackGood
<1>7. AddressGood(n)'
  BY <1>1, <1>2, <1>3 DEF Good, AddressGood, ReadBehind
<1>8. Deletes(n)
  BY <1>2, <1>3 DEF Deletes, Good, ControlGood
<1>9. QED
  BY <1>1, <1>4, <1>5, <1>6, <1>7, <1>8 DEF Step, Good

LEMMA ReturnStep ==
    ASSUME IInv, NEW n \in Domain, Affects(n), pc[n] # "idle",
           NEW id \in {d[n], None}, NEW values \in Config, NEW error \in BOOLEAN,
           ReturnWith(n, id, values, error),
           Active(n)' => id = n,
           op[n] = "delete" /\ ~error => ~Own(n)'
    PROVE  Step(n)
<1>1. Good(n) /\ d[n] \in {n, None}
  BY DEF IInv, TypeOK
<1>2. Blank \in Config
  BY DEF Blank, Config
<1>3. /\ "idle" \in Label
      /\ (IF id = None THEN Blank ELSE values) \in Config
      /\ id \in {n, None}
  BY <1>1, <1>2 DEF Label
<1>4. Handles(n)
  BY <1>2, <1>3 DEF Handles, ReturnWith
<1>5. /\ pc'[n] = "idle" /\ op'[n] = "none" /\ d'[n] = id /\ state'[n] = id
      /\ failed'[n] = error
  BY DEF ReturnWith, IInv, TypeOK
<1>6. Good(n)'
  BY <1>3, <1>5
  DEF Good, ControlGood, TypeGood, TrackGood, AddressGood, DeleteLabel, Unnamed, Mapping
<1>7. QED
  BY <1>4, <1>5, <1>6 DEF Step, Deletes

\* A handler that ends with an error keeps its id.
LEMMA ErrorStep ==
    ASSUME IInv, NEW n \in Domain, pc[n] # "idle", ReturnError(n)
    PROVE  Step(n)
<1>1. Affects(n) /\ Active(n)' = Active(n)
  BY QuietAffects DEF ReturnError
<1>2. Active(n) => d[n] = n
  BY DEF IInv, Good, TrackGood
<1>3. attr[n] \in Config
  BY DEF IInv, TypeOK
<1>4. QED
  BY <1>1, <1>2, <1>3, ReturnStep DEF ReturnError

-----------------------------------------------------------------------------
(* The create.                                                              *)

\* Entering a host changes no domain.
LEMMA ModifyHostStep ==
    ASSUME IInv, NEW n \in Domain, pc[n] = "dom.prepare", attr[n].addr # None,
           ModifyHost(n, attr[n].addr, "host.add", "dom.define")
    PROVE  Step(n)
<1> USE DEF Label, Unnamed, Mapping, DeleteLabel, ReadBehind
<1>1. attr[n].addr \in IP
  BY DEF IInv, TypeOK, Config
<1>2. Active(n) => d[n] = n
  BY DEF IInv, Good, TrackGood
<1>3. CASE SetHost(n, attr[n].addr) /\ Goto(n, "dom.define")
  <2>1. Affects(n) /\ Active(n)' = Active(n)
    BY <1>1, <1>3, CallsAffect
  <2>2. QED
    BY <1>2, <1>3, <2>1, GotoStep
<1>4. CASE Goto(n, "host.add") /\ UNCHANGED domainVars
  <2>1. Affects(n) /\ Active(n)' = Active(n)
    BY <1>4, QuietAffects
  <2>2. QED
    BY <1>2, <1>4, <2>1, GotoStep
<1>5. QED
  BY <1>3, <1>4 DEF ModifyHost

\* The calls of a create before the domain runs.
LEMMA CreateSteps ==
    ASSUME IInv, NEW n \in Domain, DomainPrepare(n) \/ HostAdd(n) \/ DomainDefine(n)
    PROVE  Step(n)
<1> USE DEF Label, Unnamed, Mapping, DeleteLabel, ReadBehind
<1>1. (Active(n) => d[n] = n) /\ attr[n].addr \in IP \union {None}
  BY DEF IInv, Good, TrackGood, TypeOK, Config
<1>2. CASE DomainPrepare(n)
  <2>1. CASE attr[n].addr = None /\ Goto(n, "dom.define") /\ UNCHANGED domainVars
    <3>1. Affects(n) /\ Active(n)' = Active(n)
      BY <2>1, QuietAffects
    <3>2. QED
      BY <1>1, <1>2, <2>1, <3>1, GotoStep DEF DomainPrepare
  <2>2. QED
    BY <1>2, <2>1, ModifyHostStep, ErrorStep DEF DomainPrepare
<1>3. CASE HostAdd(n)
  <2>1. attr[n].addr # None
    BY <1>3 DEF HostAdd, IInv, TypeOK
  <2>2. CASE AddHost(n, attr[n].addr, "dom.define")
    <3>1. Affects(n) /\ Active(n)' = Active(n)
      BY <1>1, <2>1, <2>2, CallsAffect DEF AddHost
    <3>2. QED
      BY <1>1, <1>3, <2>2, <3>1, GotoStep DEF HostAdd, AddHost
  <2>3. QED
    BY <1>3, <2>2, ErrorStep DEF HostAdd
<1>4. CASE DomainDefine(n)
  <2>1. CASE DomainDefineXML(n) /\ Goto(n, "dom.start")
    <3>1. Affects(n) /\ ~Active(n)'
      BY <2>1, CallsAffect
    <3>2. QED
      BY <1>4, <2>1, <3>1, GotoStep DEF DomainDefine
  <2>2. QED
    BY <1>4, <2>1, ErrorStep DEF DomainDefine
<1>5. QED
  BY <1>2, <1>3, <1>4

\* The id is set when the domain runs.
LEMMA StartStep ==
    ASSUME IInv, NEW n \in Domain, DomainStart(n)
    PROVE  Step(n)
<1>1. CASE /\ DomainCreate(n)
           /\ pc' = [pc EXCEPT ![n] = "dom.wait"]
           /\ d' = [d EXCEPT ![n] = n]
           /\ UNCHANGED <<op, asked, attr, required, state, saved, failed>>
  <2>1. Affects(n)
    BY <1>1, CallsAffect
  <2>2. "dom.wait" \in Label
    BY DEF Label
  <2>3. Handles(n)
    BY <1>1, <2>2, Same DEF Handles
  <2>4. pc'[n] = "dom.wait" /\ d'[n] = n
    BY <1>1 DEF IInv, TypeOK
  <2>5. Good(n) /\ pc[n] = "dom.start"
    BY DEF IInv, DomainStart
  <2>6. op[n] # "delete" /\ op[n] # "none"
    BY <2>5 DEF Good, ControlGood, DeleteLabel
  <2>7. Good(n)'
    BY <1>1, <2>4, <2>5, <2>6
    DEF Good, ControlGood, TypeGood, TrackGood, AddressGood, Unnamed, Mapping, ReadBehind
  <2>8. QED
    BY <1>1, <2>1, <2>3, <2>6, <2>7 DEF Step, Deletes
<1>2. CASE ReturnError(n)
  BY <1>2, ErrorStep DEF DomainStart
<1>3. QED
  BY <1>1, <1>2 DEF DomainStart

\* The wait changes nothing but the place of the handler.
LEMMA WaitStep ==
    ASSUME IInv, NEW n \in Domain, DomainWait(n)
    PROVE  Step(n)
<1>1. CASE BeginRead(n) /\ UNCHANGED domainVars
  <2>1. Affects(n) /\ Active(n)' = Active(n)
    BY <1>1, QuietAffects
  <2>2. "read.lookup" \in Label /\ attr[n].run \in BOOLEAN
    BY DEF Label, IInv, TypeOK, Config
  <2>3. Handles(n)
    BY <1>1, <2>2, Same DEF Handles, BeginRead
  <2>4. pc'[n] = "read.lookup" /\ UNCHANGED <<op, asked, attr, d, state>>
    BY <1>1 DEF BeginRead, IInv, TypeOK
  <2>5. Good(n) /\ pc[n] = "dom.wait"
    BY DEF IInv, DomainWait
  <2>6. op[n] # "delete" /\ op[n] # "none"
    BY <2>5 DEF Good, ControlGood, DeleteLabel
  <2>7. Good(n)'
    BY <2>1, <2>4, <2>5, <2>6
    DEF Good, ControlGood, TypeGood, TrackGood, AddressGood, Unnamed, Mapping, ReadBehind
  <2>8. QED
    BY <2>1, <2>3, <2>4, <2>6, <2>7 DEF Step, Deletes
<1>2. CASE ReturnError(n)
  BY <1>2, ErrorStep DEF DomainWait
<1>3. QED
  BY <1>1, <1>2 DEF DomainWait

-----------------------------------------------------------------------------
(* The read.                                                                *)

\* A read that moves on, with the id or the attributes that it has found.
LEMMA ReadMoves ==
    ASSUME IInv, NEW n \in Domain, UNCHANGED domainVars,
           pc[n] \in {"read.lookup", "read.state", "read.interfaces"},
           NEW label \in {"read.interfaces", "map.begin"},
           pc' = [pc EXCEPT ![n] = label],
           NEW id \in {n, None}, d' = [d EXCEPT ![n] = id],
           NEW values \in Config, attr' = [attr EXCEPT ![n] = values],
           UNCHANGED <<op, asked, required, state, saved, failed>>,
           id = n \/ (~Own(n) /\ label = "map.begin"),
           label = "map.begin" => op[n] = "create",
           label = "read.interfaces" \/ id = None => values.addr = attr[n].addr
    PROVE  Step(n)
<1>1. Affects(n) /\ Own(n)' = Own(n) /\ Active(n)' = Active(n)
  BY QuietAffects
<1>2. Handles(n)
  BY Same DEF Handles, Label
<1>3. pc'[n] = label /\ d'[n] = id /\ attr'[n] = values
  BY DEF IInv, TypeOK
<1>4. Good(n)
  BY DEF IInv
<1>5. op[n] # "delete" /\ op[n] # "none"
  BY <1>4 DEF Good, ControlGood, DeleteLabel
<1>6. ControlGood(n)' /\ TypeGood(n)'
  BY <1>3, <1>4, <1>5 DEF Good, ControlGood, TypeGood, Unnamed, Mapping
<1>7. TrackGood(n)'
  BY <1>1, <1>3 DEF TrackGood, Active
<1>8. AddressGood(n)'
  BY <1>3, <1>4, DomainNoneAssumption DEF Good, AddressGood, ReadBehind
<1>9. QED
  BY <1>1, <1>2, <1>5, <1>6, <1>7, <1>8 DEF Step, Good, Deletes

LEMMA ReadSteps ==
    ASSUME IInv, NEW n \in Domain, ReadLookup(n) \/ ReadState(n) \/ ReadInterfaces(n)
    PROVE  Step(n)
<1> USE DEF Label, Unnamed, Mapping, DeleteLabel, ReadBehind
<1>1. (Active(n) => d[n] = n) /\ attr[n] \in Config
  BY DEF IInv, Good, TrackGood, TypeOK
<1>2. CASE ReadLookup(n)
  <2>1. pc[n] = "read.lookup" /\ d[n] = n
    BY <1>2 DEF ReadLookup, IInv, TypeOK
  <2>2. Affects(n) /\ Own(n)' = Own(n) /\ Active(n)' = Active(n)
    BY <1>2, QuietAffects DEF ReadLookup
  <2>3. CASE Goto(n, "read.state")
    BY <1>1, <2>1, <2>2, <2>3, GotoStep
  <2>4. CASE ~Own(n) /\ ReturnOk(n, None)
    BY <1>1, <2>1, <2>2, <2>4, ReturnStep DEF ReturnOk, Active
  <2>5. CASE /\ ~Own(n) /\ op[n] = "create"
             /\ d' = [d EXCEPT ![n] = None]
             /\ pc' = [pc EXCEPT ![n] = "map.begin"]
             /\ UNCHANGED <<op, asked, attr, required, state, saved, failed>>
    <3>1. attr' = [attr EXCEPT ![n] = attr[n]]
      BY <2>5 DEF IInv, TypeOK
    <3>2. QED
      BY <1>1, <1>2, <2>1, <2>5, <3>1, ReadMoves DEF ReadLookup
  <2>6. QED
    BY <1>2, <2>1, <2>3, <2>4, <2>5, ErrorStep DEF ReadLookup
<1>3. CASE ReadState(n)
  <2>1. pc[n] = "read.state" /\ d[n] = n
    BY <1>3 DEF ReadState, IInv, TypeOK
  <2>2. CASE /\ attr' = [attr EXCEPT ![n].run = IsRunning(n)]
             /\ pc' = [pc EXCEPT ![n] = "read.interfaces"]
             /\ UNCHANGED <<domainVars, op, asked, required, d, state, saved, failed>>
    <3> DEFINE values == [attr[n] EXCEPT !.run = IsRunning(n)]
    <3>1. values \in Config /\ values.addr = attr[n].addr
      BY <1>1 DEF Config, IsRunning
    <3>2. attr' = [attr EXCEPT ![n] = values] /\ d' = [d EXCEPT ![n] = n]
      BY <2>1, <2>2 DEF IInv, TypeOK
    <3>3. QED
      BY <2>1, <2>2, <3>1, <3>2, ReadMoves
  <2>3. QED
    BY <1>3, <2>1, <2>2, ErrorStep DEF ReadState
<1>4. CASE ReadInterfaces(n)
  <2>1. pc[n] = "read.interfaces" /\ d[n] = n
    BY <1>4 DEF ReadInterfaces, IInv, TypeOK
  <2> DEFINE values == [attr[n] EXCEPT !.addr = Addresses(n)]
  <2>2. values \in Config
    BY <1>1 DEF Config, Addresses, IInv, TypeOK, DomainTypeOK
  <2>3. CASE /\ op[n] = "read"
             /\ ReturnWith(n, d[n], values, FALSE)
             /\ UNCHANGED domainVars
    <3>1. Affects(n) /\ Active(n)' = Active(n)
      BY <2>3, QuietAffects
    <3>2. QED
      BY <1>1, <2>1, <2>2, <2>3, <3>1, ReturnStep
  <2>4. CASE /\ op[n] = "create"
             /\ attr' = [attr EXCEPT ![n].addr = Addresses(n)]
             /\ pc' = [pc EXCEPT ![n] = "map.begin"]
             /\ UNCHANGED <<domainVars, op, asked, required, d, state, saved, failed>>
    <3>1. attr' = [attr EXCEPT ![n] = values] /\ d' = [d EXCEPT ![n] = n]
      BY <2>1, <2>4 DEF IInv, TypeOK
    <3>2. n # None
      BY DomainNoneAssumption
    <3>3. QED
      BY <2>1, <2>2, <2>4, <3>1, <3>2, ReadMoves
  <2>5. QED
    BY <1>4, <2>1, <2>3, <2>4, ErrorStep DEF ReadInterfaces
<1>5. QED
  BY <1>2, <1>3, <1>4

-----------------------------------------------------------------------------
(* The end of the create.                                                   *)

\* The mapping begins with an id, since the address was read.
LEMMA MapStep ==
    ASSUME IInv, NEW n \in Domain, MapBegin(n)
    PROVE  Step(n)
<1> DEFINE values == [attr[n] EXCEPT !.run = required[n]]
<1>1. /\ values \in Config /\ values.addr = attr[n].addr
      /\ attr' = [attr EXCEPT ![n] = values]
  <2>1. attr[n] \in Config /\ required[n] \in BOOLEAN
    BY DEF IInv, TypeOK
  <2>2. values \in Config /\ values.addr = attr[n].addr
    BY <2>1 DEF Config
  <2>3. attr' = [attr EXCEPT ![n] = values]
    BY DEF MapBegin
  <2>4. QED
    BY <2>2, <2>3
<1>2. Good(n) /\ pc[n] = "map.begin" /\ op[n] = "create"
  BY DEF IInv, Good, ControlGood, MapBegin
<1>3. Mappable(n) => d[n] = n /\ attr[n].addr \in IP
  BY <1>2 DEF Mappable, Good, TypeGood, AddressGood, ReadBehind, IInv, TypeOK, Config
<1>4. Affects(n) /\ Active(n)' = Active(n)
  BY <1>3, QuietAffects, CallsAffect DEF MapBegin, MapOrFinish
<1>5. PICK label \in {"map.add", "dom.finish"} :
         /\ pc' = [pc EXCEPT ![n] = label]
         /\ label = "map.add" => Mappable(n)
  BY DEF MapBegin, MapOrFinish
<1>6. Handles(n)
  BY <1>1, <1>5, Same DEF Handles, MapBegin, Label
<1>7. /\ pc'[n] = label /\ attr'[n] = values
      /\ UNCHANGED <<op, asked, d, state>>
  BY <1>1, <1>5 DEF IInv, TypeOK, MapBegin
<1>8. Good(n)'
  <2>1. ControlGood(n)'
    BY <1>2, <1>5, <1>7 DEF Good, ControlGood
  <2>2. TypeGood(n)'
    BY <1>1, <1>2, <1>3, <1>5, <1>7 DEF Good, TypeGood, Mappable, Unnamed, Mapping
  <2>3. TrackGood(n)'
    BY <1>2, <1>4, <1>5, <1>7 DEF Good, TrackGood
  <2>4. AddressGood(n)'
    BY <1>5, <1>7 DEF AddressGood, ReadBehind
  <2>5. QED
    BY <2>1, <2>2, <2>3, <2>4 DEF Good
<1>9. QED
  BY <1>2, <1>4, <1>6, <1>8 DEF Step, Deletes

LEMMA FinishSteps ==
    ASSUME IInv, NEW n \in Domain, MapAdd(n) \/ DomainFinish(n) \/ DomainStop(n)
    PROVE  Step(n)
<1> USE DEF Label, Unnamed, Mapping, DeleteLabel, ReadBehind
<1>1. (Active(n) => d[n] = n) /\ attr[n] \in Config /\ attr[n].addr \in IP \union {None}
  BY DEF IInv, Good, TrackGood, TypeOK, Config
<1>2. CASE MapAdd(n)
  <2>1. attr[n].addr # None /\ pc[n] = "map.add"
    BY <1>2 DEF MapAdd, IInv, TypeOK
  <2>2. Goto(n, "dom.finish")
    BY <1>2 DEF MapAdd, AddHost
  <2>3. Affects(n) /\ Active(n)' = Active(n)
    BY <1>1, <1>2, <2>1, QuietAffects, CallsAffect DEF MapAdd, AddHost
  <2>4. QED
    BY <1>1, <2>1, <2>2, <2>3, GotoStep
<1>3. CASE DomainFinish(n)
  <2>1. CASE UNCHANGED domainVars
    <3>1. Affects(n) /\ Active(n)' = Active(n)
      BY <2>1, QuietAffects
    <3>2. pc[n] = "dom.finish" /\ op[n] # "delete"
      BY <1>3 DEF DomainFinish, IInv, Good, ControlGood
    <3>3. CASE ReturnOk(n, d[n])
      BY <1>1, <3>1, <3>2, <3>3, ReturnStep DEF ReturnOk
    <3>4. CASE Active(n) /\ Goto(n, "dom.destroy")
      BY <1>1, <3>1, <3>2, <3>4, GotoStep
    <3>5. QED
      BY <1>3, <3>2, <3>3, <3>4, ErrorStep DEF DomainFinish
  <2>2. QED
    BY <1>3, <2>1 DEF DomainFinish, ReturnError
<1>4. CASE DomainStop(n)
  <2>1. pc[n] = "dom.destroy" /\ op[n] # "delete"
    BY <1>4 DEF DomainStop, IInv, Good, ControlGood
  <2>2. CASE DomainDestroy(n) /\ ReturnOk(n, d[n])
    <3>1. Affects(n) /\ ~Active(n)'
      BY <2>2, CallsAffect
    <3>2. QED
      BY <1>1, <2>1, <2>2, <3>1, ReturnStep DEF ReturnOk
  <2>3. QED
    BY <1>4, <2>1, <2>2, ErrorStep DEF DomainStop
<1>5. QED
  BY <1>2, <1>3, <1>4

-----------------------------------------------------------------------------
(* The update and the delete.                                               *)

LEMMA UpdateSteps ==
    ASSUME IInv, NEW n \in Domain,
           \/ UpdateLookup(n) \/ UpdateStart(n) \/ UpdateDevices(n)
           \/ UpdateModify(n) \/ UpdateAdd(n)
    PROVE  Step(n)
<1> USE DEF Label, Unnamed, Mapping, DeleteLabel, ReadBehind
<1>1. /\ pc[n] \in {"up.lookup", "up.start", "up.devices", "up.modify", "up.add"}
      /\ d[n] = n /\ op[n] # "delete" /\ attr[n] \in Config
      /\ attr[n].addr \in IP \union {None}
  BY DEF UpdateLookup, UpdateStart, UpdateDevices, UpdateModify, UpdateAdd,
         IInv, TypeOK, Good, ControlGood, Config
<1>2. ASSUME Affects(n), NEW label \in {"up.start", "up.devices", "up.modify", "up.add"},
             label \in Mapping => attr[n].addr # None, Goto(n, label)
      PROVE  Step(n)
  BY <1>1, <1>2, GotoStep
<1>3. ASSUME Affects(n), ReturnOk(n, d[n])
      PROVE  Step(n)
  BY <1>1, <1>3, ReturnStep DEF ReturnOk
<1>4. CASE UpdateLookup(n)
  BY <1>1, <1>2, <1>4, QuietAffects, ErrorStep DEF UpdateLookup
<1>5. CASE UpdateStart(n)
  BY <1>1, <1>2, <1>5, CallsAffect, ErrorStep DEF UpdateStart
<1>6. CASE UpdateDevices(n)
  BY <1>1, <1>2, <1>3, <1>6, QuietAffects, ErrorStep DEF UpdateDevices
<1>7. CASE UpdateModify(n)
  <2>1. attr[n].addr \in IP
    BY <1>1, <1>7 DEF UpdateModify, IInv, TypeOK
  <2>2. SetHost(n, attr[n].addr) => Affects(n)
    BY <2>1, CallsAffect
  <2>3. QED
    BY <1>1, <1>2, <1>3, <1>7, <2>1, <2>2, DomainNoneAssumption, QuietAffects, ErrorStep
    DEF UpdateModify
<1>8. CASE UpdateAdd(n)
  <2>1. attr[n].addr \in IP
    BY <1>1, <1>8 DEF UpdateAdd, IInv, TypeOK
  <2>2. SetHost(n, attr[n].addr) => Affects(n)
    BY <2>1, CallsAffect
  <2>3. QED
    BY <1>1, <1>3, <1>8, <2>2, ErrorStep DEF UpdateAdd
<1>9. QED
  BY <1>4, <1>5, <1>6, <1>7, <1>8

LEMMA DeleteSteps ==
    ASSUME IInv, NEW n \in Domain, DeleteLookup(n) \/ DeleteDestroy(n) \/ DeleteUndefine(n)
    PROVE  Step(n)
<1> USE DEF Label, Unnamed, Mapping, DeleteLabel, ReadBehind
<1>1. /\ pc[n] \in DeleteLabel
      /\ d[n] = n /\ attr[n] \in Config
      /\ pc[n] = "del.undefine" => ~Active(n)
  BY DEF DeleteLookup, DeleteDestroy, DeleteUndefine, IInv, TypeOK, Good, TrackGood
<1>2. CASE DeleteLookup(n)
  <2>1. CASE UNCHANGED domainVars
    <3>1. Affects(n) /\ Active(n)' = Active(n)
      BY <2>1, QuietAffects
    <3>2. CASE Goto(n, "del.destroy")
      BY <1>1, <3>1, <3>2, GotoStep
    <3>3. CASE ~Active(n) /\ Goto(n, "del.undefine")
      BY <1>1, <3>1, <3>3, GotoStep
    <3>4. QED
      BY <1>1, <1>2, <3>2, <3>3, ErrorStep DEF DeleteLookup
  <2>2. QED
    BY <1>2, <2>1 DEF DeleteLookup, ReturnError
<1>3. CASE DeleteDestroy(n)
  <2>1. CASE DomainDestroy(n) /\ Goto(n, "del.undefine")
    <3>1. Affects(n) /\ ~Active(n)'
      BY <2>1, CallsAffect
    <3>2. QED
      BY <1>1, <2>1, <3>1, GotoStep
  <2>2. QED
    BY <1>1, <1>3, <2>1, ErrorStep DEF DeleteDestroy
<1>4. CASE DeleteUndefine(n)
  <2>1. CASE DomainUndefine(n) /\ ReturnOk(n, None)
    <3>1. Affects(n) /\ ~Active(n)' /\ ~Own(n)'
      BY <1>1, <1>4, <2>1, CallsAffect DEF DeleteUndefine
    <3>2. QED
      BY <1>1, <2>1, <3>1, ReturnStep DEF ReturnOk
  <2>2. QED
    BY <1>1, <1>4, <2>1, ErrorStep DEF DeleteUndefine
<1>5. QED
  BY <1>2, <1>3, <1>4

LEMMA HandlerSteps ==
    ASSUME IInv, NEW n \in Domain, HandlerStep(n)
    PROVE  Step(n)
BY CreateSteps, StartStep, WaitStep, ReadSteps, MapStep, FinishSteps, UpdateSteps, DeleteSteps
DEF HandlerStep

-----------------------------------------------------------------------------
(* Terraform, guests and the outside.                                       *)

\* A handler begins with the id of the state, and a create with none.
LEMMA BeginStep ==
    ASSUME IInv, NEW n \in Domain,
           NEW kind \in {"create", "read", "update", "delete"},
           NEW label \in {"dom.prepare", "read.lookup", "up.lookup", "del.lookup"},
           NEW config \in Config, NEW values \in Config,
           Begin(n, kind, label, config, values),
           IF state[n] = None THEN label = "dom.prepare" /\ kind = "create" /\ values = config
                              ELSE label # "dom.prepare" /\ kind # "create",
           kind = "delete" => label = "del.lookup"
    PROVE  Step(n)
<1>1. Affects(n) /\ Active(n)' = Active(n)
  BY QuietAffects DEF Begin
<1>2. label \in Label
  BY DEF Label
<1>3. Handles(n)
  BY <1>2, Same DEF Handles, Begin
<1>4. /\ pc'[n] = label /\ op'[n] = kind /\ asked'[n] = config /\ attr'[n] = values
      /\ UNCHANGED <<d, state>>
  BY DEF Begin, IInv, TypeOK
<1>5. Good(n) /\ d[n] = state[n] /\ state[n] \in {n, None}
  BY DEF IInv, Good, ControlGood, TypeGood, Begin
<1>6. ControlGood(n)' /\ TypeGood(n)'
  BY <1>4, <1>5 DEF ControlGood, TypeGood, DeleteLabel, Unnamed, Mapping
<1>7. TrackGood(n)' /\ AddressGood(n)'
  BY <1>1, <1>4, <1>5 DEF Good, TrackGood, AddressGood
<1>8. Deletes(n)
  BY <1>4 DEF Deletes
<1>9. QED
  BY <1>1, <1>3, <1>6, <1>7, <1>8 DEF Step, Good

LEMMA TerraformSteps ==
    ASSUME IInv, NEW n \in Domain,
           BeginCreate(n) \/ BeginRefresh(n) \/ BeginUpdate(n) \/ BeginDelete(n)
    PROVE  Step(n)
<1>1. saved[n] \in Config /\ Wanted[n] \subseteq Config
  BY DomainAssumption DEF IInv, TypeOK
<1>2. CASE BeginCreate(n)
  BY <1>1, <1>2, BeginStep DEF BeginCreate
<1>3. CASE BeginRefresh(n)
  BY <1>1, <1>3, BeginStep DEF BeginRefresh
<1>4. CASE BeginUpdate(n)
  <2>1. PICK config \in Wanted[n] :
           Begin(n, "update", "up.lookup", config, Planned(n, config))
    BY <1>4 DEF BeginUpdate
  <2>2. Planned(n, config) \in Config
    BY <1>1 DEF Planned, Config
  <2>3. QED
    BY <1>1, <1>4, <2>1, <2>2, BeginStep DEF BeginUpdate
<1>5. CASE BeginDelete(n)
  BY <1>1, <1>5, BeginStep DEF BeginDelete
<1>6. QED
  BY <1>2, <1>3, <1>4, <1>5

\* Guests and people do not make a domain run that does not.
LEMMA OutsideSteps ==
    ASSUME IInv, NEW n \in Domain,
           GuestLeases(n) \/ OutsideStop(n) \/ OutsideUndefine(n) \/ OutsideTurn(n)
    PROVE  Step(n)
<1>1. UNCHANGED handlerVars
  BY DEF GuestLeases, OutsideStop, OutsideUndefine, OutsideTurn
<1>2. Affects(n) /\ (Active(n)' => Active(n))
  BY CallsAffect DEF GuestLeases, OutsideStop, OutsideUndefine, OutsideTurn
<1>3. Handles(n)
  BY <1>1, Same DEF Handles, handlerVars
<1>4. Good(n)
  BY DEF IInv
<1>5. Good(n)'
  BY <1>1, <1>2, <1>4
  DEF Good, ControlGood, TypeGood, TrackGood, AddressGood, handlerVars
<1>6. Deletes(n)
  BY <1>1, <1>4 DEF Deletes, Good, ControlGood, DeleteLabel, handlerVars
<1>7. QED
  BY <1>2, <1>3, <1>5, <1>6 DEF Step

LEMMA NextSteps ==
    ASSUME IInv, Next
    PROVE  \E n \in Domain : Step(n)
BY HandlerSteps, TerraformSteps, OutsideSteps DEF Next

-----------------------------------------------------------------------------
(* What a create goes through: the second invariant, for each domain.       *)

\* The labels of each operation.
ReadLabel == {"read.lookup", "read.state", "read.interfaces"}
UpdateLabel == {"up.lookup", "up.start", "up.devices", "up.modify", "up.add"}
Started == {"dom.wait", "map.begin"} \union ReadLabel \union ReadBehind

LabelGood(n) ==
    /\ op[n] = "create" => pc[n] \in Unnamed \union Started
    /\ op[n] = "read" => pc[n] \in ReadLabel
    /\ op[n] = "update" => pc[n] \in UpdateLabel

\* A domain that is there has an author, and a guest that does not run no lease.
GuestGood(n) ==
    /\ author[n] \in {n, Foreign, None}
    /\ dst[n] = "absent" <=> author[n] = None
    /\ dst[n] \in {"absent", "shutoff"} => lease[n] = None

\* An address that is configured is entered before the domain is defined, is the one
\* that the guest leases, and is not entered a second time.
ReserveGood(n) ==
    /\ pc[n] \in {"host.add", "map.add"} => dhcp[n] = None
    /\ pc[n] = "map.add" => asked[n].addr = None
    /\ op[n] = "update" /\ asked[n].addr # None => attr[n].addr = asked[n].addr
    /\ op[n] = "create" /\ asked[n].addr # None /\ pc[n] \in {"dom.define", "dom.start"} \union Started
           => dhcp[n] = asked[n].addr
    /\ op[n] = "create" /\ asked[n].addr # None /\ pc[n] \in Started
           => lease[n] \in {None, asked[n].addr}

\* The attribute "running", which the read overwrites, and the mapping restores.
RunGood(n) ==
    /\ op[n] = "create" => attr[n].wait = asked[n].wait
    /\ op[n] = "create" /\ pc[n] \in Unnamed \union {"dom.wait"} \union ReadBehind => attr[n].run = asked[n].run
    /\ op[n] = "create" /\ pc[n] \in ReadLabel \union {"map.begin"} => required[n] = asked[n].run
    /\ pc[n] = "dom.destroy" => ~attr[n].run

\* Without mishaps.
CalmGood(n) == Mishap[n] = {} =>
    /\ (op[n] = "none" /\ state[n] = None) \/ pc[n] \in Unnamed \ {"dom.start"} => ~Own(n)
    /\ pc[n] = "dom.start" => CanStart(n)
    /\ op[n] = "create" /\ pc[n] \in Started => d[n] = n /\ author[n] = n /\ dst[n] = "running"
    /\ op[n] = "create" /\ asked[n].wait /\ pc[n] \in Started \ {"dom.wait"} => lease[n] # None
    /\ op[n] = "create" /\ asked[n].wait /\ pc[n] \in {"map.begin"} \union ReadBehind
           => attr[n].addr = lease[n]

Detail(n) == LabelGood(n) /\ GuestGood(n) /\ ReserveGood(n) /\ RunGood(n) /\ CalmGood(n)
DetailInv == IInv /\ \A n \in Domain : Detail(n)
-----------------------------------------------------------------------------
(* What a step does to its domain.                                          *)

SameGuest(n) == dst'[n] = dst[n] /\ author'[n] = author[n] /\ lease'[n] = lease[n]

SameAsked(n) == op'[n] = op[n] /\ asked'[n] = asked[n] /\ state'[n] = state[n] /\ saved'[n] = saved[n]

LEMMA Moves ==
    ASSUME IInv, NEW n \in Domain
    PROVE  /\ \A label \in Label : Goto(n, label) =>
                /\ pc'[n] = label /\ SameAsked(n)
                /\ attr'[n] = attr[n] /\ required'[n] = required[n] /\ d'[n] = d[n]
           /\ BeginRead(n) =>
                /\ pc'[n] = "read.lookup" /\ SameAsked(n)
                /\ attr'[n] = attr[n] /\ required'[n] = attr[n].run /\ d'[n] = d[n]
           /\ \A id, values, error : ReturnWith(n, id, values, error) =>
                /\ pc'[n] = "idle" /\ op'[n] = "none" /\ asked'[n] = Blank /\ d'[n] = id
                /\ state'[n] = id /\ failed'[n] = error
                /\ saved'[n] = IF id = None THEN Blank ELSE values
BY DEF IInv, TypeOK, Goto, BeginRead, ReturnWith, SameAsked

LEMMA GuestEffects ==
    ASSUME IInv, NEW n \in Domain
    PROVE  /\ UNCHANGED domainVars => SameGuest(n) /\ dhcp'[n] = dhcp[n]
           /\ DomainDefineXML(n) =>
                dst'[n] = "shutoff" /\ author'[n] = n /\ lease'[n] = lease[n] /\ dhcp'[n] = dhcp[n]
           /\ DomainCreate(n) =>
                dst'[n] = "running" /\ author'[n] = author[n] /\ lease'[n] = lease[n] /\ dhcp'[n] = dhcp[n]
           /\ Vanishes(n) =>
                dst'[n] = "absent" /\ author'[n] = None /\ lease'[n] = None /\ dhcp'[n] = dhcp[n]
           /\ \A ip : SetHost(n, ip) => SameGuest(n) /\ dhcp'[n] = ip
<1> USE DEF IInv, TypeOK, DomainTypeOK, SameGuest
<1>1. UNCHANGED domainVars => SameGuest(n) /\ dhcp'[n] = dhcp[n]
  BY DEF domainVars
<1>2. DomainDefineXML(n) =>
        dst'[n] = "shutoff" /\ author'[n] = n /\ lease'[n] = lease[n] /\ dhcp'[n] = dhcp[n]
  BY DEF DomainDefineXML
<1>3. DomainCreate(n) =>
        dst'[n] = "running" /\ author'[n] = author[n] /\ lease'[n] = lease[n] /\ dhcp'[n] = dhcp[n]
  BY DEF DomainCreate
<1>4. Vanishes(n) =>
        dst'[n] = "absent" /\ author'[n] = None /\ lease'[n] = None /\ dhcp'[n] = dhcp[n]
  BY DEF Vanishes
<1>5. \A ip : SetHost(n, ip) => SameGuest(n) /\ dhcp'[n] = ip
  BY DEF SetHost
<1>6. QED
  BY <1>1, <1>2, <1>3, <1>4, <1>5

\* What a step may not do when an operation or a mapping ends.
Obeys(n) ==
    /\ Mishap[n] = {}
    /\ op[n] = "create"
    /\ op'[n] = "none"
    /\ ~failed'[n]
    => asked[n].run = (dst'[n] = "running") /\ saved'[n].run = asked[n].run

Maps(n) ==
    /\ Mishap[n] = {}
    /\ pc[n] # "dom.finish"
    /\ pc'[n] = "dom.finish"
    /\ asked[n].wait
    => /\ attr'[n].addr # None
       /\ (dhcp[n] = attr[n].addr \/ Reserved(n, attr[n].addr))'

Reserves(n) ==
    /\ op[n] = "create" \/ (op[n] = "update" /\ saved[n].addr # asked[n].addr)
    /\ op'[n] = "none"
    /\ ~failed'[n]
    /\ asked[n].addr # None
    => dhcp'[n] = asked[n].addr

Recreates(n) ==
    /\ Mishap[n] = {}
    /\ op[n] = "create"
    /\ op'[n] = "none"
    /\ failed'[n]
    => \/ pc[n] = "dom.wait"
       \/ author[n] = Foreign
       \/ Reserved(n, asked[n].addr)

Ends(n) == Obeys(n) /\ Maps(n) /\ Reserves(n) /\ Recreates(n)

\* A step that ends no operation and does not come to dom.finish.
LEMMA NoEnd ==
    ASSUME IInv, NEW n \in Domain, Detail(n),
           op'[n] # "none" \/ op[n] \notin {"create", "update"},
           pc'[n] = pc[n] \/ pc'[n] # "dom.finish"
    PROVE  Ends(n)
BY DEF Ends, Obeys, Maps, Reserves, Recreates

\* A step of n does not concern the others.
LEMMA OthersKeep ==
    ASSUME IInv, NEW n \in Domain, NEW m \in Domain, m # n, Step(n), Detail(m)
    PROVE  Detail(m)' /\ Ends(m)
<1>1. SameGuest(m) /\ dhcp'[m] = dhcp[m]
  BY DEF IInv, TypeOK, DomainTypeOK, Step, Affects, SameGuest
<1>2. /\ pc'[m] = pc[m] /\ SameAsked(m) /\ attr'[m] = attr[m]
      /\ required'[m] = required[m] /\ d'[m] = d[m]
  BY DEF IInv, TypeOK, Step, Handles, SameAsked
<1>3. LabelGood(m)' /\ GuestGood(m)'
  BY <1>1, <1>2 DEF Detail, LabelGood, GuestGood, SameGuest, SameAsked
<1>4. ReserveGood(m)' /\ RunGood(m)'
  BY <1>1, <1>2 DEF Detail, ReserveGood, RunGood, SameGuest, SameAsked
<1>5. CalmGood(m)'
  BY <1>1, <1>2 DEF Detail, CalmGood, Own, CanStart, SameGuest, SameAsked
<1>6. Ends(m)
  <2>1. op'[m] # "none" \/ op[m] \notin {"create", "update"}
    BY <1>2 DEF SameAsked
  <2>2. QED
    BY <1>2, <2>1, NoEnd
<1>7. QED
  BY <1>3, <1>4, <1>5, <1>6 DEF Detail

\* What is left when an operation has ended.
LEMMA ReturnDetail ==
    ASSUME IInv, NEW n \in Domain, Detail(n), GuestGood(n)',
           NEW id \in {n, None}, NEW values, NEW error \in BOOLEAN,
           ReturnWith(n, id, values, error),
           Mishap[n] = {} /\ id = None => ~Own(n)'
    PROVE  Detail(n)'
<1>1. pc'[n] = "idle" /\ op'[n] = "none" /\ state'[n] = id
  BY Moves
<1>2. QED
  BY <1>1
  DEF Detail, LabelGood, ReserveGood, RunGood, CalmGood, Unnamed, Started, ReadLabel, ReadBehind

\* An operation that fails, and was bound to, or meets a mishap.
LEMMA ErrorDetail ==
    ASSUME IInv, NEW n \in Domain, Detail(n), pc[n] # "idle", ReturnError(n),
           Mishap[n] = {} /\ op[n] = "create" =>
               \/ pc[n] = "dom.wait"
               \/ pc[n] \in Unnamed \ {"dom.start"} /\ (author[n] = Foreign \/ Reserved(n, asked[n].addr))
    PROVE  Detail(n)' /\ Ends(n)
<1>1. SameGuest(n) /\ UNCHANGED domainVars
  BY GuestEffects DEF ReturnError
<1>2. ReturnWith(n, d[n], attr[n], TRUE) /\ d[n] \in {n, None}
  BY DEF ReturnError, IInv, TypeOK
<1>3. pc'[n] = "idle" /\ op'[n] = "none" /\ failed'[n] = TRUE
  BY <1>2 DEF IInv, TypeOK, ReturnWith
<1>4. GuestGood(n)' /\ Own(n)' = Own(n)
  BY <1>1 DEF Detail, GuestGood, SameGuest, Own
<1>5. ASSUME Mishap[n] = {}, d[n] = None PROVE ~Own(n)
  <2>1. pc[n] \in Unnamed \union {"map.begin", "dom.finish"} /\ op[n] # "none"
    BY <1>5, DomainNoneAssumption DEF IInv, Good, ControlGood, TypeGood
  <2>2. op[n] = "create"
    BY <2>1 DEF IInv, TypeOK, Good, ControlGood, Detail, LabelGood, ReadLabel, UpdateLabel,
                DeleteLabel, Unnamed
  <2>3. pc[n] # "dom.wait"
    BY <2>1 DEF Unnamed
  <2>4. QED
    BY <1>5, <2>2, <2>3 DEF Detail, CalmGood
<1>6. Detail(n)'
  BY <1>2, <1>4, <1>5, ReturnDetail
<1>7. Ends(n)
  BY <1>3 DEF Ends, Obeys, Maps, Reserves, Recreates
<1>8. QED
  BY <1>6, <1>7

-----------------------------------------------------------------------------
(* The create, one call after the other.                                    *)

\* Before the domain is defined.
LEMMA PrepareDetail ==
    ASSUME IInv, NEW n \in Domain, Detail(n), DomainPrepare(n) \/ HostAdd(n)
    PROVE  Detail(n)' /\ Ends(n)
<1> USE DEF Unnamed, ReadLabel, ReadBehind, Started, Label
<1>1. /\ pc[n] \in {"dom.prepare", "host.add"} /\ op[n] = "create"
      /\ attr[n].addr = asked[n].addr
  BY DEF DomainPrepare, HostAdd, IInv, Good, ControlGood, AddressGood, Detail, LabelGood,
         DeleteLabel, UpdateLabel, TypeOK
<1>2. ASSUME ReturnError(n) /\ ((AddHostFails(n, attr[n].addr) /\ pc[n] = "host.add") \/ MayFail(n, "prepare"))
      PROVE  Detail(n)' /\ Ends(n)
  <2>1. Mishap[n] = {} => pc[n] = "host.add" /\ Reserved(n, asked[n].addr)
    BY <1>1, <1>2 DEF AddHostFails, MayFail, CanAddHost, Detail, ReserveGood
  <2>2. QED
    BY <1>1, <1>2, <2>1, ErrorDetail
<1>3. ASSUME NEW label \in {"host.add", "dom.define"}, Goto(n, label), SameGuest(n),
             label = "host.add" => dhcp'[n] = None,
             label = "dom.define" /\ asked[n].addr # None => dhcp'[n] = asked[n].addr
      PROVE  Detail(n)' /\ Ends(n)
  <2>1. /\ pc'[n] = label /\ SameAsked(n)
        /\ attr'[n] = attr[n] /\ required'[n] = required[n] /\ d'[n] = d[n]
    BY <1>3, Moves
  <2>2. LabelGood(n)' /\ GuestGood(n)' /\ RunGood(n)'
    BY <1>1, <1>3, <2>1 DEF Detail, LabelGood, GuestGood, RunGood, SameGuest, SameAsked
  <2>3. ReserveGood(n)'
    BY <1>1, <1>3, <2>1 DEF ReserveGood, SameAsked
  <2>4. CalmGood(n)'
    BY <1>1, <1>3, <2>1 DEF Detail, CalmGood, Own, CanStart, SameGuest, SameAsked
  <2>5. Ends(n)
    BY <1>1, <2>1, NoEnd DEF SameAsked
  <2>6. QED
    BY <2>2, <2>3, <2>4, <2>5 DEF Detail
<1>4. CASE DomainPrepare(n)
  <2>1. CASE attr[n].addr # None /\ ModifyHost(n, attr[n].addr, "host.add", "dom.define")
    <3>1. CASE SetHost(n, attr[n].addr) /\ Goto(n, "dom.define")
      BY <1>1, <1>3, <3>1, GuestEffects
    <3>2. CASE ~CanModifyHost(n) /\ Goto(n, "host.add") /\ UNCHANGED domainVars
      BY <1>3, <3>2, GuestEffects DEF CanModifyHost
    <3>3. QED
      BY <2>1, <3>1, <3>2 DEF ModifyHost
  <2>2. CASE attr[n].addr = None /\ Goto(n, "dom.define") /\ UNCHANGED domainVars
    BY <1>1, <1>3, <2>2, GuestEffects
  <2>3. QED
    BY <1>2, <1>4, <2>1, <2>2 DEF DomainPrepare
<1>5. CASE HostAdd(n)
  <2>1. CASE AddHost(n, attr[n].addr, "dom.define")
    <3>1. SameGuest(n) /\ dhcp'[n] = attr[n].addr
      BY <2>1, GuestEffects DEF AddHost
    <3>2. QED
      BY <1>1, <1>3, <2>1, <3>1 DEF AddHost
  <2>2. QED
    BY <1>2, <1>5, <2>1 DEF HostAdd
<1>6. QED
  BY <1>4, <1>5

\* The name is free, or somebody else has it.
LEMMA DefineDetail ==
    ASSUME IInv, NEW n \in Domain, Detail(n), DomainDefine(n)
    PROVE  Detail(n)' /\ Ends(n)
<1> USE DEF Unnamed, ReadLabel, ReadBehind, Started, Label
<1>1. pc[n] = "dom.define" /\ op[n] = "create" /\ attr[n].addr = asked[n].addr
  BY DEF DomainDefine, IInv, Good, ControlGood, AddressGood, Detail, LabelGood,
         DeleteLabel, UpdateLabel, TypeOK
<1>2. CASE ReturnError(n) /\ (~CanDefine(n) \/ MayFail(n, "define"))
  <2>1. Mishap[n] = {} => author[n] = Foreign
    BY <1>1, <1>2 DEF CanDefine, MayFail, Detail, CalmGood, GuestGood, Own
  <2>2. QED
    BY <1>1, <1>2, <2>1, ErrorDetail
<1>3. CASE DomainDefineXML(n) /\ Goto(n, "dom.start")
  <2>1. /\ pc'[n] = "dom.start" /\ SameAsked(n)
        /\ attr'[n] = attr[n] /\ required'[n] = required[n] /\ d'[n] = d[n]
    BY <1>3, Moves
  <2>2. /\ dst[n] = "absent" /\ dst'[n] = "shutoff" /\ author'[n] = n
        /\ lease'[n] = lease[n] /\ dhcp'[n] = dhcp[n]
    BY <1>3, GuestEffects DEF DomainDefineXML, CanDefine
  <2>3. LabelGood(n)' /\ RunGood(n)' /\ ReserveGood(n)'
    BY <1>1, <2>1, <2>2 DEF Detail, LabelGood, RunGood, ReserveGood, SameAsked
  <2>4. GuestGood(n)'
    BY <2>2, DomainNoneAssumption DEF Detail, GuestGood
  <2>5. CalmGood(n)'
    BY <1>1, <2>1, <2>2 DEF CalmGood, CanStart, Own, SameAsked
  <2>6. Ends(n)
    BY <1>1, <2>1, NoEnd DEF SameAsked
  <2>7. QED
    BY <2>3, <2>4, <2>5, <2>6 DEF Detail
<1>4. QED
  BY <1>2, <1>3 DEF DomainDefine

\* The guest starts without a lease.
LEMMA StartDetail ==
    ASSUME IInv, NEW n \in Domain, Detail(n), DomainStart(n)
    PROVE  Detail(n)' /\ Ends(n)
<1> USE DEF Unnamed, ReadLabel, ReadBehind, Started, Label
<1>1. pc[n] = "dom.start" /\ op[n] = "create"
  BY DEF DomainStart, IInv, Good, ControlGood, Detail, LabelGood,
         DeleteLabel, UpdateLabel, TypeOK
<1>2. CASE ReturnError(n) /\ (~CanStart(n) \/ MayFail(n, "start"))
  <2>1. Mishap[n] # {}
    BY <1>1, <1>2 DEF MayFail, Detail, CalmGood
  <2>2. QED
    BY <1>1, <1>2, <2>1, ErrorDetail
<1>3. CASE /\ DomainCreate(n)
           /\ pc' = [pc EXCEPT ![n] = "dom.wait"]
           /\ d' = [d EXCEPT ![n] = n]
           /\ UNCHANGED <<op, asked, attr, required, state, saved, failed>>
  <2>1. /\ pc'[n] = "dom.wait" /\ SameAsked(n)
        /\ attr'[n] = attr[n] /\ required'[n] = required[n] /\ d'[n] = n
    BY <1>3 DEF IInv, TypeOK, SameAsked
  <2>2. /\ dst[n] = "shutoff" /\ author[n] = n /\ dst'[n] = "running" /\ author'[n] = n
        /\ lease'[n] = lease[n] /\ dhcp'[n] = dhcp[n]
    BY <1>3, GuestEffects DEF DomainCreate, CanStart, Own
  <2>3. LabelGood(n)' /\ RunGood(n)' /\ ReserveGood(n)'
    BY <1>1, <2>1, <2>2 DEF Detail, LabelGood, RunGood, ReserveGood, GuestGood, SameAsked
  <2>4. GuestGood(n)'
    BY <2>2, DomainNoneAssumption DEF GuestGood
  <2>5. CalmGood(n)'
    BY <1>1, <2>1, <2>2 DEF CalmGood, SameAsked
  <2>6. Ends(n)
    BY <1>1, <2>1, NoEnd DEF SameAsked
  <2>7. QED
    BY <2>3, <2>4, <2>5, <2>6 DEF Detail
<1>4. QED
  BY <1>2, <1>3 DEF DomainStart

\* The wait ends with an address, or at its timeout.
LEMMA WaitDetail ==
    ASSUME IInv, NEW n \in Domain, Detail(n), DomainWait(n)
    PROVE  Detail(n)' /\ Ends(n)
<1> USE DEF Unnamed, ReadLabel, ReadBehind, Started, Label
<1>1. pc[n] = "dom.wait" /\ op[n] = "create"
  BY DEF DomainWait, IInv, Good, ControlGood, Detail, LabelGood,
         DeleteLabel, UpdateLabel, TypeOK
<1>2. CASE ReturnError(n)
  BY <1>1, <1>2, ErrorDetail
<1>3. CASE (attr[n].wait => HasAddress(n)) /\ BeginRead(n) /\ UNCHANGED domainVars
  <2>1. /\ pc'[n] = "read.lookup" /\ SameAsked(n)
        /\ attr'[n] = attr[n] /\ required'[n] = attr[n].run /\ d'[n] = d[n]
    BY <1>3, Moves
  <2>2. SameGuest(n) /\ dhcp'[n] = dhcp[n]
    BY <1>3, GuestEffects
  <2>3. LabelGood(n)' /\ RunGood(n)' /\ ReserveGood(n)' /\ GuestGood(n)'
    BY <1>1, <2>1, <2>2
    DEF Detail, LabelGood, RunGood, ReserveGood, GuestGood, SameAsked, SameGuest
  <2>4. CalmGood(n)'
    BY <1>1, <1>3, <2>1, <2>2
    DEF Detail, RunGood, CalmGood, HasAddress, SameAsked, SameGuest
  <2>5. Ends(n)
    BY <1>1, <2>1, NoEnd DEF SameAsked
  <2>6. QED
    BY <2>3, <2>4, <2>5 DEF Detail
<1>4. QED
  BY <1>2, <1>3 DEF DomainWait

\* The read within a create keeps what its end needs.
LEMMA ReadGoesOn ==
    ASSUME IInv, NEW n \in Domain, Detail(n), pc[n] \in ReadLabel,
           NEW label \in {"read.state", "read.interfaces", "map.begin"}, NEW values, NEW id,
           op[n] = "read" => label # "map.begin",
           UNCHANGED domainVars,
           pc'[n] = label, attr'[n] = values, d'[n] = id, SameAsked(n), required'[n] = required[n],
           values.wait = attr[n].wait,
           Mishap[n] = {} /\ op[n] = "create" => id = n,
           Mishap[n] = {} /\ op[n] = "create" /\ label = "map.begin" => values.addr = lease[n]
    PROVE  Detail(n)' /\ Ends(n)
<1> USE DEF Unnamed, ReadLabel, ReadBehind, Started
<1>1. SameGuest(n) /\ dhcp'[n] = dhcp[n]
  BY GuestEffects
<1>2. op[n] \in {"create", "read"}
  BY DEF IInv, TypeOK, Good, ControlGood, Detail, LabelGood, UpdateLabel, DeleteLabel
<1>3. LabelGood(n)' /\ GuestGood(n)' /\ RunGood(n)' /\ ReserveGood(n)'
  BY <1>1, <1>2 DEF Detail, LabelGood, GuestGood, RunGood, ReserveGood, SameGuest, SameAsked
<1>4. CalmGood(n)'
  BY <1>1, <1>2 DEF Detail, CalmGood, SameGuest, SameAsked
<1>5. Ends(n)
  BY <1>2, NoEnd DEF SameAsked
<1>6. QED
  BY <1>3, <1>4, <1>5 DEF Detail

LEMMA ReadDetail ==
    ASSUME IInv, NEW n \in Domain, Detail(n),
           ReadLookup(n) \/ ReadState(n) \/ ReadInterfaces(n)
    PROVE  Detail(n)' /\ Ends(n)
<1> USE DEF ReadLabel
<1>1. /\ pc[n] \in ReadLabel /\ op[n] \in {"create", "read"} /\ d[n] = n
      /\ attr[n] \in Config
  BY DEF ReadLookup, ReadState, ReadInterfaces, IInv, TypeOK, Good, ControlGood,
         Detail, LabelGood, UpdateLabel, DeleteLabel, Unnamed
<1>2. Mishap[n] = {} /\ op[n] = "create" => Own(n) /\ IsRunning(n)
  BY <1>1, DomainNoneAssumption DEF Detail, CalmGood, Started, Own, IsRunning
<1>3. ASSUME ReturnError(n), Mishap[n] # {} \/ op[n] = "read"
      PROVE  Detail(n)' /\ Ends(n)
  BY <1>1, <1>3, ErrorDetail
<1>4. ASSUME op[n] = "read", NEW id \in {n, None}, NEW values, UNCHANGED domainVars,
             ReturnWith(n, id, values, FALSE), id = None => ~Own(n)
      PROVE  Detail(n)' /\ Ends(n)
  <2>1. SameGuest(n)
    BY <1>4, GuestEffects
  <2>2. GuestGood(n)' /\ Own(n)' = Own(n)
    BY <2>1 DEF Detail, GuestGood, SameGuest, Own
  <2>3. Detail(n)'
    BY <1>4, <2>2, ReturnDetail
  <2>4. pc'[n] = "idle"
    BY <1>4, Moves
  <2>5. QED
    BY <1>4, <2>3, <2>4, NoEnd
<1>5. CASE ReadLookup(n)
  <2>1. CASE Own(n) /\ Goto(n, "read.state")
    <3>1. /\ pc'[n] = "read.state" /\ SameAsked(n)
          /\ attr'[n] = attr[n] /\ required'[n] = required[n] /\ d'[n] = d[n]
      BY <2>1, Moves DEF Label
    <3>2. QED
      BY <1>1, <1>5, <3>1, ReadGoesOn DEF ReadLookup
  <2>2. CASE ~Own(n) /\ op[n] = "read" /\ ReturnOk(n, None)
    BY <1>4, <1>5, <2>2 DEF ReadLookup, ReturnOk
  <2>3. CASE /\ ~Own(n) /\ op[n] = "create"
             /\ d' = [d EXCEPT ![n] = None]
             /\ pc' = [pc EXCEPT ![n] = "map.begin"]
             /\ UNCHANGED <<op, asked, attr, required, state, saved, failed>>
    <3>1. /\ pc'[n] = "map.begin" /\ SameAsked(n)
          /\ attr'[n] = attr[n] /\ required'[n] = required[n] /\ d'[n] = None
      BY <2>3 DEF IInv, TypeOK, SameAsked
    <3>2. QED
      BY <1>1, <1>2, <1>5, <2>3, <3>1, ReadGoesOn DEF ReadLookup
  <2>4. QED
    BY <1>3, <1>5, <2>1, <2>2, <2>3 DEF ReadLookup, MayFail
<1>6. CASE ReadState(n)
  <2>1. CASE /\ attr' = [attr EXCEPT ![n].run = IsRunning(n)]
             /\ pc' = [pc EXCEPT ![n] = "read.interfaces"]
             /\ UNCHANGED <<domainVars, op, asked, required, d, state, saved, failed>>
    <3> DEFINE values == [attr[n] EXCEPT !.run = IsRunning(n)]
    <3>1. /\ pc'[n] = "read.interfaces" /\ SameAsked(n)
          /\ attr'[n] = values /\ required'[n] = required[n] /\ d'[n] = d[n]
      BY <2>1 DEF IInv, TypeOK, SameAsked
    <3>2. values.wait = attr[n].wait
      BY <1>1 DEF Config
    <3> HIDE DEF values
    <3>3. QED
      BY <1>1, <2>1, <3>1, <3>2, ReadGoesOn
  <2>2. QED
    BY <1>2, <1>1, <1>3, <1>6, <2>1 DEF ReadState, MayFail
<1>7. CASE ReadInterfaces(n)
  <2> DEFINE values == [attr[n] EXCEPT !.addr = Addresses(n)]
  <2>1. CASE /\ op[n] = "read"
             /\ ReturnWith(n, d[n], values, FALSE)
             /\ UNCHANGED domainVars
    BY <1>1, <1>4, <2>1, DomainNoneAssumption
  <2>2. CASE /\ op[n] = "create"
             /\ attr' = [attr EXCEPT ![n].addr = Addresses(n)]
             /\ pc' = [pc EXCEPT ![n] = "map.begin"]
             /\ UNCHANGED <<domainVars, op, asked, required, d, state, saved, failed>>
    <3>1. /\ pc'[n] = "map.begin" /\ SameAsked(n)
          /\ attr'[n] = values /\ required'[n] = required[n] /\ d'[n] = d[n]
      BY <2>2 DEF IInv, TypeOK, SameAsked
    <3>2. values.wait = attr[n].wait /\ values.addr = Addresses(n)
      BY <1>1 DEF Config
    <3>3. Mishap[n] = {} => values.addr = lease[n]
      BY <1>2, <2>2, <3>2 DEF Addresses
    <3> HIDE DEF values
    <3>4. QED
      BY <1>1, <2>2, <3>1, <3>2, <3>3, ReadGoesOn
  <2>3. QED
    BY <1>1, <1>2, <1>3, <1>7, <2>1, <2>2 DEF ReadInterfaces, MayFail
<1>8. QED
  BY <1>5, <1>6, <1>7

-----------------------------------------------------------------------------
(* The end of the create.                                                   *)

\* What a guest leases is mapped already, or is mapped now, or is another's.
LEMMA MapDetail ==
    ASSUME IInv, NEW n \in Domain, Detail(n), MapBegin(n) \/ MapAdd(n)
    PROVE  Detail(n)' /\ Ends(n)
<1> USE DEF Unnamed, ReadLabel, ReadBehind, Started
<1>1. /\ pc[n] \in {"map.begin", "map.add"} /\ op[n] = "create"
      /\ attr[n] \in Config /\ required[n] \in BOOLEAN /\ asked[n] \in Config
  BY DEF MapBegin, MapAdd, IInv, TypeOK, Good, ControlGood, Detail, LabelGood,
         UpdateLabel, DeleteLabel
<1>2. /\ attr'[n].addr = attr[n].addr /\ attr'[n].wait = attr[n].wait
      /\ attr'[n].run = asked[n].run
      /\ SameAsked(n) /\ required'[n] = required[n] /\ d'[n] = d[n]
  <2>1. CASE MapBegin(n)
    <3>1. attr' = [attr EXCEPT ![n] = [attr[n] EXCEPT !.run = required[n]]]
      BY <2>1 DEF MapBegin
    <3>2. attr'[n] = [attr[n] EXCEPT !.run = required[n]]
      BY <3>1 DEF IInv, TypeOK
    <3>3. required[n] = asked[n].run
      BY <1>1, <2>1 DEF MapBegin, Detail, RunGood
    <3>4. /\ attr'[n].addr = attr[n].addr /\ attr'[n].wait = attr[n].wait
          /\ attr'[n].run = asked[n].run
      BY <1>1, <3>2, <3>3 DEF Config
    <3>5. QED
      BY <2>1, <3>4 DEF MapBegin, SameAsked
  <2>2. CASE MapAdd(n)
    <3>1. Goto(n, "dom.finish")
      BY <2>2 DEF MapAdd, AddHost
    <3>2. attr[n].run = asked[n].run
      BY <1>1, <2>2 DEF MapAdd, Detail, RunGood
    <3>3. QED
      BY <3>1, <3>2 DEF Goto, SameAsked
  <2>3. QED
    BY <2>1, <2>2
<1>3. Mishap[n] = {} /\ asked[n].wait =>
        /\ attr[n].addr = lease[n] /\ lease[n] # None
        /\ asked[n].addr # None => lease[n] = asked[n].addr /\ dhcp[n] = asked[n].addr
  BY <1>1 DEF Detail, CalmGood, ReserveGood
<1>4. PICK label \in {"map.add", "dom.finish"} : pc'[n] = label
  BY DEF MapBegin, MapOrFinish, MapAdd, AddHost, Goto, IInv, TypeOK
<1>5. /\ SameGuest(n)
      /\ dhcp'[n] # dhcp[n] => asked[n].addr = None
      /\ label = "map.add" => asked[n].addr = None /\ dhcp'[n] = None
      /\ label = "dom.finish" /\ Mishap[n] = {} /\ asked[n].wait =>
           dhcp'[n] = attr[n].addr \/ (UNCHANGED dhcp /\ Reserved(n, attr[n].addr))
  <2>1. CASE MapBegin(n)
    <3>1. CASE Mappable(n) /\ CanModifyHost(n) /\ SetHost(n, attr[n].addr)
      <4>1. SameGuest(n) /\ dhcp'[n] = attr[n].addr /\ asked[n].addr = None
        BY <3>1, GuestEffects DEF Mappable
      <4>2. label = "dom.finish"
        BY <2>1, <1>4, <3>1 DEF MapBegin, MapOrFinish, IInv, TypeOK
      <4>3. QED
        BY <4>1, <4>2
    <3>2. CASE Mappable(n) /\ ~CanModifyHost(n) /\ UNCHANGED domainVars
               /\ pc' = [pc EXCEPT ![n] = "map.add"]
      <4>1. SameGuest(n) /\ dhcp'[n] = dhcp[n] /\ label = "map.add"
        BY <1>4, <3>2, GuestEffects DEF IInv, TypeOK
      <4>2. QED
        BY <3>2, <4>1 DEF Mappable, CanModifyHost
    <3>3. CASE (~Mappable(n) \/ MayFail(n, "host")) /\ UNCHANGED domainVars
               /\ pc' = [pc EXCEPT ![n] = "dom.finish"]
      <4>1. SameGuest(n) /\ dhcp'[n] = dhcp[n] /\ label = "dom.finish"
        BY <1>4, <3>3, GuestEffects DEF IInv, TypeOK
      <4>2. QED
        BY <1>3, <3>3, <4>1 DEF Mappable, MayFail
    <3>4. QED
      BY <2>1, <3>1, <3>2, <3>3 DEF MapBegin, MapOrFinish
  <2>2. CASE MapAdd(n)
    <3>1. dhcp[n] = None /\ asked[n].addr = None
      BY <2>2 DEF MapAdd, Detail, ReserveGood
    <3>2. CASE AddHost(n, attr[n].addr, "dom.finish")
      <4>1. SameGuest(n) /\ dhcp'[n] = attr[n].addr
        BY <3>2, GuestEffects DEF AddHost
      <4>2. label = "dom.finish"
        BY <1>4, <3>2 DEF AddHost, Goto, IInv, TypeOK
      <4>3. QED
        BY <3>1, <4>1, <4>2
    <3>3. CASE AddHostFails(n, attr[n].addr) /\ Goto(n, "dom.finish") /\ UNCHANGED domainVars
      <4>1. SameGuest(n) /\ dhcp' = dhcp /\ dhcp'[n] = dhcp[n]
        BY <3>3, GuestEffects DEF domainVars
      <4>2. label = "dom.finish"
        BY <1>4, <3>3 DEF Goto, IInv, TypeOK
      <4>3. QED
        BY <3>1, <3>3, <4>1, <4>2 DEF AddHostFails, CanAddHost, MayFail
    <3>4. QED
      BY <2>2, <3>2, <3>3 DEF MapAdd
  <2>3. QED
    BY <2>1, <2>2
<1>6. LabelGood(n)' /\ GuestGood(n)' /\ RunGood(n)'
  BY <1>1, <1>2, <1>4, <1>5 DEF Detail, LabelGood, GuestGood, RunGood, SameGuest, SameAsked
<1>7. ReserveGood(n)'
  BY <1>1, <1>2, <1>4, <1>5 DEF Detail, ReserveGood, SameGuest, SameAsked
<1>8. CalmGood(n)'
  BY <1>1, <1>2, <1>4, <1>5 DEF Detail, CalmGood, SameGuest, SameAsked
<1>9. Maps(n)
  BY <1>1, <1>2, <1>3, <1>4, <1>5 DEF Maps, Reserved, SameAsked
<1>10. Ends(n)
  BY <1>1, <1>2, <1>9 DEF Ends, Obeys, Reserves, Recreates, SameAsked
<1>11. QED
  BY <1>6, <1>7, <1>8, <1>10 DEF Detail

\* An instance that shall be off is stopped, and the attribute says so.
LEMMA FinishDetail ==
    ASSUME IInv, NEW n \in Domain, Detail(n), DomainFinish(n) \/ DomainStop(n)
    PROVE  Detail(n)' /\ Ends(n)
<1> USE DEF Unnamed, ReadLabel, ReadBehind, Started, Label
<1>1. /\ pc[n] \in {"dom.finish", "dom.destroy"} /\ op[n] = "create"
      /\ attr[n].run = asked[n].run
      /\ d[n] \in {n, None}
  BY DEF DomainFinish, DomainStop, IInv, TypeOK, Good, ControlGood, Detail, LabelGood, RunGood,
         UpdateLabel, DeleteLabel
<1>2. /\ pc[n] = "dom.destroy" => ~attr[n].run
      /\ asked[n].addr # None => dhcp[n] = asked[n].addr
      /\ Mishap[n] = {} => d[n] = n /\ Own(n) /\ Active(n) /\ dst[n] = "running" /\ n # None
  BY <1>1, DomainNoneAssumption
  DEF Detail, RunGood, ReserveGood, CalmGood, Own, Active
<1>3. ASSUME ReturnError(n), Mishap[n] # {}
      PROVE  Detail(n)' /\ Ends(n)
  BY <1>1, <1>3, ErrorDetail
<1>4. ASSUME ReturnOk(n, d[n]), GuestGood(n)', dhcp'[n] = dhcp[n],
             Mishap[n] = {} => asked[n].run = (dst'[n] = "running")
      PROVE  Detail(n)' /\ Ends(n)
  <2>1. /\ pc'[n] = "idle" /\ ~failed'[n]
        /\ saved'[n] = IF d[n] = None THEN Blank ELSE attr[n]
    BY <1>4 DEF ReturnOk, ReturnWith, IInv, TypeOK
  <2>2. Detail(n)'
    BY <1>1, <1>2, <1>4, ReturnDetail DEF ReturnOk
  <2>3. Ends(n)
    BY <1>1, <1>2, <1>4, <2>1 DEF Ends, Obeys, Maps, Reserves, Recreates
  <2>4. QED
    BY <2>2, <2>3
<1>5. CASE DomainFinish(n)
  <2>1. SameGuest(n) /\ dhcp'[n] = dhcp[n]
    BY <1>5, GuestEffects DEF DomainFinish, ReturnError
  <2>2. GuestGood(n)'
    BY <2>1 DEF Detail, GuestGood, SameGuest
  <2>3. CASE (attr[n].run \/ (Own(n) /\ ~Active(n))) /\ ReturnOk(n, d[n])
    <3>1. Mishap[n] = {} => asked[n].run = (dst'[n] = "running")
      <4>1. attr[n].run \in BOOLEAN
        BY DEF IInv, TypeOK, Config
      <4>2. QED
        BY <1>1, <1>2, <2>1, <2>3, <4>1 DEF SameGuest
    <3>2. QED
      BY <1>4, <2>1, <2>2, <2>3, <3>1
  <2>4. CASE ~attr[n].run /\ Active(n) /\ Goto(n, "dom.destroy")
    <3>1. /\ pc'[n] = "dom.destroy" /\ SameAsked(n)
          /\ attr'[n] = attr[n] /\ required'[n] = required[n] /\ d'[n] = d[n]
      BY <2>4, Moves
    <3>2. LabelGood(n)' /\ RunGood(n)' /\ ReserveGood(n)'
      BY <1>1, <2>1, <2>4, <3>1
      DEF Detail, LabelGood, RunGood, ReserveGood, SameAsked, SameGuest
    <3>3. CalmGood(n)'
      BY <1>1, <1>5, <2>1, <3>1 DEF DomainFinish, Detail, CalmGood, SameAsked, SameGuest
    <3>4. Ends(n)
      BY <1>1, <3>1, NoEnd DEF SameAsked
    <3>5. QED
      BY <2>2, <3>2, <3>3, <3>4 DEF Detail
  <2>5. QED
    BY <1>2, <1>3, <1>5, <2>3, <2>4 DEF DomainFinish, MayFail
<1>6. CASE DomainStop(n)
  <2>1. CASE DomainDestroy(n) /\ ReturnOk(n, d[n])
    <3>1. CASE Vanishes(n) /\ dst[n] = "transient"
      <4>1. GuestGood(n)' /\ dhcp'[n] = dhcp[n]
        BY <3>1, GuestEffects DEF GuestGood
      <4>2. QED
        BY <1>2, <1>4, <2>1, <3>1, <4>1
    <3>2. CASE /\ dst[n] # "transient"
               /\ dst' = [dst EXCEPT ![n] = "shutoff"]
               /\ lease' = [lease EXCEPT ![n] = None]
               /\ UNCHANGED <<author, dhcp>>
      <4>1. dst'[n] = "shutoff" /\ lease'[n] = None /\ author'[n] = author[n] /\ dhcp'[n] = dhcp[n]
        BY <3>2 DEF IInv, TypeOK, DomainTypeOK
      <4>2. author[n] = n
        BY <2>1 DEF DomainDestroy, Active, Own
      <4>3. GuestGood(n)'
        BY <4>1, <4>2, DomainNoneAssumption DEF GuestGood
      <4>4. asked[n].run = (dst'[n] = "running")
        <5>1. asked[n].run \in BOOLEAN /\ ~asked[n].run
          BY <1>1, <1>2, <1>6 DEF DomainStop, IInv, TypeOK, Config
        <5>2. dst'[n] # "running"
          BY <4>1
        <5>3. QED
          BY <5>1, <5>2
      <4>5. QED
        BY <1>4, <2>1, <4>1, <4>3, <4>4
    <3>3. QED
      BY <2>1, <3>1, <3>2 DEF DomainDestroy
  <2>2. QED
    BY <1>2, <1>3, <1>6, <2>1 DEF DomainStop, MayFail
<1>7. QED
  BY <1>5, <1>6

-----------------------------------------------------------------------------
(* The update, the delete, and what begins or interferes.                   *)

\* A step outside a create that leaves the other claims alone.
LEMMA QuietDetail ==
    ASSUME IInv, NEW n \in Domain, Detail(n), op'[n] # "create", pc'[n] \notin Unnamed \union {"map.add", "dom.destroy"},
           LabelGood(n)', GuestGood(n)',
           op'[n] = "update" /\ asked'[n].addr # None => attr'[n].addr = asked'[n].addr,
           Mishap[n] = {} /\ op'[n] = "none" /\ state'[n] = None => ~Own(n)'
    PROVE  Detail(n)'
<1>1. ReserveGood(n)' /\ RunGood(n)'
  BY DEF ReserveGood, RunGood, Unnamed
<1>2. CalmGood(n)'
  BY DEF CalmGood, Unnamed
<1>3. QED
  BY <1>1, <1>2 DEF Detail

\* An update that changes the address enters it.
LEMMA UpdateDetail ==
    ASSUME IInv, NEW n \in Domain, Detail(n),
           \/ UpdateLookup(n) \/ UpdateStart(n) \/ UpdateDevices(n)
           \/ UpdateModify(n) \/ UpdateAdd(n)
    PROVE  Detail(n)' /\ Ends(n)
<1> USE DEF UpdateLabel, Label
<1>1. /\ pc[n] \in UpdateLabel /\ op[n] = "update" /\ d[n] = n
      /\ asked[n].addr # None => attr[n].addr = asked[n].addr
  BY DEF UpdateLookup, UpdateStart, UpdateDevices, UpdateModify, UpdateAdd, IInv, TypeOK,
         Good, ControlGood, Detail, LabelGood, ReserveGood, ReadLabel, ReadBehind, DeleteLabel,
         Unnamed, Started
<1>2. ASSUME ReturnError(n)
      PROVE  Detail(n)' /\ Ends(n)
  BY <1>1, <1>2, ErrorDetail
<1>3. ASSUME NEW label \in UpdateLabel, Goto(n, label), GuestGood(n)'
      PROVE  Detail(n)' /\ Ends(n)
  <2>1. pc'[n] = label /\ SameAsked(n) /\ attr'[n] = attr[n]
    BY <1>3, Moves
  <2>2. LabelGood(n)'
    BY <1>1, <2>1 DEF LabelGood, SameAsked
  <2>3. Detail(n)'
    BY <1>1, <1>3, <2>1, <2>2, QuietDetail DEF SameAsked, Unnamed
  <2>4. Ends(n)
    BY <1>1, <2>1, NoEnd DEF SameAsked
  <2>5. QED
    BY <2>3, <2>4
<1>4. ASSUME ReturnOk(n, d[n]), GuestGood(n)',
             saved[n].addr # asked[n].addr /\ asked[n].addr # None => dhcp'[n] = asked[n].addr
      PROVE  Detail(n)' /\ Ends(n)
  <2>1. pc'[n] = "idle"
    BY <1>4, Moves DEF ReturnOk
  <2>2. Detail(n)'
    BY <1>1, <1>4, DomainNoneAssumption, ReturnDetail DEF ReturnOk
  <2>3. Ends(n)
    BY <1>1, <1>4, <2>1 DEF Ends, Obeys, Maps, Reserves, Recreates
  <2>4. QED
    BY <2>2, <2>3
<1>5. SameGuest(n) => GuestGood(n)'
  BY DEF Detail, GuestGood, SameGuest
<1>6. CASE UpdateLookup(n)
  BY <1>2, <1>3, <1>5, <1>6, GuestEffects DEF UpdateLookup
<1>7. CASE UpdateStart(n)
  <2>1. CASE DomainCreate(n) /\ Goto(n, "up.devices")
    <3>1. dst'[n] = "running" /\ author'[n] = author[n] /\ author[n] = n
      BY <2>1, GuestEffects DEF DomainCreate, CanStart, Own
    <3>2. GuestGood(n)'
      BY <3>1, DomainNoneAssumption DEF GuestGood
    <3>3. QED
      BY <1>3, <2>1, <3>2
  <2>2. QED
    BY <1>2, <1>7, <2>1 DEF UpdateStart
<1>8. CASE UpdateDevices(n)
  BY <1>1, <1>2, <1>3, <1>4, <1>5, <1>8, GuestEffects DEF UpdateDevices
<1>9. CASE UpdateModify(n)
  BY <1>1, <1>2, <1>3, <1>4, <1>5, <1>9, GuestEffects DEF UpdateModify
<1>10. CASE UpdateAdd(n)
  BY <1>1, <1>2, <1>4, <1>5, <1>10, GuestEffects DEF UpdateAdd
<1>11. QED
  BY <1>6, <1>7, <1>8, <1>9, <1>10

\* What stops or undefines a domain leaves no lease behind.
LEMMA GuestsStop ==
    ASSUME IInv, NEW n \in Domain, Detail(n), DomainDestroy(n) \/ DomainUndefine(n) \/ DomainTurns(n)
    PROVE  GuestGood(n)'
<1> USE DEF IInv, TypeOK, DomainTypeOK
<1>1. author[n] = n
  BY DEF DomainDestroy, DomainUndefine, CanUndefine, DomainTurns, Active, Own
<1>2. CASE Vanishes(n)
  BY <1>2, GuestEffects DEF GuestGood
<1>3. CASE DomainDestroy(n) /\ ~Vanishes(n)
  BY <1>1, <1>3, DomainNoneAssumption DEF DomainDestroy, GuestGood
<1>4. CASE DomainUndefine(n) /\ ~Vanishes(n)
  BY <1>1, <1>4, DomainNoneAssumption DEF DomainUndefine, GuestGood
<1>5. CASE DomainTurns(n)
  BY <1>1, <1>5, DomainNoneAssumption DEF DomainTurns, GuestGood
<1>6. QED
  BY <1>2, <1>3, <1>4, <1>5

LEMMA DeleteDetail ==
    ASSUME IInv, NEW n \in Domain, Detail(n),
           DeleteLookup(n) \/ DeleteDestroy(n) \/ DeleteUndefine(n)
    PROVE  Detail(n)' /\ Ends(n)
<1> USE DEF DeleteLabel, Label
<1>1. pc[n] \in DeleteLabel /\ op[n] = "delete" /\ d[n] = n
  BY DEF DeleteLookup, DeleteDestroy, DeleteUndefine, IInv, TypeOK, Good, ControlGood,
         Detail, LabelGood, UpdateLabel, ReadLabel, Unnamed, Started, ReadBehind
<1>2. ASSUME ReturnError(n)
      PROVE  Detail(n)' /\ Ends(n)
  BY <1>1, <1>2, ErrorDetail
<1>3. ASSUME NEW label \in DeleteLabel, Goto(n, label), GuestGood(n)'
      PROVE  Detail(n)' /\ Ends(n)
  <2>1. pc'[n] = label /\ SameAsked(n)
    BY <1>3, Moves
  <2>2. LabelGood(n)'
    BY <1>1, <2>1 DEF LabelGood, SameAsked
  <2>3. Detail(n)'
    BY <1>1, <1>3, <2>1, <2>2, QuietDetail DEF SameAsked, Unnamed
  <2>4. Ends(n)
    BY <1>1, <2>1, NoEnd
  <2>5. QED
    BY <2>3, <2>4
<1>4. CASE DeleteLookup(n)
  <2>1. UNCHANGED domainVars => GuestGood(n)'
    BY GuestEffects DEF Detail, GuestGood, SameGuest
  <2>2. QED
    BY <1>2, <1>3, <1>4, <2>1 DEF DeleteLookup
<1>5. CASE DeleteDestroy(n)
  BY <1>2, <1>3, <1>5, GuestsStop DEF DeleteDestroy
<1>6. CASE DeleteUndefine(n)
  <2>1. CASE DomainUndefine(n) /\ ReturnOk(n, None)
    <3>1. ~Own(n)' /\ GuestGood(n)'
      BY <1>6, <2>1, CallsAffect, GuestsStop DEF DeleteUndefine, IInv, Good, TrackGood
    <3>2. pc'[n] = "idle"
      BY <2>1, Moves DEF ReturnOk
    <3>3. Detail(n)'
      BY <2>1, <3>1, ReturnDetail DEF ReturnOk
    <3>4. QED
      BY <1>1, <3>2, <3>3, NoEnd
  <2>2. QED
    BY <1>2, <1>6, <2>1 DEF DeleteUndefine
<1>7. QED
  BY <1>4, <1>5, <1>6

\* A create begins with a domain that is not Terraform's.
LEMMA BeginDetail ==
    ASSUME IInv, NEW n \in Domain, Detail(n),
           BeginCreate(n) \/ BeginRefresh(n) \/ BeginUpdate(n) \/ BeginDelete(n)
    PROVE  Detail(n)' /\ Ends(n)
<1>1. op[n] = "none" /\ SameGuest(n) /\ dhcp'[n] = dhcp[n]
  BY GuestEffects DEF BeginCreate, BeginRefresh, BeginUpdate, BeginDelete, Begin
<1>2. GuestGood(n)' /\ Own(n)' = Own(n)
  BY <1>1 DEF Detail, GuestGood, SameGuest, Own
<1>3. ASSUME NEW kind, NEW label, NEW config, NEW values, Begin(n, kind, label, config, values)
      PROVE  /\ pc'[n] = label /\ op'[n] = kind /\ asked'[n] = config /\ attr'[n] = values
  BY <1>3 DEF Begin, IInv, TypeOK
<1>4. CASE BeginCreate(n)
  <2>1. PICK config \in Wanted[n] : Begin(n, "create", "dom.prepare", config, config)
    BY <1>4 DEF BeginCreate
  <2>2. pc'[n] = "dom.prepare" /\ op'[n] = "create" /\ asked'[n] = config /\ attr'[n] = config
    BY <1>3, <2>1
  <2>3. Mishap[n] = {} => ~Own(n)'
    BY <1>1, <1>2, <1>4 DEF BeginCreate, Detail, CalmGood
  <2>4. Detail(n)'
    BY <1>2, <2>2, <2>3
    DEF Detail, LabelGood, ReserveGood, RunGood, CalmGood, Unnamed, ReadLabel, ReadBehind, Started
  <2>5. Ends(n)
    BY <2>2, NoEnd
  <2>6. QED
    BY <2>4, <2>5
<1>5. CASE BeginRefresh(n) \/ BeginDelete(n)
  <2>1. PICK kind \in {"read", "delete"} :
           Begin(n, kind, IF kind = "read" THEN "read.lookup" ELSE "del.lookup", saved[n], saved[n])
    BY <1>5 DEF BeginRefresh, BeginDelete
  <2>2. op'[n] = kind /\ pc'[n] = IF kind = "read" THEN "read.lookup" ELSE "del.lookup"
    BY <1>3, <2>1
  <2>3. LabelGood(n)'
    BY <2>2 DEF LabelGood, ReadLabel
  <2>4. Detail(n)'
    BY <1>2, <2>2, <2>3, QuietDetail DEF Unnamed
  <2>5. QED
    BY <2>2, <2>4, NoEnd
<1>6. CASE BeginUpdate(n)
  <2>1. PICK config \in Wanted[n] :
           Begin(n, "update", "up.lookup", config, Planned(n, config))
    BY <1>6 DEF BeginUpdate
  <2>2. /\ pc'[n] = "up.lookup" /\ op'[n] = "update"
        /\ asked'[n] = config /\ attr'[n] = Planned(n, config)
    BY <1>3, <2>1
  <2>3. config.addr # None => Planned(n, config).addr = config.addr
    BY DomainAssumption DEF Planned, Config
  <2>4. LabelGood(n)'
    BY <2>2 DEF LabelGood, UpdateLabel
  <2>5. Detail(n)'
    BY <1>2, <2>2, <2>3, <2>4, QuietDetail DEF Unnamed
  <2>6. QED
    BY <2>2, <2>5, NoEnd
<1>7. QED
  BY <1>4, <1>5, <1>6

\* A guest leases what is reserved for it, and only mishaps interfere.
LEMMA OutsideDetail ==
    ASSUME IInv, NEW n \in Domain, Detail(n),
           GuestLeases(n) \/ OutsideStop(n) \/ OutsideUndefine(n) \/ OutsideTurn(n)
    PROVE  Detail(n)' /\ Ends(n)
<1>1. /\ pc'[n] = pc[n] /\ SameAsked(n) /\ attr'[n] = attr[n]
      /\ required'[n] = required[n] /\ d'[n] = d[n]
  BY DEF GuestLeases, OutsideStop, OutsideUndefine, OutsideTurn, handlerVars, SameAsked
<1>2. Ends(n)
  BY <1>1, NoEnd
  DEF SameAsked, IInv, Good, ControlGood, Detail, LabelGood, UpdateLabel, ReadLabel,
      ReadBehind, Unnamed, Started
<1>3. LabelGood(n)' /\ RunGood(n)'
  BY <1>1 DEF Detail, LabelGood, RunGood, SameAsked
<1>4. CASE GuestLeases(n)
  <2>1. PICK ip \in IP :
          /\ IF dhcp[n] # None THEN ip = dhcp[n] ELSE ~Reserved(n, ip)
          /\ lease' = [lease EXCEPT ![n] = ip]
          /\ UNCHANGED <<dst, author, dhcp>>
          /\ IsRunning(n) /\ lease[n] = None
    BY <1>4 DEF GuestLeases, GetLease
  <2>2. /\ lease'[n] = ip /\ ip # None /\ dhcp'[n] = dhcp[n]
        /\ dst'[n] = dst[n] /\ author'[n] = author[n]
    BY <2>1, DomainNoneAssumption DEF IInv, TypeOK, DomainTypeOK
  <2>3. GuestGood(n)'
    BY <2>1, <2>2 DEF Detail, GuestGood, IsRunning
  <2>4. ReserveGood(n)'
    BY <1>1, <2>1, <2>2 DEF Detail, ReserveGood, SameAsked, Started, ReadLabel, ReadBehind
  <2>5. CalmGood(n)'
    BY <1>1, <2>1, <2>2
    DEF Detail, CalmGood, Own, CanStart, SameAsked, Started, ReadLabel, ReadBehind
  <2>6. QED
    BY <1>2, <1>3, <2>3, <2>4, <2>5 DEF Detail
<1>5. CASE OutsideStop(n) \/ OutsideUndefine(n) \/ OutsideTurn(n)
  <2>1. Mishap[n] # {} /\ GuestGood(n)'
    BY <1>5, GuestsStop DEF OutsideStop, OutsideUndefine, OutsideTurn
  <2>2. dhcp'[n] = dhcp[n] /\ lease'[n] \in {lease[n], None}
    BY <1>5
    DEF OutsideStop, OutsideUndefine, OutsideTurn, DomainDestroy, DomainUndefine, DomainTurns,
        Vanishes, IInv, TypeOK, DomainTypeOK
  <2>3. ReserveGood(n)'
    BY <1>1, <2>2 DEF Detail, ReserveGood, SameAsked
  <2>4. CalmGood(n)'
    BY <2>1 DEF CalmGood
  <2>5. QED
    BY <1>2, <1>3, <2>1, <2>3, <2>4 DEF Detail
<1>6. QED
  BY <1>4, <1>5

LEMMA NextDetail ==
    ASSUME DetailInv, Next
    PROVE  DetailInv' /\ \A n \in Domain : Ends(n)
<1>1. IInv /\ \A n \in Domain : Detail(n)
  BY DEF DetailInv
<1>2. PICK n \in Domain : \/ BeginCreate(n) \/ BeginRefresh(n) \/ BeginUpdate(n) \/ BeginDelete(n)
                          \/ HandlerStep(n)
                          \/ GuestLeases(n) \/ OutsideStop(n) \/ OutsideUndefine(n) \/ OutsideTurn(n)
  BY DEF Next
<1>3. Step(n)
  BY <1>1, <1>2, HandlerSteps, TerraformSteps, OutsideSteps
<1>4. HandlerStep(n) => Detail(n)' /\ Ends(n)
  BY <1>1, PrepareDetail, DefineDetail, StartDetail, WaitDetail, ReadDetail, MapDetail,
     FinishDetail, UpdateDetail, DeleteDetail
  DEF HandlerStep
<1>5. Detail(n)' /\ Ends(n)
  BY <1>1, <1>2, <1>4, BeginDetail, OutsideDetail
<1>6. IInv'
  BY <1>1, <1>3, StepKeeps
<1>7. \A m \in Domain : Detail(m)' /\ Ends(m)
  BY <1>1, <1>3, <1>5, OthersKeep
<1>8. QED
  BY <1>6, <1>7 DEF DetailInv

-----------------------------------------------------------------------------
(* The theorems.                                                            *)

LEMMA InitGood == Init => IInv
<1> SUFFICES ASSUME Init PROVE IInv
  OBVIOUS
<1>1. Blank \in Config /\ "idle" \in Label
  BY DEF Blank, Config, Label
<1>2. DomainTypeOK
  BY DEF Init, DomainInit, DomainTypeOK, DomainState
<1>3. \A n \in Domain : ~Own(n)
  BY DomainNoneAssumption DEF Init, DomainInit, Own
<1>4. \A n \in Domain : Good(n)
  BY <1>3
  DEF Good, ControlGood, TypeGood, TrackGood, AddressGood, Active, Init, Unnamed, Mapping
<1>5. TypeOK
  BY <1>1, <1>2, <1>4 DEF TypeOK, Init, Good, TypeGood
<1>6. QED
  BY <1>4, <1>5 DEF IInv

LEMMA Invariance == Spec => []IInv
<1>1. IInv /\ [Next]_vars => IInv'
  <2>1. SUFFICES ASSUME IInv, [Next]_vars
                 PROVE  IInv'
    OBVIOUS
  <2>2. CASE Next
    BY <2>1, <2>2, NextSteps, StepKeeps
  <2>3. CASE UNCHANGED vars
    BY <2>1, <2>3
    DEF vars, domainVars, handlerVars, IInv, TypeOK, DomainTypeOK, Good, ControlGood,
        TypeGood, TrackGood, AddressGood, Active, Own
  <2>4. QED
    BY <2>1, <2>2, <2>3
<1>2. QED
  BY InitGood, <1>1, PTL DEF Spec

\* Handlers, guests and the outside keep the types, d.SetId comes when the domain
\* runs, and an address is entered only where there is one.
THEOREM TypeCorrect == Spec => []TypeOK
<1>1. IInv => TypeOK
  BY DEF IInv
<1>2. QED
  BY <1>1, Invariance, PTL

\* Whatever fails and whoever interferes, for any number of domains: what a create
\* has started and no delete has stopped is in Terraform's state.
THEOREM RunsTracked == Spec => []NothingRunsUntracked
<1>1. IInv => NothingRunsUntracked
  BY DEF IInv, Good, ControlGood, TrackGood, NothingRunsUntracked
<1>2. QED
  BY <1>1, Invariance, PTL

\* resourceLibvirtDomainDelete reports success only when no domain is left, also if
\* it is stopped, paused or undefined by hand between the calls.
THEOREM DeleteRemoves == Spec => DeletedIsGone
<1> DEFINE Gone == \A n \in Domain :
                     op[n] = "delete" /\ op'[n] = "none" /\ ~failed'[n] => ~Own(n)'
<1>1. ASSUME IInv, Next, NEW n \in Domain,
             op[n] = "delete", op'[n] = "none", ~failed'[n]
      PROVE  ~Own(n)'
  <2>1. PICK m \in Domain : Step(m)
    BY <1>1, NextSteps
  <2>2. m = n
    BY <1>1, <2>1 DEF Step, Handles, IInv, TypeOK
  <2>3. QED
    BY <1>1, <2>1, <2>2 DEF Step, Deletes
<1>2. IInv /\ [Next]_vars => [Gone]_vars
  BY <1>1
<1>3. QED
  BY <1>2, Invariance, PTL DEF Spec, DeletedIsGone
-----------------------------------------------------------------------------
(* What a create and an update keep.                                        *)

LEMMA InitDetail == Init => DetailInv
<1> SUFFICES ASSUME Init PROVE DetailInv
  OBVIOUS
<1>1. \A n \in Domain : ~Own(n) /\ GuestGood(n)
  BY DomainNoneAssumption DEF Init, DomainInit, Own, GuestGood
<1>2. \A n \in Domain : Detail(n)
  BY <1>1
  DEF Init, DomainInit, Detail, LabelGood, ReserveGood, RunGood, CalmGood,
      Unnamed, Started, ReadLabel, ReadBehind
<1>3. QED
  BY <1>2, InitGood DEF DetailInv

LEMMA DetailInvariance == Spec => []DetailInv
<1>1. DetailInv /\ [Next]_vars => DetailInv'
  <2>1. SUFFICES ASSUME DetailInv, UNCHANGED vars
                 PROVE  DetailInv'
    BY NextDetail
  <2>2. IInv'
    BY <2>1
    DEF DetailInv, vars, domainVars, handlerVars, IInv, TypeOK, DomainTypeOK, Good, ControlGood,
        TypeGood, TrackGood, AddressGood, Active, Own
  <2>3. \A n \in Domain : Detail(n)'
    BY <2>1
    DEF DetailInv, vars, domainVars, handlerVars, Detail, LabelGood, GuestGood, ReserveGood,
        RunGood, CalmGood, Own, CanStart
  <2>4. QED
    BY <2>2, <2>3 DEF DetailInv
<1>2. QED
  BY InitDetail, <1>1, PTL DEF Spec

\* However the read overwrites "running" while the domain is up, and whatever happens
\* to other domains: a create that succeeds leaves and reports what was asked for.
THEOREM CreateObeys == Spec => CreateObeysRunning
<1>1. DetailInv /\ [Next]_vars => [\A n \in Domain : Obeys(n)]_vars
  BY NextDetail DEF Ends
<1>2. QED
  BY <1>1, DetailInvariance, PTL DEF Spec, CreateObeysRunning, Obeys

\* The wait, the read and the pending mapping together: a guest's lease ends up in
\* the host table, whichever domains are created and mapped at the same time.
THEOREM WaitMaps == Spec => WaitedIsMapped
<1>1. DetailInv /\ [Next]_vars => [\A n \in Domain : Maps(n)]_vars
  BY NextDetail DEF Ends
<1>2. QED
  BY <1>1, DetailInvariance, PTL DEF Spec, WaitedIsMapped, Maps

\* With all mishaps: an operation that has not reserved the configured address fails.
THEOREM Reserving == Spec => AddressIsReserved
<1>1. DetailInv /\ [Next]_vars => [\A n \in Domain : Reserves(n)]_vars
  BY NextDetail DEF Ends
<1>2. QED
  BY <1>1, DetailInvariance, PTL DEF Spec, AddressIsReserved, Reserves

-----------------------------------------------------------------------------
(* What earlier operations leave behind.                                    *)

\* A domain that is there and has no id has been left by a start that failed.
FreeGood(n) == d[n] = None /\ pc[n] # "dom.start" /\ Own(n) => "start" \in Mishap[n]

FreeInv == DetailInv /\ \A n \in Domain : FreeGood(n)

\* Only DomainDefineXML makes a domain Terraform's.
LEMMA OwnStays ==
    ASSUME IInv, NEW n \in Domain,
           \/ UNCHANGED domainVars \/ (\E ip : SetHost(n, ip)) \/ GetLease(n)
           \/ DomainCreate(n) \/ DomainDestroy(n) \/ DomainUndefine(n) \/ DomainTurns(n)
    PROVE  Own(n)' => Own(n)
<1> USE DEF IInv, TypeOK, DomainTypeOK, Own
<1>1. CASE Vanishes(n)
  BY <1>1 DEF Vanishes
<1>2. CASE UNCHANGED domainVars \/ (\E ip : SetHost(n, ip)) \/ GetLease(n)
  BY <1>2 DEF domainVars, SetHost, GetLease
<1>3. CASE DomainCreate(n) \/ DomainTurns(n)
  BY <1>3 DEF DomainCreate, CanStart, DomainTurns
<1>4. CASE (DomainDestroy(n) \/ DomainUndefine(n)) /\ ~Vanishes(n)
  BY <1>4 DEF DomainDestroy, DomainUndefine, Active, CanUndefine
<1>5. QED
  BY <1>1, <1>2, <1>3, <1>4

\* A handler whose domain keeps its id, or has lost the domain already.
LEMMA FreeKept ==
    ASSUME IInv, NEW n \in Domain, FreeGood(n), pc[n] # "dom.start",
           Own(n)' => Own(n),
           d'[n] = None => d[n] = None \/ ~Own(n)
    PROVE  FreeGood(n)'
BY DEF FreeGood

\* What a handler that is not at its start does to the id and to the domain.
LEMMA FreeCalls ==
    ASSUME IInv, NEW n \in Domain, FreeGood(n), HandlerStep(n), ~DomainDefine(n), ~DomainStart(n)
    PROVE  FreeGood(n)'
<1> USE DEF IInv, TypeOK
<1>1. ReturnError(n) => d'[n] = d[n] /\ UNCHANGED domainVars
  BY DEF ReturnError, ReturnWith
<1>2. /\ ReturnOk(n, d[n]) => d'[n] = d[n]
      /\ \A values, error : ReturnWith(n, d[n], values, error) => d'[n] = d[n]
      /\ \A label : Goto(n, label) => d'[n] = d[n]
      /\ BeginRead(n) => d'[n] = d[n]
  BY DEF ReturnOk, ReturnWith, Goto, BeginRead
<1>3. CASE DomainPrepare(n) \/ HostAdd(n) \/ DomainWait(n)
  <2>1. d'[n] = d[n] /\ pc[n] # "dom.start" /\ (UNCHANGED domainVars \/ \E ip : SetHost(n, ip))
    BY <1>1, <1>2, <1>3 DEF DomainPrepare, ModifyHost, HostAdd, AddHost, DomainWait
  <2>2. QED
    BY <2>1, OwnStays, FreeKept
<1>4. CASE ReadLookup(n)
  <2>1. pc[n] # "dom.start" /\ UNCHANGED domainVars /\ (d'[n] = d[n] \/ ~Own(n))
    BY <1>1, <1>2, <1>4 DEF ReadLookup
  <2>2. QED
    BY <2>1, OwnStays, FreeKept
<1>5. CASE ReadState(n) \/ ReadInterfaces(n)
  <2>1. d'[n] = d[n] /\ pc[n] # "dom.start" /\ UNCHANGED domainVars
    BY <1>1, <1>2, <1>5 DEF ReadState, ReadInterfaces
  <2>2. QED
    BY <2>1, OwnStays, FreeKept
<1>6. CASE MapBegin(n) \/ MapAdd(n) \/ DomainFinish(n) \/ DomainStop(n)
  <2>1. /\ d'[n] = d[n] /\ pc[n] # "dom.start"
        /\ UNCHANGED domainVars \/ (\E ip : SetHost(n, ip)) \/ DomainDestroy(n)
    BY <1>1, <1>2, <1>6 DEF MapBegin, MapOrFinish, MapAdd, AddHost, DomainFinish, DomainStop
  <2>2. QED
    BY <2>1, OwnStays, FreeKept
<1>7. CASE UpdateLookup(n) \/ UpdateStart(n) \/ UpdateDevices(n) \/ UpdateModify(n) \/ UpdateAdd(n)
  <2>1. /\ d'[n] = d[n] /\ pc[n] # "dom.start"
        /\ UNCHANGED domainVars \/ (\E ip : SetHost(n, ip)) \/ DomainCreate(n)
    BY <1>1, <1>2, <1>7 DEF UpdateLookup, UpdateStart, UpdateDevices, UpdateModify, UpdateAdd
  <2>2. QED
    BY <2>1, OwnStays, FreeKept
<1>8. CASE DeleteLookup(n) \/ DeleteDestroy(n)
  <2>1. /\ d'[n] = d[n] /\ pc[n] # "dom.start"
        /\ UNCHANGED domainVars \/ DomainDestroy(n)
    BY <1>1, <1>2, <1>8 DEF DeleteLookup, DeleteDestroy
  <2>2. QED
    BY <2>1, OwnStays, FreeKept
<1>9. CASE DeleteUndefine(n)
  <2>1. CASE DomainUndefine(n)
    <3>1. ~Own(n)'
      BY <1>9, <2>1, CallsAffect DEF DeleteUndefine, Good, TrackGood
    <3>2. QED
      BY <3>1 DEF FreeGood
  <2>2. CASE ReturnError(n)
    <3>1. pc[n] # "dom.start"
      BY <1>9 DEF DeleteUndefine
    <3>2. QED
      BY <1>1, <2>2, <3>1, OwnStays, FreeKept
  <2>3. QED
    BY <1>9, <2>1, <2>2 DEF DeleteUndefine
<1>10. QED
  BY <1>3, <1>4, <1>5, <1>6, <1>7, <1>8, <1>9 DEF HandlerStep

\* The definition, which the start must follow, and the start.
LEMMA FreeStarts ==
    ASSUME IInv, NEW n \in Domain, FreeGood(n), DomainDefine(n) \/ DomainStart(n)
    PROVE  FreeGood(n)'
<1> USE DEF IInv, TypeOK
<1>1. ReturnError(n) => d'[n] = d[n] /\ UNCHANGED domainVars
  BY DEF ReturnError, ReturnWith
<1>2. CASE DomainDefine(n)
  <2>1. CASE Goto(n, "dom.start")
    <3>1. pc'[n] = "dom.start"
      BY <2>1 DEF Goto
    <3>2. QED
      BY <3>1 DEF FreeGood
  <2>2. CASE ReturnError(n)
    <3>1. pc[n] # "dom.start"
      BY <1>2 DEF DomainDefine
    <3>2. QED
      BY <1>1, <2>2, <3>1, OwnStays, FreeKept
  <2>3. QED
    BY <1>2, <2>1, <2>2 DEF DomainDefine
<1>3. CASE DomainStart(n)
  <2>1. CASE d' = [d EXCEPT ![n] = n]
    <3>1. d'[n] # None
      BY <2>1, DomainNoneAssumption
    <3>2. QED
      BY <3>1 DEF FreeGood
  <2>2. CASE ReturnError(n) /\ MayFail(n, "start")
    BY <2>2 DEF MayFail, FreeGood
  <2>3. CASE ReturnError(n) /\ ~CanStart(n)
    <3>1. d[n] = None
      BY <1>3 DEF DomainStart, Good, TypeGood, Unnamed
    <3>2. ~Own(n)
      BY <2>3, <3>1, DomainNoneAssumption DEF CanStart, Good, TrackGood, Active
    <3>3. QED
      BY <1>1, <2>3, <3>2, OwnStays DEF FreeGood
  <2>4. QED
    BY <1>3, <2>1, <2>2, <2>3 DEF DomainStart
<1>4. QED
  BY <1>2, <1>3

\* Terraform keeps the id, and from outside domains only go.
LEMMA FreeElsewhere ==
    ASSUME IInv, NEW n \in Domain, FreeGood(n),
           \/ BeginCreate(n) \/ BeginRefresh(n) \/ BeginUpdate(n) \/ BeginDelete(n)
           \/ GuestLeases(n) \/ OutsideStop(n) \/ OutsideUndefine(n) \/ OutsideTurn(n)
    PROVE  FreeGood(n)'
<1>1. CASE BeginCreate(n) \/ BeginRefresh(n) \/ BeginUpdate(n) \/ BeginDelete(n)
  <2>1. UNCHANGED domainVars /\ d' = d /\ pc[n] # "dom.start"
    BY <1>1 DEF BeginCreate, BeginRefresh, BeginUpdate, BeginDelete, Begin, IInv, Good, ControlGood
  <2>2. QED
    BY <2>1, OwnStays, FreeKept
<1>2. CASE GuestLeases(n) \/ OutsideStop(n) \/ OutsideUndefine(n) \/ OutsideTurn(n)
  <2>1. d' = d /\ pc' = pc
    BY <1>2 DEF GuestLeases, OutsideStop, OutsideUndefine, OutsideTurn, handlerVars
  <2>2. Own(n)' => Own(n)
    BY <1>2, OwnStays DEF GuestLeases, OutsideStop, OutsideUndefine, OutsideTurn
  <2>3. QED
    BY <2>1, <2>2 DEF FreeGood
<1>3. QED
  BY <1>1, <1>2

LEMMA FreeInvariance == Spec => []FreeInv
<1>1. Init => FreeInv
  <2>1. ASSUME Init, NEW n \in Domain PROVE ~Own(n)
    BY <2>1, DomainNoneAssumption DEF Init, DomainInit, Own
  <2>2. QED
    BY <2>1, InitDetail DEF FreeInv, FreeGood
<1>2. FreeInv /\ [Next]_vars => FreeInv'
  <2>1. CASE UNCHANGED vars
    <3>1. FreeInv => DetailInv'
      BY <2>1
      DEF FreeInv, DetailInv, vars, domainVars, handlerVars, IInv, TypeOK, DomainTypeOK, Good,
          ControlGood, TypeGood, TrackGood, AddressGood, Active, Own, Detail, LabelGood, GuestGood,
          ReserveGood, RunGood, CalmGood, CanStart
    <3>2. QED
      BY <2>1, <3>1 DEF FreeInv, vars, domainVars, handlerVars, FreeGood, Own
  <2>2. ASSUME FreeInv, Next PROVE FreeInv'
    <3>1. IInv /\ DetailInv'
      BY <2>2, NextDetail DEF FreeInv, DetailInv
    <3>2. PICK n \in Domain : \/ BeginCreate(n) \/ BeginRefresh(n) \/ BeginUpdate(n) \/ BeginDelete(n)
                              \/ HandlerStep(n)
                              \/ GuestLeases(n) \/ OutsideStop(n) \/ OutsideUndefine(n) \/ OutsideTurn(n)
      BY <2>2 DEF Next
    <3>3. FreeGood(n)'
      BY <2>2, <3>1, <3>2, FreeCalls, FreeStarts, FreeElsewhere DEF FreeInv
    <3>4. Step(n)
      BY <3>1, <3>2, HandlerSteps, TerraformSteps, OutsideSteps
    <3>5. ASSUME NEW m \in Domain, m # n PROVE FreeGood(m)'
      BY <2>2, <3>1, <3>4, <3>5
      DEF FreeInv, FreeGood, Own, Step, Affects, Handles, IInv, TypeOK, DomainTypeOK
    <3>6. QED
      BY <3>1, <3>3, <3>5 DEF FreeInv
  <2>3. QED
    BY <2>1, <2>2
<1>3. QED
  BY <1>1, <1>2, PTL DEF Spec

\* With all mishaps, for any number of domains: a host entry stops a create only if it is
\* another domain's, and a name only if a foreign domain has it or a start that failed
\* has left it; without mishaps nothing else makes a create fail but a missing lease.
THEOREM Recreating == Spec => RecreateSucceeds
<1> DEFINE Unstopped(n) ==
             /\ pc[n] = "host.add" => CanAddHost(n, attr[n].addr) \/ Reserved(n, attr[n].addr)
             /\ pc[n] = "dom.define" => CanDefine(n) \/ author[n] = Foreign \/ Abandoned(n)
             /\ Mishap[n] = {} /\ op[n] = "create" /\ op'[n] = "none" /\ failed'[n]
                => \/ pc[n] = "dom.wait"
                   \/ author[n] = Foreign
                   \/ Reserved(n, asked[n].addr)
<1>1. ASSUME FreeInv, NEW n \in Domain, Recreates(n) PROVE Unstopped(n)
  <2>1. IInv /\ Detail(n) /\ FreeGood(n)
    BY <1>1 DEF FreeInv, DetailInv
  <2>2. pc[n] = "host.add" => CanAddHost(n, attr[n].addr) \/ Reserved(n, attr[n].addr)
    BY <2>1 DEF Detail, ReserveGood, CanAddHost
  <2>3. ASSUME pc[n] = "dom.define", ~CanDefine(n), author[n] # Foreign PROVE Abandoned(n)
    <3>1. d[n] = None /\ Own(n)
      BY <2>1, <2>3 DEF IInv, Good, TypeGood, Unnamed, Detail, GuestGood, CanDefine, Own
    <3>2. ~Active(n)
      BY <2>1, <3>1, DomainNoneAssumption DEF IInv, Good, TrackGood
    <3>3. QED
      BY <2>1, <2>3, <3>1, <3>2 DEF Active, FreeGood, Abandoned, MayFail
  <2>4. QED
    BY <1>1, <2>2, <2>3 DEF Recreates
<1>2. FreeInv /\ [Next]_vars => [\A n \in Domain : Unstopped(n)]_vars
  <2>1. FreeInv /\ Next => \A n \in Domain : Recreates(n)
    BY NextDetail DEF FreeInv, Ends
  <2> HIDE DEF Unstopped
  <2>2. QED
    BY <1>1, <2>1
<1>3. QED
  BY <1>2, FreeInvariance, PTL DEF Spec, RecreateSucceeds

-----------------------------------------------------------------------------
(* Operations end.                                                          *)

\* The number of calls that an operation has left, at most; a wait is one.
CallsFrom(label) ==
    CASE label = "idle" -> 0
      [] label \in {"dom.destroy", "up.add", "del.undefine"} -> 1
      [] label \in {"dom.finish", "up.modify", "del.destroy"} -> 2
      [] label \in {"map.add", "up.devices", "del.lookup"} -> 3
      [] label \in {"map.begin", "up.start"} -> 4
      [] label \in {"read.interfaces", "up.lookup"} -> 5
      [] label = "read.state" -> 6
      [] label = "read.lookup" -> 7
      [] label = "dom.wait" -> 8
      [] label = "dom.start" -> 9
      [] label = "dom.define" -> 10
      [] label = "host.add" -> 11
      [] label = "dom.prepare" -> 12

CallsLeft(n) == CallsFrom(pc[n])

\* Every call of a handler leaves fewer to make, and neither the guest nor anybody else
\* sends it back.
CallsRunOut == \A n \in Domain :
    op[n] # "none" =>
        /\ CallsLeft(n)' <= CallsLeft(n)
        /\ HandlerStep(n) => CallsLeft(n)' < CallsLeft(n)

\* The number at each label.
LEMMA CallsFromIs ==
    /\ CallsFrom("idle") = 0
    /\ \A l \in {"dom.destroy", "up.add", "del.undefine"} : CallsFrom(l) = 1
    /\ \A l \in {"dom.finish", "up.modify", "del.destroy"} : CallsFrom(l) = 2
    /\ \A l \in {"map.add", "up.devices", "del.lookup"} : CallsFrom(l) = 3
    /\ \A l \in {"map.begin", "up.start"} : CallsFrom(l) = 4
    /\ \A l \in {"read.interfaces", "up.lookup"} : CallsFrom(l) = 5
    /\ CallsFrom("read.state") = 6
    /\ CallsFrom("read.lookup") = 7
    /\ CallsFrom("dom.wait") = 8
    /\ CallsFrom("dom.start") = 9
    /\ CallsFrom("dom.define") = 10
    /\ CallsFrom("host.add") = 11
    /\ CallsFrom("dom.prepare") = 12
BY DEF CallsFrom

\* No operation has more than 12 calls left.
LEMMA CallsLeftType == TypeOK => \A n \in Domain : CallsLeft(n) \in 0 .. 12
<1>1. SUFFICES ASSUME TypeOK, NEW n \in Domain PROVE CallsLeft(n) \in 0 .. 12
  OBVIOUS
<1>2. pc[n] \in Label
  BY <1>1 DEF TypeOK
<1>3. QED
  BY <1>2, CallsFromIs DEF Label, CallsLeft

\* A step of the handler from one call to one of some others, or to its return.
Edge(n, from, tos) == pc[n] = from /\ pc'[n] \in tos \union {"idle"}

\* The calls of a domain's handlers, one after the other.
LEMMA HandlerEdges ==
    ASSUME IInv, NEW n \in Domain
    PROVE  /\ DomainPrepare(n) => Edge(n, "dom.prepare", {"host.add", "dom.define"})
           /\ HostAdd(n) => Edge(n, "host.add", {"dom.define"})
           /\ DomainDefine(n) => Edge(n, "dom.define", {"dom.start"})
           /\ DomainStart(n) => Edge(n, "dom.start", {"dom.wait"})
           /\ DomainWait(n) => Edge(n, "dom.wait", {"read.lookup"})
           /\ ReadLookup(n) => Edge(n, "read.lookup", {"read.state", "map.begin"})
           /\ ReadState(n) => Edge(n, "read.state", {"read.interfaces"})
           /\ ReadInterfaces(n) => Edge(n, "read.interfaces", {"map.begin"})
           /\ MapBegin(n) => Edge(n, "map.begin", {"map.add", "dom.finish"})
           /\ MapAdd(n) => Edge(n, "map.add", {"dom.finish"})
           /\ DomainFinish(n) => Edge(n, "dom.finish", {"dom.destroy"})
           /\ DomainStop(n) => Edge(n, "dom.destroy", {})
           /\ UpdateLookup(n) => Edge(n, "up.lookup", {"up.start", "up.devices"})
           /\ UpdateStart(n) => Edge(n, "up.start", {"up.devices"})
           /\ UpdateDevices(n) => Edge(n, "up.devices", {"up.modify"})
           /\ UpdateModify(n) => Edge(n, "up.modify", {"up.add"})
           /\ UpdateAdd(n) => Edge(n, "up.add", {})
           /\ DeleteLookup(n) => Edge(n, "del.lookup", {"del.destroy", "del.undefine"})
           /\ DeleteDestroy(n) => Edge(n, "del.destroy", {"del.undefine"})
           /\ DeleteUndefine(n) => Edge(n, "del.undefine", {})
<1>1. /\ \A label : Goto(n, label) => pc'[n] = label
      /\ \A label : pc' = [pc EXCEPT ![n] = label] => pc'[n] = label
      /\ \A id, values, error : ReturnWith(n, id, values, error) => pc'[n] = "idle"
      /\ \A id : ReturnOk(n, id) => pc'[n] = "idle"
      /\ ReturnError(n) => pc'[n] = "idle"
  BY DEF IInv, TypeOK, Goto, ReturnWith, ReturnOk, ReturnError
<1> USE <1>1 DEF Edge
<1>2. DomainPrepare(n) => Edge(n, "dom.prepare", {"host.add", "dom.define"})
  BY DEF DomainPrepare, ModifyHost
<1>3. HostAdd(n) => Edge(n, "host.add", {"dom.define"})
  BY DEF HostAdd, AddHost
<1>4. DomainDefine(n) => Edge(n, "dom.define", {"dom.start"})
  BY DEF DomainDefine
<1>5. DomainStart(n) => Edge(n, "dom.start", {"dom.wait"})
  BY DEF DomainStart
<1>6. DomainWait(n) => Edge(n, "dom.wait", {"read.lookup"})
  BY DEF DomainWait, BeginRead
<1>7. ReadLookup(n) => Edge(n, "read.lookup", {"read.state", "map.begin"})
  BY DEF ReadLookup
<1>8. ReadState(n) => Edge(n, "read.state", {"read.interfaces"})
  BY DEF ReadState
<1>9. ReadInterfaces(n) => Edge(n, "read.interfaces", {"map.begin"})
  BY DEF ReadInterfaces
<1>10. MapBegin(n) => Edge(n, "map.begin", {"map.add", "dom.finish"})
  BY DEF MapBegin, MapOrFinish
<1>11. MapAdd(n) => Edge(n, "map.add", {"dom.finish"})
  BY DEF MapAdd, AddHost
<1>12. DomainFinish(n) => Edge(n, "dom.finish", {"dom.destroy"})
  BY DEF DomainFinish
<1>13. DomainStop(n) => Edge(n, "dom.destroy", {})
  BY DEF DomainStop
<1>14. UpdateLookup(n) => Edge(n, "up.lookup", {"up.start", "up.devices"})
  BY DEF UpdateLookup
<1>15. UpdateStart(n) => Edge(n, "up.start", {"up.devices"})
  BY DEF UpdateStart
<1>16. UpdateDevices(n) => Edge(n, "up.devices", {"up.modify"})
  BY DEF UpdateDevices
<1>17. UpdateModify(n) => Edge(n, "up.modify", {"up.add"})
  BY DEF UpdateModify
<1>18. UpdateAdd(n) => Edge(n, "up.add", {})
  BY DEF UpdateAdd
<1>19. DeleteLookup(n) => Edge(n, "del.lookup", {"del.destroy", "del.undefine"})
  BY DEF DeleteLookup
<1>20. DeleteDestroy(n) => Edge(n, "del.destroy", {"del.undefine"})
  BY DEF DeleteDestroy
<1>21. DeleteUndefine(n) => Edge(n, "del.undefine", {})
  BY DEF DeleteUndefine
<1> HIDE DEF Edge
<1>22. QED
  BY <1>2, <1>3, <1>4, <1>5, <1>6, <1>7, <1>8, <1>9, <1>10, <1>11, <1>12, <1>13, <1>14, <1>15,
     <1>16, <1>17, <1>18, <1>19, <1>20, <1>21

\* A handler's own call leaves fewer to make.
LEMMA HandlerShortens ==
    ASSUME IInv, NEW n \in Domain, HandlerStep(n)
    PROVE  CallsLeft(n)' < CallsLeft(n) /\ CallsLeft(n)' <= CallsLeft(n)
<1>1. CallsLeft(n) = CallsFrom(pc[n]) /\ CallsLeft(n)' = CallsFrom(pc'[n])
  BY DEF CallsLeft
<1>2. CASE \/ DomainPrepare(n) \/ HostAdd(n) \/ DomainDefine(n) \/ DomainStart(n)
           \/ DomainWait(n) \/ ReadLookup(n)
  BY <1>1, <1>2, HandlerEdges, CallsFromIs DEF Edge
<1>3. CASE \/ ReadState(n) \/ ReadInterfaces(n) \/ MapBegin(n) \/ MapAdd(n) \/ DomainFinish(n)
           \/ DomainStop(n)
  BY <1>1, <1>3, HandlerEdges, CallsFromIs DEF Edge
<1>4. CASE \/ UpdateLookup(n) \/ UpdateStart(n) \/ UpdateDevices(n) \/ UpdateModify(n)
           \/ UpdateAdd(n) \/ DeleteLookup(n) \/ DeleteDestroy(n) \/ DeleteUndefine(n)
  BY <1>1, <1>4, HandlerEdges, CallsFromIs DEF Edge
<1>5. QED
  BY <1>2, <1>3, <1>4 DEF HandlerStep

\* Whatever somebody else does leaves a handler where it is.
LEMMA OthersLeave ==
    ASSUME IInv, NEW n \in Domain, op[n] # "none", Next, ~HandlerStep(n)
    PROVE  pc'[n] = pc[n]
<1>1. PICK m \in Domain :
        \/ BeginCreate(m) \/ BeginRefresh(m) \/ BeginUpdate(m) \/ BeginDelete(m)
        \/ HandlerStep(m)
        \/ GuestLeases(m) \/ OutsideStop(m) \/ OutsideUndefine(m) \/ OutsideTurn(m)
  BY DEF Next
<1>2. CASE BeginCreate(m) \/ BeginRefresh(m) \/ BeginUpdate(m) \/ BeginDelete(m)
  BY <1>2 DEF BeginCreate, BeginRefresh, BeginUpdate, BeginDelete, Begin, IInv, TypeOK
<1>3. CASE HandlerStep(m)
  <2>1. m # n /\ Handles(m)
    BY <1>3, HandlerSteps DEF Step
  <2>2. QED
    BY <2>1 DEF Handles, IInv, TypeOK
<1>4. CASE GuestLeases(m) \/ OutsideStop(m) \/ OutsideUndefine(m) \/ OutsideTurn(m)
  BY <1>4 DEF GuestLeases, OutsideStop, OutsideUndefine, OutsideTurn, handlerVars
<1>5. QED
  BY <1>1, <1>2, <1>3, <1>4

\* With any mishap and for any number of domains: an operation has at most 12 calls left,
\* each of its calls leaves fewer, and nothing gives it more to do.
THEOREM CallsShorten ==
    Spec => [](\A n \in Domain : CallsLeft(n) \in 0 .. 12) /\ [][CallsRunOut]_vars
<1>1. IInv => \A n \in Domain : CallsLeft(n) \in 0 .. 12
  BY CallsLeftType DEF IInv
<1>2. ASSUME IInv, Next, NEW n \in Domain, op[n] # "none", ~HandlerStep(n)
      PROVE  CallsLeft(n)' <= CallsLeft(n)
  <2>1. CallsLeft(n)' = CallsLeft(n)
    BY <1>2, OthersLeave DEF CallsLeft
  <2>2. QED
    BY <1>1, <1>2, <2>1
<1>3. ASSUME IInv, Next, NEW n \in Domain, HandlerStep(n)
      PROVE  CallsLeft(n)' < CallsLeft(n) /\ CallsLeft(n)' <= CallsLeft(n)
  BY <1>3, HandlerShortens
<1>4. IInv /\ [Next]_vars => [CallsRunOut]_vars
  BY <1>2, <1>3 DEF CallsRunOut
<1>5. QED
  BY <1>1, <1>4, Invariance, PTL DEF Spec
=============================================================================
