----------------------------- MODULE Definition -----------------------------
(***************************************************************************)
(* What the attributes of a network and of a domain on it become: the       *)
(* definitions that their creates hand to libvirt, and the attributes that  *)
(* their reads make of these.  One network and one domain, one after the    *)
(* other; the domain is then made a second time, from a configuration into  *)
(* which the user has put what the read has found.  Network and Domain have *)
(* the calls and their order.                                               *)
(***************************************************************************)
EXTENDS Addresses, FiniteSets, SequencesExt

CONSTANTS Config,           \* the resource data of a network and a domain
          VolumeFormat,     \* of each volume that there is
          VolumeAt,         \* of each path: the volume that it belongs to, or None
          Suffix,           \* of a path or URL: "iso", "qcow2" or "other"
          Reassembled,      \* of a URL: the one made of its scheme, host, port and path
          Key, Rank,        \* of a kernel argument: its key or None, its place in the order
          Machines,         \* the capabilities: the machines of the guest, and of its
          DomainMachines,   \*   domains, each with a name and a canonical name or None
          None

Attribute == {"addresses", "mode", "bridge", "dhcp", "ip", "machine", "cmdline", "disks",
              "coreos_ignition", "hostArch", "cloudinit"}

DiskAttribute == {"volume_id", "url", "file", "block_device", "scsi", "wwn"}

IsDisk(disk) ==
    /\ disk = [a \in DiskAttribute |-> disk[a]] /\ disk.scsi \in BOOLEAN
    /\ disk.url \in DOMAIN Reassembled \union {None}

\* Kernel arguments with a key, those without, and the elements of attribute "cmdline".
Keyed == {arg \in DOMAIN Key : Key[arg] # None}

Keyless == {arg \in DOMAIN Key : Key[arg] = None}

CmdlineMaps == {map \in [args : SUBSET Keyed, keyless : Seq(Keyless)] : IsFiniteSet(map.args)}

\* net.ParseCIDR and net.ParseIP have accepted the addresses; one that can be written
\* in 4 bytes is an IPv4 address.
ASSUME ConfigAssumption ==
    \A data \in Config :
        /\ data = [a \in Attribute |-> data[a]]
        /\ data.addresses \in Seq(CIDR)
        /\ data.ip \in {ip \in IP : To4(ip) = ip} \union {None}
        /\ data.cmdline \in Seq(CmdlineMaps)
        /\ data.disks \in Seq(Range(data.disks)) /\ \A disk \in Range(data.disks) : IsDisk(disk)

\* The order is one of words that differ.
ASSUME RankAssumption ==
    Rank \in [DOMAIN Key -> Int] /\ \A a, b \in DOMAIN Key : Rank[a] = Rank[b] => a = b

\* A URL that is put together reads the same, and is of the same path, in which nothing
\* is escaped; a name that is made up is one.
ASSUME SourcesAssumption ==
    /\ \A url \in DOMAIN Reassembled :
         LET read == Reassembled[url]
         IN  read \in DOMAIN Reassembled \ {None} /\ Reassembled[read] = read /\ Suffix[read] = Suffix[url]
    /\ None # "random"

\* No two machines of a guest have one name; a canonical name is the name of a machine
\* too, which has no other.
ASSUME MachinesAssumption ==
    LET machines == Range(Machines) \union Range(DomainMachines)
    IN  /\ Machines \in Seq(machines) /\ DomainMachines \in Seq(machines)
        /\ \A m, n \in DOMAIN Machines : Machines[m].name = Machines[n].name => m = n
        /\ \A machine \in machines :
             /\ machine.name # None
             /\ machine.canonical # None =>
                  /\ \E other \in machines : other.name = machine.canonical
                  /\ \A other \in machines : other.name = machine.canonical => other.canonical = None

VARIABLES pc, round,
          config,           \* the configuration
          d,                \* the ResourceData: what is configured, and read
          IPs,              \* networkDef.IPs
          xmlIdx,           \* where the domain's address is registered, or None
          def,              \* domainDef: machine, cmdline, disks, and Ignition by firmware
          i, numOfISOs, numOfSCSIs      \* of the loop of setDisks

counters == <<i, numOfISOs, numOfSCSIs>>
vars == <<pc, round, config, d, IPs, xmlIdx, def, counters>>

Goto(next) == pc' = next

Fail == pc' = "error" /\ UNCHANGED <<round, config, d, IPs, xmlIdx, def, counters>>

-----------------------------------------------------------------------------
(* The network.                                                             *)

netModes == {"none", "nat", "route", "open"}

\* In the mode "bridge" libvirt gets the user's bridge and no addresses; there are no other modes.
BridgeGiven == d.mode = "bridge" /\ d.bridge # None

\* getIPsFromResource: DHCP is what the user says, or depends on the mode.
getIPsFromResource ==
    LET dhcpEnabled == IF d.dhcp # None THEN d.dhcp ELSE d.mode \in netModes
        NetworkIP(cidr) == [getNetworkIPConfig(cidr) EXCEPT !.dhcp = IF dhcpEnabled THEN @ ELSE None]
    IN  [n \in DOMAIN d.addresses |-> NetworkIP(d.addresses[n])]

\* libvirt refuses a family that is not the address's.
FamilyFits(ip) == ip.family = "ipv6" <=> Len(ip.address) = 16

CreateNetwork ==
    /\ pc = "network"
    /\ \/ /\ d.mode \in netModes
          /\ \A n \in DOMAIN d.addresses : ~TooStrict(d.addresses[n])
          /\ IPs' = getIPsFromResource
          /\ \A n \in DOMAIN IPs' : FamilyFits(IPs'[n])
          /\ Goto("network.read")
          /\ UNCHANGED <<round, config, d, xmlIdx, def, counters>>
       \/ /\ BridgeGiven
          /\ Goto("network.read")
          /\ UNCHANGED <<round, config, d, IPs, xmlIdx, def, counters>>
       \/ d.mode \notin netModes /\ ~BridgeGiven /\ Fail
       \/ /\ d.mode \in netModes
          /\ \/ \E n \in DOMAIN d.addresses : TooStrict(d.addresses[n])
             \/ \E n \in DOMAIN d.addresses : ~FamilyFits(getNetworkIPConfig(d.addresses[n]))
          /\ Fail

\* "we get the host interface IP (ie, 10.10.8.1) but we want the network CIDR"
NetworkCIDR(ip) == [ip |-> LowestOf(ip.address, [ones |-> ip.prefix]), ones |-> ip.prefix]

ReadNetwork ==
    /\ pc = "network.read"
    /\ d' = [d EXCEPT !.addresses = IF IPs = <<>> THEN @ ELSE [n \in DOMAIN IPs |-> NetworkCIDR(IPs[n])],
                      !.dhcp = IF \E n \in DOMAIN IPs : IPs[n].dhcp # None THEN TRUE ELSE @]
    /\ Goto("domain")
    /\ UNCHANGED <<round, config, IPs, xmlIdx, def, counters>>

\* HasDHCP looks at the mode, not at the addresses.
HasDHCP == d.mode \in netModes

-----------------------------------------------------------------------------
(* The machine.                                                             *)

lookupMachine(machines, target) ==
    LET n == SelectInSeq(machines, LAMBDA m : m.name = target)
    IN  IF n = 0 THEN None
        ELSE IF machines[n].canonical # None THEN machines[n].canonical ELSE machines[n].name

getCanonicalMachineName(target) ==
    IF lookupMachine(Machines, target) # None THEN lookupMachine(Machines, target)
    ELSE lookupMachine(DomainMachines, target)

getOriginalMachineName(target) ==
    LET n == SelectInSeq(Machines, LAMBDA m : m.canonical = target)
    IN  IF n = 0 THEN target ELSE Machines[n].name

\* The machine that is asked for, or the first one.
MachineOf(machine) == IF machine = None THEN Machines[1].name ELSE machine

\* newDomainDefForConnection fails when the host does not know the machine; the
\* create puts the attribute back in the place of the canonical name.
NewDomainDef ==
    /\ pc = "domain"
    /\ \/ /\ getCanonicalMachineName(MachineOf(d.machine)) # None
          /\ def' = [machine |-> d.machine, cmdline |-> <<>>, fwCfg |-> FALSE, disks |-> <<>>]
          /\ i' = 0 /\ numOfISOs' = 0 /\ numOfSCSIs' = 0
          /\ Goto("cmdline")
          /\ UNCHANGED <<round, config, d, IPs, xmlIdx>>
       \/ getCanonicalMachineName(MachineOf(d.machine)) = None /\ Fail

-----------------------------------------------------------------------------
(* The kernel's command line.  An element of attribute "cmdline" is a map:  *)
(* arguments with keys that differ, and the arguments of "_", in one string. *)

Map(args, keyless) == [args |-> args, keyless |-> keyless]

StringsOf(map) ==
    LET args == SetToSeq(map.args)
    IN  [n \in DOMAIN args |-> <<args[n]>>] \o IF map.keyless = <<>> THEN <<>> ELSE <<map.keyless>>

\* Word by word, of which none begins with another one.
Before(s, t) ==
    \E n \in DOMAIN t :
        /\ \A k \in 1 .. n - 1 : k <= Len(s) /\ s[k] = t[k]
        /\ \/ n = Len(s) + 1
           \/ n <= Len(s) /\ Rank[s[n]] < Rank[t[n]]

\* sort.Strings: each word in front of the first one that comes after it.
Insert(sorted, word) ==
    LET n == SelectInSeq(sorted, LAMBDA other : Before(word, other))
    IN  IF n = 0 THEN Append(sorted, word) ELSE InsertAt(sorted, n, word)

CmdlineArgs(maps) ==
    FlattenSeq(FoldLeft(Insert, <<>>, FlattenSeq([n \in DOMAIN maps |-> StringsOf(maps[n])])))

SetCmdlineArgs ==
    /\ pc = "cmdline"
    /\ def' = [def EXCEPT !.cmdline = CmdlineArgs(d.cmdline)]
    /\ Goto("ignition")
    /\ UNCHANGED <<round, config, d, IPs, xmlIdx, counters>>

\* "if the key is duplicate, start a new map"
SplitArg(cl, arg) ==
    IF Key[arg] = None THEN [cl EXCEPT !.keyless = Append(@, arg)]
    ELSE IF \E other \in cl.curr : Key[other] = Key[arg]
    THEN [cl EXCEPT !.maps = Append(@, Map(cl.curr, <<>>)), !.curr = {arg}]
    ELSE [cl EXCEPT !.curr = @ \union {arg}]

\* Bug: the arguments of the last map are lost when some have no key.
splitLosesMap(cmdline) ==
    LET cl == FoldLeft(SplitArg, [maps |-> <<>>, curr |-> {}, keyless |-> <<>>], cmdline)
    IN  cl.maps \o IF cl.keyless # <<>> THEN <<Map({}, cl.keyless)>>
                   ELSE IF cl.curr # {} THEN <<Map(cl.curr, <<>>)>> ELSE <<>>

splitKernelCmdLine(cmdline) ==
    LET cl == FoldLeft(SplitArg, [maps |-> <<>>, curr |-> {}, keyless |-> <<>>], cmdline)
    IN  cl.maps \o (IF cl.curr # {} THEN <<Map(cl.curr, <<>>)>> ELSE <<>>)
                \o (IF cl.keyless # <<>> THEN <<Map({}, cl.keyless)>> ELSE <<>>)

-----------------------------------------------------------------------------
(* The disks.  The target "vdb" is Target("virtio", <<1>>).                 *)

\* The letters, "a" being 0: a to z, aa to az, ba to bz, and so on.
diskLetterForIndex[n \in Nat] ==
    IF n < 26 THEN <<n>> ELSE Append(diskLetterForIndex[n \div 26 - 1], n % 26)

Target(bus, letters) == [bus |-> bus, letters |-> letters]

Disk(device, target, source, driver, serial, wwn) ==
    [device |-> device, target |-> target, source |-> source, driver |-> driver,
     serial |-> serial, wwn |-> wwn]

\* setCoreOSIgnition: by the host's architecture.
SetCoreOSIgnition ==
    /\ pc = "ignition"
    /\ \/ /\ d.coreos_ignition = None \/ d.hostArch \in {"i686", "x86_64", "aarch64"}
          /\ def' = [def EXCEPT !.fwCfg = d.coreos_ignition # None]
          /\ Goto("disks")
          /\ UNCHANGED <<round, config, d, IPs, xmlIdx, counters>>
       \/ /\ d.coreos_ignition # None /\ d.hostArch \in {"s390", "s390x", "ppc64", "ppc64le"}
          /\ def' = [def EXCEPT !.disks = Append(@,
                        Disk("disk", Target("virtio", <<1>>), [kind |-> "file", name |-> d.coreos_ignition],
                             "raw", "ignition", None))]
          /\ Goto("disks")
          /\ UNCHANGED <<round, config, d, IPs, xmlIdx, counters>>
       \/ /\ d.coreos_ignition # None
          /\ d.hostArch \notin {"i686", "x86_64", "aarch64", "s390", "s390x", "ppc64", "ppc64le"}
          /\ Fail

\* The first of these attributes that a disk has.
SourceOf(disk) ==
    CASE disk.volume_id # None -> [kind |-> "volume", name |-> disk.volume_id]
      [] disk.volume_id = None /\ disk.url # None -> [kind |-> "network", name |-> disk.url]
      [] disk.volume_id = None /\ disk.url = None /\ disk.file # None -> [kind |-> "file", name |-> disk.file]
      [] OTHER -> [kind |-> "block", name |-> disk.block_device]

IsISO(disk) ==
    LET source == SourceOf(disk)
    IN  source.kind \in {"network", "file"} /\ Suffix[source.name] = "iso"

\* Bug: the URLs' images are not counted.
ISOsCounted(disk) == IF IsISO(disk) /\ disk.url = None THEN 1 ELSE 0

ISOs(disk) == IF IsISO(disk) THEN 1 ELSE 0

\* newDefDisk's target, the one of a SCSI disk, and over both that of an image.
TargetOf(disk) ==
    IF IsISO(disk) THEN Target("ide", diskLetterForIndex[numOfISOs])
    ELSE IF disk.scsi THEN Target("scsi", diskLetterForIndex[numOfSCSIs])
    ELSE Target("virtio", diskLetterForIndex[i])

\* "raw", unless the volume is not: an image of suffix .qcow2 stays what newDefDisk
\* has made it.
DriverOf(source) ==
    IF source.kind = "volume" /\ VolumeFormat[source.name] = "qcow2" THEN "qcow2" ELSE "raw"

NewDisk(disk) ==
    Disk(IF IsISO(disk) THEN "cdrom" ELSE "disk", TargetOf(disk), SourceOf(disk),
         DriverOf(SourceOf(disk)), "",
         CASE ~disk.scsi -> None
           [] disk.scsi /\ disk.wwn # None -> disk.wwn
           [] OTHER -> "random")

\* One round of setDisks, or its end.
SetDisks ==
    /\ pc = "disks"
    /\ \/ /\ i < Len(d.disks)
          /\ LET disk == d.disks[i + 1]
             IN  \/ /\ disk.volume_id # None => disk.volume_id \in DOMAIN VolumeFormat
                    /\ def' = [def EXCEPT !.disks = Append(@, NewDisk(disk))]
                    /\ i' = i + 1
                    /\ numOfISOs' = numOfISOs + ISOs(disk)
                    /\ numOfSCSIs' = numOfSCSIs + (IF disk.scsi THEN 1 ELSE 0)
                    /\ UNCHANGED <<pc, round, config, d, IPs, xmlIdx>>
                 \/ disk.volume_id # None /\ disk.volume_id \notin DOMAIN VolumeFormat /\ Fail
       \/ /\ i = Len(d.disks)
          /\ Goto("cloudinit")
          /\ UNCHANGED <<round, config, d, IPs, xmlIdx, def, counters>>

\* "Last device letter possible with a single IDE controller on i440FX"
SetCloudinit ==
    /\ pc = "cloudinit"
    /\ def' = IF d.cloudinit = None THEN def
              ELSE [def EXCEPT !.disks = Append(@,
                       Disk("cdrom", Target("ide", <<3>>), [kind |-> "file", name |-> d.cloudinit],
                            "raw", "cloudinit", None))]
    /\ Goto("interface")
    /\ UNCHANGED <<round, config, d, IPs, xmlIdx, counters>>

\* setNetworkInterfaces: an address is registered with the network's DHCP server.
SetNetworkInterface ==
    /\ pc = "interface"
    /\ xmlIdx' = IF HasDHCP /\ d.ip # None THEN getNetworkIdx(IPs, d.ip) ELSE None
    /\ Goto("define")
    /\ UNCHANGED <<round, config, d, IPs, def, counters>>

-----------------------------------------------------------------------------
(* libvirt, and the read.                                                   *)

SharedTargets == {pair \in (DOMAIN def.disks) \X (DOMAIN def.disks) :
                    /\ pair[1] # pair[2]
                    /\ def.disks[pair[1]].target = def.disks[pair[2]].target}

\* libvirt refuses two disks with one target, and completes the machine.
DefineDomain ==
    /\ pc = "define"
    /\ \/ /\ SharedTargets = {}
          /\ def' = [def EXCEPT !.machine = getCanonicalMachineName(MachineOf(@))]
          /\ Goto("read")
          /\ UNCHANGED <<round, config, d, IPs, xmlIdx, counters>>
       \/ SharedTargets # {} /\ Fail

NoDisk == [volume_id |-> None, url |-> None, file |-> None, block_device |-> None,
           scsi |-> FALSE, wwn |-> None]

\* A URL is put together with its port, which may be empty, and without a query.  A
\* disk of a "file" that is no CD is a volume, from the time when all were.
ReadSource(disk) ==
    LET name == disk.source.name
    IN  CASE disk.source.kind = "network" -> [NoDisk EXCEPT !.url = Reassembled[name]]
          [] disk.source.kind = "file" /\ disk.device = "cdrom" -> [NoDisk EXCEPT !.file = name]
          [] disk.source.kind = "file" /\ disk.device # "cdrom" -> [NoDisk EXCEPT !.volume_id = VolumeAt[name]]
          [] disk.source.kind = "block" -> [NoDisk EXCEPT !.block_device = name]
          [] disk.source.kind = "volume" -> [NoDisk EXCEPT !.volume_id = name]

ReadDisk(disk) ==
    IF disk.target.bus = "scsi" THEN [ReadSource(disk) EXCEPT !.scsi = TRUE, !.wwn = disk.wwn]
    ELSE ReadSource(disk)

\* The loop over the disks skips that of cloud-init.
NextDisk(disks, disk) == IF disk.serial = "cloudinit" THEN disks ELSE Append(disks, ReadDisk(disk))

IsNoVolume(disk) ==
    disk.source.kind = "file" /\ disk.device # "cdrom" /\ VolumeAt[disk.source.name] = None

ReadDomain ==
    /\ pc = "read"
    /\ \/ /\ ~\E n \in DOMAIN def.disks : IsNoVolume(def.disks[n])
          /\ LET disks == FoldLeft(NextDisk, <<>>, def.disks)
             IN  d' = [d EXCEPT !.machine = getOriginalMachineName(def.machine),
                                !.cmdline = splitKernelCmdLine(def.cmdline),
                                !.disks = IF disks = <<>> THEN @ ELSE disks]
          /\ round' = round + 1
          /\ Goto(IF round = 1 THEN "adopt" ELSE "done")
          /\ UNCHANGED <<config, IPs, xmlIdx, def, counters>>
       \/ (\E n \in DOMAIN def.disks : IsNoVolume(def.disks[n])) /\ Fail

\* A plan compares the configuration with what the read has left and shows what is not
\* the same, a replacement of the domain.  The user writes that into the configuration.
Adopt ==
    /\ pc = "adopt"
    /\ config' = [config EXCEPT !.machine = d.machine, !.cmdline = d.cmdline, !.disks = d.disks]
    /\ Goto("domain")
    /\ UNCHANGED <<round, d, IPs, xmlIdx, def, counters>>

Init ==
    /\ pc = "network"
    /\ round = 1
    /\ config \in Config
    /\ d = config
    /\ IPs = <<>>
    /\ xmlIdx = None
    /\ def = [machine |-> None, cmdline |-> <<>>, fwCfg |-> FALSE, disks |-> <<>>]
    /\ i = 0 /\ numOfISOs = 0 /\ numOfSCSIs = 0

Next ==
    \/ CreateNetwork
    \/ ReadNetwork
    \/ NewDomainDef
    \/ SetCmdlineArgs
    \/ SetCoreOSIgnition
    \/ SetDisks
    \/ SetCloudinit
    \/ SetNetworkInterface
    \/ DefineDomain
    \/ ReadDomain
    \/ Adopt

Spec == Init /\ [][Next]_vars

-----------------------------------------------------------------------------
(* Properties.                                                              *)

\* "calculate the range served by DHCP" and "libvirt only supports 65535 IP's per
\* subnet": of every network that libvirt gets, the host's address and the range
\* are in the configured subnet, the range has an address, at most 2^16, and none
\* of the host, the network or an IPv4 broadcast.  The read turns the definition
\* back into the subnet; the section that a domain's address is registered in is
\* that of a subnet that has it.
AddressesFit ==
    /\ \A n \in DOMAIN IPs :
         LET cidr == config.addresses[n]
             range == IPs[n].dhcp
         IN  /\ Within(IPs[n].address, cidr)
             /\ ~HostBitsAre(IPs[n].address, cidr, 0)
             /\ range # None =>
                  /\ Within(range.start, cidr) /\ Within(range.end, cidr)
                  /\ Precedes(IPs[n].address, range.start)
                  /\ ~Precedes(range.end, range.start)
                  /\ \A k \in 1 .. Len(cidr.ip) - 2 : range.start[k] = range.end[k]
                  /\ Len(cidr.ip) = 4 => ~HostBitsAre(range.end, cidr, 1)
             /\ pc \notin {"network.read", "error"} =>
                  /\ d.addresses[n].ones = cidr.ones
                  /\ Within(d.addresses[n].ip, cidr)
                  /\ HostBitsAre(d.addresses[n].ip, cidr, 0)
    /\ xmlIdx # None =>
         IF xmlIdx = -1 THEN \A n \in DOMAIN IPs : ~Within(d.ip, config.addresses[n])
         ELSE Within(d.ip, config.addresses[xmlIdx + 1])

\* No two disks of the list get one target, whatever buses and images they mix and
\* however many they are: names go on after "vdz".
\* The disk of an Ignition file can only meet the second of the list, a cloud-init
\* disk only the fourth image.
TargetsDistinct ==
    \A pair \in SharedTargets : \E n \in {pair[1], pair[2]} :
        \/ def.disks[n].serial = "ignition" /\ i >= 2
        \/ def.disks[n].serial = "cloudinit" /\ numOfISOs >= 4

\* The words of a command line, how often each occurs.
Words(maps) == FlattenSeq([n \in DOMAIN maps |-> SetToSeq(maps[n].args) \o maps[n].keyless])

Sources(disk) == {a \in {"volume_id", "url", "file", "block_device"} : disk[a] # None}

\* A disk that the read can tell from the definition.
Plain(disk) ==
    /\ \E a \in Sources(disk) : Sources(disk) = {a}
    /\ disk.file # None => Suffix[disk.file] = "iso"
    /\ disk.url # None => Reassembled[disk.url] = disk.url
    /\ IF disk.scsi THEN disk.wwn # None /\ ~IsISO(disk) ELSE disk.wwn = None

IgnitionDisk == \E n \in DOMAIN def.disks : def.disks[n].serial = "ignition"

KeepsArguments == ToBag(Words(config.cmdline)) = ToBag(Words(d'.cmdline))

\* Arguments without a key come last and alone, those with one by rank, and a map begins
\* with an argument whose key the map before it has.
Tidy(maps) ==
    \A n \in DOMAIN maps :
        /\ IF maps[n].args = {} THEN n = Len(maps) /\ maps[n].keyless # <<>>
           ELSE maps[n].keyless = <<>>
        /\ \A a, b \in maps[n].args : Key[a] = Key[b] => a = b
        /\ n > 1 =>
             /\ \A a \in maps[n - 1].args, b \in maps[n].args : Rank[a] <= Rank[b]
             /\ maps[n].args # {} =>
                  \E b \in maps[n].args :
                      /\ \A other \in maps[n].args : Rank[b] <= Rank[other]
                      /\ \E a \in maps[n - 1].args : Key[a] = Key[b]

KeepsCmdline == d'.cmdline = config.cmdline <=> Tidy(config.cmdline)

\* The guest has a machine of that name, and no other one with its canonical name.
SoleName(machine) ==
    \E n \in DOMAIN Machines :
        /\ Machines[n].name = machine
        /\ \A m \in DOMAIN Machines : Machines[m].canonical = getCanonicalMachineName(machine) => m = n

KeepsMachine ==
    /\ getCanonicalMachineName(d'.machine) = getCanonicalMachineName(MachineOf(config.machine))
    /\ SoleName(config.machine) => d'.machine = config.machine

KeepsDisks ==
    /\ ~IgnitionDisk
    /\ \A n \in DOMAIN config.disks : Plain(config.disks[n])
    => d'.disks = config.disks

PlanIsEmpty ==
    /\ d'.machine = config.machine
    /\ d'.cmdline = config.cmdline
    /\ d'.disks = config.disks

\* A plan compares the configuration with what the read has left.  The read loses no
\* kernel argument, finds the machine that was asked for, and leaves a command line, a
\* machine's name and disks as they are configured when they are of a form that it can
\* tell.  A configuration of another form is shown as changed; but once it has adopted
\* what the read has found, no plan shows a change again.
ReadsBack ==
    [][pc = "read" /\ pc' # "error" =>
         /\ KeepsArguments
         /\ KeepsCmdline
         /\ KeepsMachine
         /\ KeepsDisks
         /\ round = 2 /\ ~IgnitionDisk => PlanIsEmpty]_vars
=============================================================================
