--------------------------- MODULE MCDefinition ----------------------------
(***************************************************************************)
(* A TLC instance of Definition: subnets of every kind of prefix, lists of  *)
(* up to three disks of every kind and longer ones of some, command lines   *)
(* of up to three maps, and the machines of a host.                         *)
(***************************************************************************)
EXTENDS Definition

CONSTANTS v1, v2, lost,                 \* volumes, and one that is gone
          cd1, cd2, image, plain, ign,  \* paths (and "image" a URL too)
          iso, remote, portless,        \* URLs
          dev,                          \* a block device
          a1, a2, b1, b2, quiet, rw,    \* kernel arguments
          pc1, pc2, pcAlias, q35, old   \* machines

Base == [addresses |-> <<>>, mode |-> "nat", bridge |-> None, dhcp |-> None, ip |-> None,
         machine |-> None, cmdline |-> <<>>, disks |-> <<>>, coreos_ignition |-> None,
         hostArch |-> "x86_64", cloudinit |-> None]

-----------------------------------------------------------------------------

V4(byte, ones) == [ip |-> <<10, byte, 30, 77>>, ones |-> ones]
V6(ones) == [ip |-> [k \in 1 .. 16 |-> (k * 45) % 256], ones |-> ones]
Mapped(ones) == [ip |-> [k \in 1 .. 16 |-> CASE k <= 10 -> 0 [] k \in {11, 12} -> 255 [] OTHER -> k],
                 ones |-> ones]

Subnets ==
    {V4(20, ones) : ones \in {0, 1, 7, 8, 12, 15, 16, 17, 23, 24, 25, 28, 29, 30, 32}}
    \union {V6(ones) : ones \in {3, 63, 64, 111, 112, 113, 120, 125, 126, 128}}
    \union {Mapped(ones) : ones \in {90, 104, 120, 125}}

MCAddresses ==
    {<<subnet>> : subnet \in Subnets}
    \union {<<V4(20, 24), V6(64)>>, <<V6(64), V4(20, 16)>>, <<V4(20, 24), V4(21, 24)>>,
            <<V4(20, 25), V4(20, 16)>>, <<V4(20, 29), V4(20, 30)>>}

MCNetworks ==
    {[Base EXCEPT !.addresses = a, !.mode = mode, !.dhcp = dhcp, !.ip = ip,
                  !.bridge = IF mode = "bridge" THEN "br0" ELSE None] :
        a \in MCAddresses, mode \in {"nat", "none", "bridge"}, dhcp \in {None, TRUE, FALSE},
        ip \in {None, <<10, 20, 30, 78>>, <<10, 21, 30, 200>>, <<11, 0, 0, 1>>,
                [k \in 1 .. 16 |-> IF k < 16 THEN (k * 45) % 256 ELSE 9]}}
    \union {[Base EXCEPT !.mode = "vepa"], [Base EXCEPT !.mode = "bridge"]}

-----------------------------------------------------------------------------

Kinds ==
    {[NoDisk EXCEPT !.volume_id = v] : v \in {v1, v2, lost}}
    \union {[NoDisk EXCEPT !.volume_id = v1, !.file = cd1]}
    \union {[NoDisk EXCEPT !.url = url] : url \in {iso, image, portless}}
    \union {[NoDisk EXCEPT !.file = file] : file \in {cd1, plain, image}}
    \union {[NoDisk EXCEPT !.block_device = dev]}
    \union {[NoDisk EXCEPT !.volume_id = v2, !.scsi = TRUE, !.wwn = wwn] : wwn \in {None, "w1"}}
    \union {[NoDisk EXCEPT !.file = cd1, !.scsi = TRUE],
            [NoDisk EXCEPT !.url = image, !.scsi = TRUE, !.wwn = "w2"]}

Images == {[NoDisk EXCEPT !.file = cd1], [NoDisk EXCEPT !.url = iso], [NoDisk EXCEPT !.volume_id = v1]}

Many(disk) == {[Base EXCEPT !.disks = [n \in 1 .. 30 |-> disk]]}

MCDisks ==
    UNION {Many([NoDisk EXCEPT !.file = cd1]), Many([NoDisk EXCEPT !.volume_id = v1]),
           Many([NoDisk EXCEPT !.volume_id = v2, !.scsi = TRUE, !.wwn = "w1"])}
    \union
    {[Base EXCEPT !.disks = disks] : disks \in BoundedSeq(Kinds, 3)}
    \union {[Base EXCEPT !.disks = disks, !.cloudinit = cd2] : disks \in BoundedSeq(Images, 5)}
    \union {[Base EXCEPT !.disks = disks, !.coreos_ignition = ign, !.hostArch = arch, !.cloudinit = cloudinit] :
              disks \in BoundedSeq(Kinds, 2), arch \in {"x86_64", "s390x", "riscv64"}, cloudinit \in {None, cd2}}

-----------------------------------------------------------------------------

Maps == {[args |-> args, keyless |-> keyless] :
            args \in {{}, {a1}, {a2}, {a1, b1}, {a2, b2}, {b2}},
            keyless \in {<<>>, <<quiet>>, <<rw>>, <<quiet, rw>>}} \ {Map({}, <<>>)}

MCCmdlines == {[Base EXCEPT !.cmdline = maps] : maps \in BoundedSeq(Maps, 2)}
              \union {[Base EXCEPT !.cmdline = <<Map({a1}, <<>>), Map({a2, b1}, <<rw>>), map>>] :
                        map \in Maps}

MCMachineConfigs == {[Base EXCEPT !.machine = m] : m \in {None, pc1, pc2, pcAlias, q35, old}}

MCConfig == MCNetworks \union MCDisks \union MCCmdlines \union MCMachineConfigs

MCVolumeFormat == [v \in {v1, v2} |-> IF v = v1 THEN "qcow2" ELSE "raw"]
MCVolumeAt == [path \in {cd1, cd2, image, plain, ign} |->
                  CASE path = ign -> v2 [] path = image -> v1 [] OTHER -> None]
MCReassembled == [url \in {image, iso, portless, remote} |-> IF url = portless THEN remote ELSE url]
MCSuffix == [path \in {cd1, cd2, image, plain, ign, iso, portless, remote} |->
                CASE path \in {cd1, cd2, iso, portless, remote} -> "iso"
                  [] path = image -> "qcow2"
                  [] OTHER -> "other"]
MCKey == [arg \in {a1, a2, b1, b2, quiet, rw} |->
            CASE arg \in {a1, a2} -> "a" [] arg \in {b1, b2} -> "b" [] OTHER -> None]
MCRank == [arg \in {a1, a2, b1, b2, quiet, rw} |->
            CASE arg = a1 -> 1 [] arg = a2 -> 2 [] arg = b1 -> 4 [] arg = b2 -> 5
              [] arg = quiet -> 3
              [] OTHER -> 6]
MCMachines == <<[name |-> pc2, canonical |-> None], [name |-> pcAlias, canonical |-> pc2],
                [name |-> pc1, canonical |-> None]>>
MCDomainMachines == <<[name |-> q35, canonical |-> pc1], [name |-> pc1, canonical |-> None]>>
=============================================================================
