----------------------------- MODULE Addresses -----------------------------
(***************************************************************************)
(* The address arithmetic of the networks: utils_net.go, getNetworkIPConfig *)
(* of network.go and getNetworkIdx of network_def.go.  An address is the    *)
(* sequence of its 4 or 16 bytes, a subnet [ip, ones] a prefix of bits.     *)
(***************************************************************************)
EXTENDS Integers, Sequences

Byte == 0 .. 255
IP == [1 .. 4 -> Byte] \union [1 .. 16 -> Byte]

\* What net.ParseCIDR accepts.
CIDR == {cidr \in [ip: IP, ones: 0 .. 128] : cidr.ones <= 8 * Len(cidr.ip)}

\* ip.To4(), or ip.To16() where that is nil.
To4(ip) ==
    IF Len(ip) = 16 /\ (\A i \in 1 .. 10 : ip[i] = 0) /\ ip[11] = 255 /\ ip[12] = 255
    THEN SubSeq(ip, 13, 16)
    ELSE ip

\* The values of byte i of an address that a mask leaves to the hosts.
HostValues(mask, i) ==
    LET fixed == mask.ones - 8 * (i - 1)
    IN  CASE fixed <= 0 -> 256 [] fixed >= 8 -> 1 [] OTHER -> 2 ^ (8 - fixed)

\* ip & mask and ip | ^mask.
LowestOf(ip, mask) == [i \in DOMAIN ip |-> ip[i] - (ip[i] % HostValues(mask, i))]
HighestOf(ip, mask) == [i \in DOMAIN ip |-> LowestOf(ip, mask)[i] + HostValues(mask, i) - 1]

\* net.ParseCIDR: the subnet's address is masked, its mask as long as it.
IPNet(cidr) ==
    LET mask == [ones |-> cidr.ones, bits |-> 8 * Len(cidr.ip)]
    IN  [ip |-> LowestOf(cidr.ip, mask), mask |-> mask]

\* IP.Mask applies the end of a 16 byte mask to a 4 byte address.
MaskFor(ip, mask) == [mask EXCEPT !.ones = @ - (mask.bits - 8 * Len(ip))]

\* Bug: as many hosts as the subnet has.
AnyNetMask(mask) == mask

getNetMaskWithMax16Bits(mask) ==
    IF mask.bits - mask.ones > 16 THEN [mask EXCEPT !.ones = mask.bits - 16] ELSE mask

getLastIP(network, netIP) == HighestOf(netIP, getNetMaskWithMax16Bits(network.mask))

networkRange(network) ==
    LET netIP == To4(network.ip)
    IN  [first |-> LowestOf(netIP, MaskFor(netIP, network.mask)), last |-> getLastIP(network, netIP)]

\* ip[len(ip)-1] += n, a byte.
LastByteAdd(ip, n) == [ip EXCEPT ![Len(ip)] = (@ + n) % 256]

minimumSubnetBits == 3

TooStrict(cidr) == 8 * Len(cidr.ip) - cidr.ones < minimumSubnetBits

\* The host interface gets .1, the guests what is between it and the broadcast.
getNetworkIPConfig(cidr) ==
    LET network == IPNet(cidr)
        range == networkRange(network)
    IN  [address |-> LastByteAdd(range.first, 1),
         prefix |-> network.mask.ones,
         family |-> IF network.mask.bits = 128 THEN "ipv6" ELSE "ipv4",
         dhcp |-> [start |-> LastByteAdd(range.first, 2), end |-> LastByteAdd(range.last, -1)]]

\* IPNet.Contains.
NetContains(network, ip) ==
    /\ Len(ip) = Len(network.ip)
    /\ LowestOf(ip, network.mask) = LowestOf(network.ip, network.mask)

\* The first of the network's addresses whose subnet has the IP, counted from 0.
getNetworkIdx(IPs, ip) ==
    LET has == {n \in DOMAIN IPs : NetContains(IPNet([ip |-> IPs[n].address, ones |-> IPs[n].prefix]), ip)}
    IN  IF has = {} THEN -1 ELSE (CHOOSE n \in has : \A m \in has : n <= m) - 1

-----------------------------------------------------------------------------
(* What they are compared with: prefixes bit by bit, and the order.         *)

Bit(ip, k) == (ip[(k - 1) \div 8 + 1] \div 2 ^ (7 - ((k - 1) % 8))) % 2

Within(ip, cidr) ==
    /\ Len(ip) = Len(cidr.ip)
    /\ \A k \in 1 .. cidr.ones : Bit(ip, k) = Bit(cidr.ip, k)

Precedes(a, b) == \E i \in DOMAIN a : a[i] < b[i] /\ \A j \in 1 .. i - 1 : a[j] = b[j]

\* Network and broadcast address: no host's.
HostBitsAre(ip, cidr, bit) == \A k \in cidr.ones + 1 .. 8 * Len(ip) : Bit(ip, k) = bit
=============================================================================
