--------------------------- MODULE AddressProofs ---------------------------
(***************************************************************************)
(* The address arithmetic of the networks, for subnets of every length: the *)
(* bits of a prefix against the values that a mask leaves to the hosts, and *)
(* the addresses that getNetworkIPConfig and getNetworkIdx find.            *)
(***************************************************************************)
EXTENDS Definition, WellFoundedInduction, TLAPS

\* Every nonempty set of natural numbers has a least element.
LEMMA Least ==
    ASSUME NEW T, T \subseteq Nat, T # {}
    PROVE  \E m \in T : \A k \in T : m <= k
<1> DEFINE R == OpToRel(<, Nat)
<1>1. IsWellFoundedOn(R, Nat)
  BY NatLessThanWellFounded
<1> HIDE DEF R
<1>2. PICK m \in T : \A k \in T : ~(<<k, m>> \in R)
  BY <1>1, WFMin
<1>3. \A k \in T : ~(k < m)
  BY <1>2 DEF R, OpToRel
<1> QED
  BY <1>3

Blocks == {1, 2, 4, 8, 16, 32, 64, 128, 256}
Weights == {1, 2, 4, 8, 16, 32, 64, 128}

LEMMA Halves ==
    ASSUME NEW x \in Byte
    PROVE  /\ x \div 256 = 0
           /\ x \div 128 = 2 * (x \div 256) + ((x \div 128) % 2)
           /\ x \div 64 = 2 * (x \div 128) + ((x \div 64) % 2)
           /\ x \div 32 = 2 * (x \div 64) + ((x \div 32) % 2)
           /\ x \div 16 = 2 * (x \div 32) + ((x \div 16) % 2)
           /\ x \div 8 = 2 * (x \div 16) + ((x \div 8) % 2)
           /\ x \div 4 = 2 * (x \div 8) + ((x \div 4) % 2)
           /\ x \div 2 = 2 * (x \div 4) + ((x \div 2) % 2)
           /\ x \div 1 = 2 * (x \div 2) + ((x \div 1) % 2)
  BY DEF Byte
LEMMA Multiple == ASSUME NEW x \in Byte, NEW H \in Blocks PROVE x - (x % H) = H * (x \div H)
  BY SMTT(60) DEF Byte, Blocks

\* The bits that a block of values has in common.
LEMMA BitsOfBlock ==
    ASSUME NEW x \in Byte, NEW y \in Byte, NEW H \in Blocks, NEW W \in Weights, W >= H,
           x - (x % H) = y - (y % H)
    PROVE  (x \div W) % 2 = (y \div W) % 2
  BY SMTT(60) DEF Byte, Blocks, Weights

LEMMA BitsOfLowest ==
    ASSUME NEW x \in Byte, NEW H \in Blocks, NEW W \in Weights, W < H, x % H = 0
    PROVE  (x \div W) % 2 = 0
  BY SMTT(60) DEF Byte, Blocks, Weights

LEMMA BlockOfBits == ASSUME NEW x \in Byte, NEW y \in Byte, NEW H \in Blocks, 
   \A Q \in Weights : Q >= H => (x \div Q) % 2 = (y \div Q) % 2
   PROVE x - (x % H) = y - (y % H)
<1>1. \A Q \in Weights : Q >= H => (x \div Q) % 2 = (y \div Q) % 2
  OBVIOUS
<1>2. (128 >= H => (x \div 128) % 2 = (y \div 128) % 2) /\ (64 >= H => (x \div 64) % 2 = (y \div 64) % 2)
    /\ (32 >= H => (x \div 32) % 2 = (y \div 32) % 2) /\ (16 >= H => (x \div 16) % 2 = (y \div 16) % 2)
    /\ (8 >= H => (x \div 8) % 2 = (y \div 8) % 2) /\ (4 >= H => (x \div 4) % 2 = (y \div 4) % 2)
    /\ (2 >= H => (x \div 2) % 2 = (y \div 2) % 2) /\ (1 >= H => (x \div 1) % 2 = (y \div 1) % 2)
  BY <1>1 DEF Weights
<1>3. x \div H = y \div H
  BY <1>2, Halves, SMTT(60) DEF Blocks
<1> QED
  BY <1>3, Multiple

LEMMA PowersOfTwo ==
    /\ 2 ^ 0 = 1 /\ 2 ^ 1 = 2 /\ 2 ^ 2 = 4 /\ 2 ^ 3 = 8
    /\ 2 ^ 4 = 16 /\ 2 ^ 5 = 32 /\ 2 ^ 6 = 64 /\ 2 ^ 7 = 128
  OBVIOUS

LEMMA PowerIs ==
    ASSUME NEW n
    PROVE  /\ n = 0 => 2 ^ n = 1
           /\ n = 1 => 2 ^ n = 2
           /\ n = 2 => 2 ^ n = 4
           /\ n = 3 => 2 ^ n = 8
           /\ n = 4 => 2 ^ n = 16
           /\ n = 5 => 2 ^ n = 32
           /\ n = 6 => 2 ^ n = 64
           /\ n = 7 => 2 ^ n = 128
<1>1. n = 0 => 2 ^ n = 1
  BY PowersOfTwo
<1>2. n = 1 => 2 ^ n = 2
  BY PowersOfTwo
<1>3. n = 2 => 2 ^ n = 4
  BY PowersOfTwo
<1>4. n = 3 => 2 ^ n = 8
  BY PowersOfTwo
<1>5. n = 4 => 2 ^ n = 16
  BY PowersOfTwo
<1>6. n = 5 => 2 ^ n = 32
  BY PowersOfTwo
<1>7. n = 6 => 2 ^ n = 64
  BY PowersOfTwo
<1>8. n = 7 => 2 ^ n = 128
  BY PowersOfTwo
<1> QED
  BY <1>1, <1>2, <1>3, <1>4, <1>5, <1>6, <1>7, <1>8

LEMMA HostValuesTable ==
    ASSUME NEW mask, NEW k \in Nat \ {0}, mask.ones \in Int
    PROVE  LET fixed == mask.ones - 8 * (k - 1)
               H == HostValues(mask, k)
           IN  /\ fixed <= 0 => H = 256
               /\ fixed = 1 => H = 128
               /\ fixed = 2 => H = 64
               /\ fixed = 3 => H = 32
               /\ fixed = 4 => H = 16
               /\ fixed = 5 => H = 8
               /\ fixed = 6 => H = 4
               /\ fixed = 7 => H = 2
               /\ fixed >= 8 => H = 1
<1> DEFINE fixed == mask.ones - 8 * (k - 1)
<1>1. fixed \in Int
  OBVIOUS
<1>2. HostValues(mask, k) = CASE fixed <= 0 -> 256 [] fixed >= 8 -> 1 [] OTHER -> 2 ^ (8 - fixed)
  BY DEF HostValues
<1> DEFINE e == 8 - fixed
<1> HIDE DEF fixed
<1>3. /\ e = 1 => 2 ^ e = 2
      /\ e = 2 => 2 ^ e = 4
      /\ e = 3 => 2 ^ e = 8
      /\ e = 4 => 2 ^ e = 16
      /\ e = 5 => 2 ^ e = 32
      /\ e = 6 => 2 ^ e = 64
      /\ e = 7 => 2 ^ e = 128
  <2> HIDE DEF e
  <2> QED
    BY PowerIs
<1>4. /\ fixed = 1 => e = 7
      /\ fixed = 2 => e = 6
      /\ fixed = 3 => e = 5
      /\ fixed = 4 => e = 4
      /\ fixed = 5 => e = 3
      /\ fixed = 6 => e = 2
      /\ fixed = 7 => e = 1
      /\ fixed \in 1 .. 7 => e \in Nat
  BY <1>1
<1>5. /\ fixed <= 0 => HostValues(mask, k) = 256
      /\ fixed >= 8 => HostValues(mask, k) = 1
      /\ fixed \in 1 .. 7 => HostValues(mask, k) = 2 ^ e
  BY <1>1, <1>2
<1> HIDE DEF e
<1>6. fixed \in 1 .. 7 <=> fixed = 1 \/ fixed = 2 \/ fixed = 3 \/ fixed = 4 \/ fixed = 5 \/ fixed = 6 \/ fixed = 7
  BY <1>1
<1>7. /\ fixed <= 0 => HostValues(mask, k) = 256
      /\ fixed = 1 => HostValues(mask, k) = 128
      /\ fixed = 2 => HostValues(mask, k) = 64
      /\ fixed = 3 => HostValues(mask, k) = 32
      /\ fixed = 4 => HostValues(mask, k) = 16
      /\ fixed = 5 => HostValues(mask, k) = 8
      /\ fixed = 6 => HostValues(mask, k) = 4
      /\ fixed = 7 => HostValues(mask, k) = 2
      /\ fixed >= 8 => HostValues(mask, k) = 1
  BY <1>3, <1>4, <1>5, <1>6
<1> QED
  BY <1>7, Zenon DEF fixed

LEMMA HostBlocks ==
    ASSUME NEW mask, NEW k \in Nat \ {0}, mask.ones \in Int
    PROVE  HostValues(mask, k) \in Blocks
<1>1. mask.ones - 8 * (k - 1) \in Int
  OBVIOUS
<1> QED
  BY <1>1, HostValuesTable DEF Blocks

Weight(k) == 2 ^ (7 - ((k - 1) % 8))
Place(k) == (k - 1) \div 8 + 1

LEMMA WeightTable ==
    ASSUME NEW k \in Nat \ {0}, NEW p, p = (k - 1) % 8
    PROVE  /\ p \in 0 .. 7
           /\ p = 0 => Weight(k) = 128
           /\ p = 1 => Weight(k) = 64
           /\ p = 2 => Weight(k) = 32
           /\ p = 3 => Weight(k) = 16
           /\ p = 4 => Weight(k) = 8
           /\ p = 5 => Weight(k) = 4
           /\ p = 6 => Weight(k) = 2
           /\ p = 7 => Weight(k) = 1
<1>1. p \in 0 .. 7
  OBVIOUS
<1>2. Weight(k) = 2 ^ (7 - p)
  BY DEF Weight
<1> DEFINE e == 7 - p
<1>3. /\ e = 0 => 2 ^ e = 1
      /\ e = 1 => 2 ^ e = 2
      /\ e = 2 => 2 ^ e = 4
      /\ e = 3 => 2 ^ e = 8
      /\ e = 4 => 2 ^ e = 16
      /\ e = 5 => 2 ^ e = 32
      /\ e = 6 => 2 ^ e = 64
      /\ e = 7 => 2 ^ e = 128
  <2> HIDE DEF e
  <2> QED
    BY PowerIs
<1>4. /\ p = 0 => e = 7
      /\ p = 1 => e = 6
      /\ p = 2 => e = 5
      /\ p = 3 => e = 4
      /\ p = 4 => e = 3
      /\ p = 5 => e = 2
      /\ p = 6 => e = 1
      /\ p = 7 => e = 0
      /\ e \in Nat
  BY <1>1
<1>6. Weight(k) = 2 ^ e
  BY <1>2
<1> HIDE DEF e
<1>5. /\ p = 0 => Weight(k) = 128
      /\ p = 1 => Weight(k) = 64
      /\ p = 2 => Weight(k) = 32
      /\ p = 3 => Weight(k) = 16
      /\ p = 4 => Weight(k) = 8
      /\ p = 5 => Weight(k) = 4
      /\ p = 6 => Weight(k) = 2
      /\ p = 7 => Weight(k) = 1
  BY <1>6, <1>3, <1>4
<1> QED
  BY <1>1, <1>5

\* The bits of a prefix are those whose weight the hosts' values do not reach.
LEMMA WeightAgainstBlock ==
    ASSUME NEW mask, mask.ones \in Int, NEW k \in Nat \ {0}
    PROVE  /\ Weight(k) \in Weights
           /\ Place(k) \in Nat \ {0}
           /\ k <= mask.ones <=> Weight(k) >= HostValues(mask, Place(k))
<1> DEFINE p == (k - 1) % 8
           j == Place(k)
           fixed == mask.ones - 8 * (j - 1)
<1>1. p \in 0 .. 7 /\ j \in Nat \ {0} /\ k = 8 * (j - 1) + p + 1 /\ fixed \in Int
  BY DEF Place
<1>2. k <= mask.ones <=> p + 1 <= fixed
  BY <1>1
<1> DEFINE H == HostValues(mask, j)
           W == Weight(k)
<1>3. /\ fixed <= 0 => H = 256
      /\ fixed = 1 => H = 128
      /\ fixed = 2 => H = 64
      /\ fixed = 3 => H = 32
      /\ fixed = 4 => H = 16
      /\ fixed = 5 => H = 8
      /\ fixed = 6 => H = 4
      /\ fixed = 7 => H = 2
      /\ fixed >= 8 => H = 1
  BY <1>1, HostValuesTable
<1>4. /\ p = 0 => W = 128
      /\ p = 1 => W = 64
      /\ p = 2 => W = 32
      /\ p = 3 => W = 16
      /\ p = 4 => W = 8
      /\ p = 5 => W = 4
      /\ p = 6 => W = 2
      /\ p = 7 => W = 1
  <2>1. p = (k - 1) % 8 /\ W = Weight(k)
    OBVIOUS
  <2> HIDE DEF p, W
  <2> QED
    BY <2>1, WeightTable
<1> HIDE DEF p, j, fixed, H, W
<1>5. W \in Weights
  BY <1>1, <1>4 DEF Weights
<1>6. p + 1 <= fixed <=> W >= H
  BY <1>1, <1>3, <1>4
<1> QED
  BY <1>1, <1>2, <1>5, <1>6 DEF W, H, j

\* Every weight of every byte is some bit's.
LEMMA EveryWeight ==
    ASSUME NEW j \in Nat \ {0}, NEW W \in Weights
    PROVE  \E k \in 8 * (j - 1) + 1 .. 8 * j : Place(k) = j /\ Weight(k) = W
<1>1. \A p \in 0 .. 7 : 8 * (j - 1) + p + 1 \in 8 * (j - 1) + 1 .. 8 * j
  OBVIOUS
<1>2. \A p \in 0 .. 7 : /\ Place(8 * (j - 1) + p + 1) = j
                        /\ (8 * (j - 1) + p + 1 - 1) % 8 = p
                        /\ 8 * (j - 1) + p + 1 \in Nat \ {0}
  BY DEF Place
<1> DEFINE K(p) == 8 * (j - 1) + p + 1
<1>3. \A p \in 0 .. 7 : Place(K(p)) = j /\ K(p) \in 8 * (j - 1) + 1 .. 8 * j
  BY <1>1, <1>2
<1>5. \A p \in 0 .. 7 : K(p) \in Nat \ {0} /\ p = (K(p) - 1) % 8
  BY <1>2
<1> HIDE DEF K
<1>4. /\ Weight(K(0)) = 128 /\ Weight(K(1)) = 64 /\ Weight(K(2)) = 32 /\ Weight(K(3)) = 16
      /\ Weight(K(4)) = 8 /\ Weight(K(5)) = 4 /\ Weight(K(6)) = 2 /\ Weight(K(7)) = 1
  BY <1>5, WeightTable
<1> QED
  BY <1>3, <1>4 DEF Weights


LEMMA BitIs == \A ip, k : Bit(ip, k) = (ip[Place(k)] \div Weight(k)) % 2
  BY DEF Bit, Place, Weight

LEMMA BlockOfByte ==
    ASSUME NEW x \in Byte, NEW H \in Blocks
    PROVE  LET low == x - (x % H)
           IN  /\ low \in Byte
               /\ low % H = 0
               /\ low - (low % H) = low
               /\ \A n \in 0 .. H - 1 : low + n \in Byte /\ (low + n) - ((low + n) % H) = low
  BY SMTT(60) DEF Byte, Blocks

LEMMA LowestIs ==
    ASSUME NEW L \in {4, 16}, NEW ip \in [1 .. L -> Byte], NEW mask, mask.ones \in Int
    PROVE  /\ LowestOf(ip, mask) \in [1 .. L -> Byte]
           /\ \A j \in 1 .. L : /\ HostValues(mask, j) \in Blocks
                                /\ LowestOf(ip, mask)[j] = ip[j] - (ip[j] % HostValues(mask, j))
                                /\ LowestOf(ip, mask)[j] % HostValues(mask, j) = 0
           /\ LowestOf(LowestOf(ip, mask), mask) = LowestOf(ip, mask)
<1> DEFINE low == LowestOf(ip, mask)
<1>1. low = [j \in 1 .. L |-> ip[j] - (ip[j] % HostValues(mask, j))]
  BY DEF LowestOf
<1>2. ASSUME NEW j \in 1 .. L
      PROVE  /\ HostValues(mask, j) \in Blocks
             /\ low[j] = ip[j] - (ip[j] % HostValues(mask, j))
             /\ low[j] \in Byte
             /\ low[j] % HostValues(mask, j) = 0
             /\ low[j] - (low[j] % HostValues(mask, j)) = low[j]
  <2>1. HostValues(mask, j) \in Blocks
    BY HostBlocks
  <2>2. ip[j] \in Byte
    OBVIOUS
  <2> QED
    BY <1>1, <2>1, <2>2, BlockOfByte
<1>3. low \in [1 .. L -> Byte]
  BY <1>1, <1>2
<1>4. LowestOf(low, mask) = low
  <2> HIDE DEF low
  <2>1. LowestOf(low, mask) = [j \in 1 .. L |-> low[j] - (low[j] % HostValues(mask, j))]
    BY <1>3 DEF LowestOf
  <2> QED
    BY <1>2, <1>3, <2>1
<1> QED
  BY <1>2, <1>3, <1>4

SamePrefix(a, b, mask) == LowestOf(a, mask) = LowestOf(b, mask)

\* Two addresses agree on the bits of a prefix exactly when masking makes them equal.
LEMMA WithinBlocks ==
    ASSUME NEW L \in {4, 16}, NEW ip \in [1 .. L -> Byte], NEW cidr, cidr.ip \in [1 .. L -> Byte],
           cidr.ones \in 0 .. 8 * L, NEW mask, mask.ones = cidr.ones
    PROVE  Within(ip, cidr) <=> SamePrefix(ip, cidr.ip, mask)
<1>1. Len(ip) = L /\ Len(cidr.ip) = L /\ mask.ones \in Int
  OBVIOUS
<1> DEFINE H(j) == HostValues(mask, j)
           net == cidr.ip
<1>2. \A j \in 1 .. L : H(j) \in Blocks /\ ip[j] \in Byte /\ net[j] \in Byte
  BY <1>1, LowestIs
<1>3. LowestOf(ip, mask) = LowestOf(net, mask)
      <=> \A j \in 1 .. L : ip[j] - (ip[j] % H(j)) = net[j] - (net[j] % H(j))
  <2>1. /\ LowestOf(ip, mask) = [j \in 1 .. L |-> ip[j] - (ip[j] % H(j))]
        /\ LowestOf(net, mask) = [j \in 1 .. L |-> net[j] - (net[j] % H(j))]
    BY DEF LowestOf
  <2> HIDE DEF H, net
  <2> QED
    BY <2>1
<1>4. Within(ip, cidr) <=> \A k \in 1 .. cidr.ones : (ip[Place(k)] \div Weight(k)) % 2 = (net[Place(k)] \div Weight(k)) % 2
  BY <1>1, BitIs DEF Within
<1>5. \A k \in 1 .. 8 * L : /\ Weight(k) \in Weights
                            /\ Place(k) \in 1 .. L
                            /\ k <= cidr.ones <=> Weight(k) >= H(Place(k))
  <2> TAKE k \in 1 .. 8 * L
  <2>1. k \in Nat \ {0}
    OBVIOUS
  <2>2. Place(k) \in 1 .. L
    BY DEF Place
  <2> QED
    BY <1>1, <2>1, <2>2, WeightAgainstBlock
<1> HIDE DEF H, net
<1>6. ASSUME \A j \in 1 .. L : ip[j] - (ip[j] % H(j)) = net[j] - (net[j] % H(j)), NEW k \in 1 .. cidr.ones
      PROVE  (ip[Place(k)] \div Weight(k)) % 2 = (net[Place(k)] \div Weight(k)) % 2
  <2> DEFINE j == Place(k)
             W == Weight(k)
  <2>1. k \in 1 .. 8 * L /\ k <= cidr.ones
    OBVIOUS
  <2>2. W \in Weights /\ j \in 1 .. L /\ W >= H(j)
    BY <1>5, <2>1
  <2>3. H(j) \in Blocks /\ ip[j] \in Byte /\ net[j] \in Byte /\ ip[j] - (ip[j] % H(j)) = net[j] - (net[j] % H(j))
    BY <1>2, <1>6, <2>2
  <2> HIDE DEF j, W
  <2>4. (ip[j] \div W) % 2 = (net[j] \div W) % 2
    BY <2>2, <2>3, BitsOfBlock
  <2> QED
    BY <2>4 DEF j, W
<1>7. ASSUME \A k \in 1 .. cidr.ones : (ip[Place(k)] \div Weight(k)) % 2 = (net[Place(k)] \div Weight(k)) % 2,
             NEW j \in 1 .. L
      PROVE  ip[j] - (ip[j] % H(j)) = net[j] - (net[j] % H(j))
  <2>1. ASSUME NEW W \in Weights, W >= H(j)
        PROVE  (ip[j] \div W) % 2 = (net[j] \div W) % 2
    <3>1. PICK k \in 8 * (j - 1) + 1 .. 8 * j : Place(k) = j /\ Weight(k) = W
      BY EveryWeight
    <3>2. k \in 1 .. 8 * L
      OBVIOUS
    <3>3. k <= cidr.ones
      BY <1>5, <2>1, <3>1, <3>2
    <3>4. k \in 1 .. cidr.ones
      BY <3>2, <3>3
    <3> QED
      BY <1>7, <3>1, <3>4
  <2>2. H(j) \in Blocks /\ ip[j] \in Byte /\ net[j] \in Byte
    BY <1>2
  <2> QED
    BY <2>1, <2>2, BlockOfBits
<1> QED
  BY <1>3, <1>4, <1>6, <1>7 DEF net, SamePrefix

LEMMA LowestHostBits ==
    ASSUME NEW L \in {4, 16}, NEW ip \in [1 .. L -> Byte], NEW cidr, cidr.ones \in 0 .. 8 * L,
           NEW mask, mask.ones = cidr.ones
    PROVE  HostBitsAre(LowestOf(ip, mask), cidr, 0)
<1> DEFINE low == LowestOf(ip, mask)
<1>1. mask.ones \in Int
  OBVIOUS
<1>2. /\ low \in [1 .. L -> Byte]
      /\ \A j \in 1 .. L : HostValues(mask, j) \in Blocks /\ low[j] % HostValues(mask, j) = 0
  <2>1. low = LowestOf(ip, mask)
    OBVIOUS
  <2> HIDE DEF low
  <2> QED
    BY <1>1, <2>1, LowestIs, Zenon
<1> HIDE DEF low
<1>4. Len(low) = L
  BY <1>2
<1>3. ASSUME NEW k \in cidr.ones + 1 .. 8 * L
      PROVE  Bit(low, k) = 0
  <2> DEFINE j == Place(k)
             W == Weight(k)
             H == HostValues(mask, j)
  <2>1. k \in Nat \ {0} /\ k \in 1 .. 8 * L /\ ~(k <= cidr.ones)
    OBVIOUS
  <2>2. j \in 1 .. L
    BY <2>1 DEF Place
  <2>3. W \in Weights /\ ~(W >= H)
    BY <1>1, <2>1, WeightAgainstBlock
  <2>4. H \in Blocks /\ low[j] \in Byte /\ low[j] % H = 0
    BY <1>2, <2>2
  <2>5. Bit(low, k) = (low[j] \div W) % 2
    BY BitIs
  <2> HIDE DEF j, W, H
  <2>6. W < H
    BY <2>3, <2>4 DEF Weights, Blocks
  <2> QED
    BY <2>3, <2>4, <2>5, <2>6, BitsOfLowest
<1> QED
  BY <1>3, <1>4 DEF HostBitsAre, low

LEMMA LastByteAddIs ==
    ASSUME NEW L \in {4, 16}, NEW ip \in [1 .. L -> Byte], NEW n \in Int
    PROVE  /\ LastByteAdd(ip, n) \in [1 .. L -> Byte]
           /\ ip[L] + n \in Byte => LastByteAdd(ip, n)[L] = ip[L] + n
           /\ \A j \in 1 .. L : j # L => LastByteAdd(ip, n)[j] = ip[j]
<1>1. L \in 1 .. L /\ ip[L] \in Byte
  OBVIOUS
<1>2. \A y \in Int : y % 256 \in Byte /\ (y \in Byte => y % 256 = y)
  BY DEF Byte
<1>7. \A x \in Byte : x + n \in Int
  BY DEF Byte
<1>6. ip[L] + n \in Int
  BY <1>1, <1>7
<1>3. (ip[L] + n) % 256 \in Byte /\ (ip[L] + n \in Byte => (ip[L] + n) % 256 = ip[L] + n)
  BY <1>2, <1>6
<1>4. Len(ip) = L
  OBVIOUS
<1>5. LastByteAdd(ip, n) = [ip EXCEPT ![L] = (ip[L] + n) % 256]
  BY <1>4 DEF LastByteAdd
<1> QED
  BY <1>1, <1>2, <1>3, <1>5

LEMMA MaskForIs ==
    ASSUME NEW ip, NEW mask, mask = [ones |-> mask.ones, bits |-> mask.bits]
    PROVE  MaskFor(ip, mask).ones = mask.ones - (mask.bits - 8 * Len(ip))
  BY DEF MaskFor

LEMMA SameOnes ==
    ASSUME NEW ip, NEW m, NEW n, m.ones = n.ones
    PROVE  LowestOf(ip, m) = LowestOf(ip, n) /\ \A j : HostValues(m, j) = HostValues(n, j)
  BY DEF LowestOf, HostValues

LEMMA To4Is ==
    ASSUME NEW L \in {4, 16}, NEW ip \in [1 .. L -> Byte]
    PROVE  \/ To4(ip) = ip
           \/ L = 16 /\ To4(ip) \in [1 .. 4 -> Byte]
<1>1. Len(ip) = L /\ ip \in Seq(Byte)
  OBVIOUS
<1>2. CASE L = 4
  BY <1>1, <1>2 DEF To4
<1>3. CASE L = 16
  <2>1. SubSeq(ip, 13, 16) = [j \in 1 .. 4 |-> ip[13 + j - 1]]
    BY <1>1, <1>3
  <2>2. \A j \in 1 .. 4 : ip[13 + j - 1] \in Byte
    BY <1>3
  <2> QED
    <3>1. To4(ip) = ip \/ To4(ip) = SubSeq(ip, 13, 16)
      BY Zenon DEF To4
    <3>2. [j \in 1 .. 4 |-> ip[13 + j - 1]] \in [1 .. 4 -> Byte]
      BY <2>2
    <3> QED
      BY <1>3, <2>1, <3>1, <3>2, Zenon
<1> QED
  BY <1>2, <1>3

MaskOf(cidr) == [ones |-> cidr.ones, bits |-> 8 * Len(cidr.ip)]
Low(cidr) == LowestOf(cidr.ip, MaskOf(cidr))
Values(cidr, j) == HostValues(MaskOf(cidr), j)

IsCIDR(cidr, L) == cidr.ip \in [1 .. L -> Byte] /\ cidr.ones \in 0 .. 8 * L

LEMMA LowIs ==
    ASSUME NEW L \in {4, 16}, NEW cidr, IsCIDR(cidr, L)
    PROVE  /\ MaskOf(cidr).ones = cidr.ones /\ MaskOf(cidr).ones \in Int /\ MaskOf(cidr).bits = 8 * L
           /\ Low(cidr) \in [1 .. L -> Byte]
           /\ \A j \in 1 .. L : /\ Values(cidr, j) \in Blocks
                                /\ Low(cidr)[j] \in Byte
                                /\ Low(cidr)[j] % Values(cidr, j) = 0
                                /\ \A n \in 0 .. Values(cidr, j) - 1 :
                                     /\ Low(cidr)[j] + n \in Byte
                                     /\ (Low(cidr)[j] + n) - ((Low(cidr)[j] + n) % Values(cidr, j)) = Low(cidr)[j]
           /\ LowestOf(Low(cidr), MaskOf(cidr)) = Low(cidr)
<1> DEFINE mask == MaskOf(cidr)
<1>1. cidr.ip \in [1 .. L -> Byte] /\ cidr.ones \in 0 .. 8 * L
  BY DEF IsCIDR
<1>2. Len(cidr.ip) = L
  BY <1>1
<1>3. mask.ones = cidr.ones /\ mask.ones \in Int /\ mask.bits = 8 * L
  BY <1>1, <1>2 DEF MaskOf
<1> HIDE DEF mask
<1>4. /\ LowestOf(cidr.ip, mask) \in [1 .. L -> Byte]
      /\ \A j \in 1 .. L : /\ HostValues(mask, j) \in Blocks
                           /\ LowestOf(cidr.ip, mask)[j] = cidr.ip[j] - (cidr.ip[j] % HostValues(mask, j))
                           /\ LowestOf(cidr.ip, mask)[j] % HostValues(mask, j) = 0
      /\ LowestOf(LowestOf(cidr.ip, mask), mask) = LowestOf(cidr.ip, mask)
  <2> DEFINE ip == cidr.ip
  <2>1. ip \in [1 .. L -> Byte]
    BY <1>1
  <2> HIDE DEF ip
  <2>2. /\ LowestOf(ip, mask) \in [1 .. L -> Byte]
        /\ LowestOf(LowestOf(ip, mask), mask) = LowestOf(ip, mask)
    BY <1>3, <2>1, LowestIs, Zenon
  <2>3. ASSUME NEW j \in 1 .. L
        PROVE  /\ HostValues(mask, j) \in Blocks
               /\ LowestOf(ip, mask)[j] = ip[j] - (ip[j] % HostValues(mask, j))
               /\ LowestOf(ip, mask)[j] % HostValues(mask, j) = 0
    <3> DEFINE low == LowestOf(ip, mask)
               H == HostValues(mask, j)
    <3>1. H \in Blocks
      BY <1>3, HostBlocks
    <3>2. low = [k \in 1 .. L |-> ip[k] - (ip[k] % HostValues(mask, k))]
      BY <2>1 DEF LowestOf
    <3>3. low[j] = ip[j] - (ip[j] % H)
      BY <3>2
    <3>4. ip[j] \in Byte
      BY <2>1
    <3> HIDE DEF low, H
    <3>5. low[j] % H = 0
      BY <3>1, <3>3, <3>4, BlockOfByte
    <3> QED
      BY <3>1, <3>3, <3>5 DEF low, H
  <2> QED
    BY <2>2, <2>3 DEF ip
<1>5. ASSUME NEW j \in 1 .. L
      PROVE  \A n \in 0 .. HostValues(mask, j) - 1 :
               /\ LowestOf(cidr.ip, mask)[j] + n \in Byte
               /\ (LowestOf(cidr.ip, mask)[j] + n) - ((LowestOf(cidr.ip, mask)[j] + n) % HostValues(mask, j)) = LowestOf(cidr.ip, mask)[j]
  BY <1>1, <1>4, BlockOfByte
<1> QED
  BY <1>3, <1>4, <1>5 DEF mask, Low, Values

LEMMA FamilyDecides ==
    ASSUME NEW L \in {4, 16}, NEW cidr, IsCIDR(cidr, L), FamilyFits(getNetworkIPConfig(cidr))
    PROVE  To4(Low(cidr)) = Low(cidr)
<1> DEFINE low == Low(cidr)
           mask == MaskOf(cidr)
           host == getNetworkIPConfig(cidr)
           four == LowestOf(To4(low), MaskFor(To4(low), mask))
<1>1. SUFFICES ASSUME L = 16, To4(low) \in [1 .. 4 -> Byte]
               PROVE  FALSE
  BY LowIs, To4Is
<1>2. mask.ones \in Int /\ mask.bits = 128
  BY <1>1, LowIs
<1>8. mask = [ones |-> mask.ones, bits |-> mask.bits]
  BY DEF MaskOf
<1>3. MaskFor(To4(low), mask).ones \in Int
  <2>1. Len(To4(low)) = 4
    BY <1>1
  <2> QED
    BY <1>2, <1>8, <2>1, MaskForIs
<1>4. four \in [1 .. 4 -> Byte]
  BY <1>1, <1>3, LowestIs
<1>5. host.address = LastByteAdd(four, 1) /\ host.family = "ipv6"
  BY <1>2 DEF getNetworkIPConfig, networkRange, IPNet, Low, MaskOf
<1> HIDE DEF four, host
<1>6. host.address \in [1 .. 4 -> Byte]
  BY <1>4, <1>5, LastByteAddIs
<1>7. Len(host.address) = 4
  BY <1>6
<1> QED
  BY <1>5, <1>7 DEF host, FamilyFits

\* The end of the range: the subnet's, or the one of its first 2^16 addresses.
LEMMA LastIs ==
    ASSUME NEW L \in {4, 16}, NEW cidr, IsCIDR(cidr, L)
    PROVE  LET last == HighestOf(Low(cidr), getNetMaskWithMax16Bits(MaskOf(cidr)))
           IN  /\ last \in [1 .. L -> Byte]
               /\ \A j \in 1 .. L : last[j] = Low(cidr)[j] \/ last[j] = Low(cidr)[j] + Values(cidr, j) - 1
               /\ \A j \in 1 .. L - 2 : last[j] = Low(cidr)[j]
               /\ last[L] = Low(cidr)[L] + Values(cidr, L) - 1
<1> DEFINE low == Low(cidr)
           mask == MaskOf(cidr)
           max == getNetMaskWithMax16Bits(mask)
           last == HighestOf(low, max)
           H(j) == Values(cidr, j)
           M(j) == HostValues(max, j)
<1>1. /\ mask.ones = cidr.ones /\ mask.ones \in Int /\ mask.bits = 8 * L
      /\ low \in [1 .. L -> Byte]
      /\ \A j \in 1 .. L : /\ H(j) \in Blocks
                           /\ low[j] \in Byte
                           /\ low[j] % H(j) = 0
                           /\ \A n \in 0 .. H(j) - 1 : low[j] + n \in Byte
  BY LowIs
<1>2. max.ones = IF 8 * L - cidr.ones > 16 THEN 8 * L - 16 ELSE cidr.ones
  <2>1. mask = [ones |-> mask.ones, bits |-> mask.bits]
    BY DEF MaskOf
  <2> HIDE DEF mask
  <2> QED
    BY <1>1, <2>1 DEF getNetMaskWithMax16Bits
<1>3. cidr.ones \in 0 .. 8 * L
  BY DEF IsCIDR
<1>4. last = [j \in 1 .. L |-> low[j] - (low[j] % M(j)) + M(j) - 1]
  BY <1>1 DEF HighestOf, LowestOf
<1>5. \A j \in 1 .. L : H(j) = HostValues(mask, j)
  BY DEF Values
<1> HIDE DEF low, mask, max, last, H, M
<1>6. ASSUME NEW j \in 1 .. L - 2
      PROVE  M(j) = 1
  <2>1. max.ones \in Int /\ max.ones - 8 * (j - 1) >= 8 /\ j \in Nat \ {0}
    BY <1>2, <1>3
  <2> QED
    BY <2>1, HostValuesTable DEF M
<1>7. ASSUME NEW j \in {L - 1, L}
      PROVE  M(j) = H(j)
  <2>1. CASE max.ones = cidr.ones
    <3>1. j \in 1 .. L
      OBVIOUS
    <3> QED
      <4>1. H(j) = HostValues(mask, j) /\ mask.ones = max.ones
        BY <1>1, <1>5, <2>1, <3>1
      <4>2. HostValues(max, j) = HostValues(mask, j)
        BY <4>1, SameOnes, Zenon
      <4> QED
        BY <4>1, <4>2 DEF M
  <2>2. CASE max.ones = 8 * L - 16 /\ cidr.ones <= 8 * L - 16
    <3>1. max.ones \in Int /\ max.ones - 8 * (j - 1) <= 0 /\ j \in Nat \ {0} /\ j \in 1 .. L
      BY <2>2
    <3>2. mask.ones \in Int /\ mask.ones - 8 * (j - 1) <= 0
      BY <1>1, <1>3, <2>2
    <3> QED
      BY <1>5, <3>1, <3>2, HostValuesTable DEF M
  <2> QED
    BY <1>2, <1>3, <2>1, <2>2
<1>8. ASSUME NEW j \in 1 .. L - 2
      PROVE  last[j] = low[j] /\ j \in 1 .. L
  <2>1. j \in 1 .. L
    OBVIOUS
  <2>2. low[j] \in Byte
    BY <1>1, <2>1
  <2>3. \A x \in Byte : x - (x % 1) + 1 - 1 = x
    BY DEF Byte
  <2> QED
    BY <1>4, <1>6, <2>1, <2>2, <2>3
<1>9. ASSUME NEW j \in {L - 1, L}
      PROVE  last[j] = low[j] + H(j) - 1
  <2>1. j \in 1 .. L
    OBVIOUS
  <2>2. low[j] \in Byte /\ low[j] % H(j) = 0 /\ H(j) \in Blocks
    BY <1>1, <2>1
  <2>3. \A x \in Byte : x - 0 = x
    BY DEF Byte
  <2> QED
    BY <1>4, <1>7, <2>1, <2>2, <2>3
<1>10. ASSUME NEW j \in 1 .. L
       PROVE  last[j] \in Byte /\ (last[j] = low[j] \/ last[j] = low[j] + H(j) - 1)
  <2>1. j \in 1 .. L - 2 \/ j \in {L - 1, L}
    OBVIOUS
  <2>2. H(j) \in Blocks /\ low[j] \in Byte /\ \A n \in 0 .. H(j) - 1 : low[j] + n \in Byte
    BY <1>1
  <2>3. \A x \in Byte, N \in Blocks : N - 1 \in 0 .. N - 1 /\ x + (N - 1) = x + N - 1
    BY DEF Blocks, Byte
  <2>4. low[j] + H(j) - 1 \in Byte
    BY <2>2, <2>3
  <2> QED
    BY <1>8, <1>9, <2>1, <2>2, <2>4
<1>11. last \in [1 .. L -> Byte]
  BY <1>4, <1>10
<1>12. last[L] = low[L] + H(L) - 1
  BY <1>9
<1> QED
  BY <1>8, <1>10, <1>11, <1>12 DEF last, low, max, mask, H

\* An address whose bytes are in the blocks of the subnet's is one of the subnet.
LEMMA InBlocks ==
    ASSUME NEW L \in {4, 16}, NEW cidr, IsCIDR(cidr, L), NEW ip \in [1 .. L -> Byte],
           \A j \in 1 .. L : \E n \in 0 .. Values(cidr, j) - 1 : ip[j] = Low(cidr)[j] + n,
           NEW mask, mask.ones = cidr.ones
    PROVE  LowestOf(ip, mask) = Low(cidr) /\ Within(ip, cidr)
<1> DEFINE low == Low(cidr)
           H(j) == Values(cidr, j)
<1>1. /\ MaskOf(cidr).ones = cidr.ones
      /\ low \in [1 .. L -> Byte]
      /\ \A j \in 1 .. L : \A n \in 0 .. H(j) - 1 : (low[j] + n) - ((low[j] + n) % H(j)) = low[j]
  BY LowIs
<1>2. \A j \in 1 .. L : H(j) = HostValues(mask, j)
  BY <1>1, SameOnes DEF Values
<1>3. LowestOf(ip, mask) = [j \in 1 .. L |-> ip[j] - (ip[j] % HostValues(mask, j))]
  BY DEF LowestOf
<1>4. ASSUME NEW j \in 1 .. L
      PROVE  ip[j] - (ip[j] % H(j)) = low[j]
  <2>1. PICK n \in 0 .. H(j) - 1 : ip[j] = low[j] + n
    OBVIOUS
  <2> HIDE DEF low, H
  <2>2. \A m \in 0 .. H(j) - 1 : (low[j] + m) - ((low[j] + m) % H(j)) = low[j]
    BY <1>1
  <2>3. (low[j] + n) - ((low[j] + n) % H(j)) = low[j]
    BY <2>2
  <2> QED
    BY <2>1, <2>3, Zenon
<1>5. low = LowestOf(cidr.ip, mask)
  BY <1>1, SameOnes DEF Low
<1>6. cidr.ip \in [1 .. L -> Byte] /\ cidr.ones \in 0 .. 8 * L
  BY DEF IsCIDR
<1>7. LowestOf(ip, mask) = low
  <2> HIDE DEF low, H
  <2>1. \A j \in 1 .. L : ip[j] - (ip[j] % HostValues(mask, j)) = low[j]
    BY <1>2, <1>4
  <2> QED
    BY <1>1, <1>3, <2>1
<1> QED
  BY <1>5, <1>6, <1>7, WithinBlocks DEF SamePrefix

\* The bytes of the addresses, against those of the subnet's.
BytesAre(address, start, end, cidr, L) ==
    LET low == Low(cidr)
        N == Values(cidr, L)
    IN  /\ N \in {8, 16, 32, 64, 128, 256}
        /\ address \in [1 .. L -> Byte]
        /\ start \in [1 .. L -> Byte]
        /\ end \in [1 .. L -> Byte]
        /\ address[L] = low[L] + 1
        /\ start[L] = low[L] + 2
        /\ end[L] = low[L] + N - 2
        /\ \A j \in 1 .. L - 1 : /\ address[j] = low[j]
                                 /\ start[j] = low[j]
                                 /\ end[j] = low[j] \/ end[j] = low[j] + Values(cidr, j) - 1
        /\ \A j \in 1 .. L - 2 : end[j] = low[j]

LEMMA NetworkIs ==
    ASSUME NEW L \in {4, 16}, NEW cidr, IsCIDR(cidr, L), ~TooStrict(cidr), FamilyFits(getNetworkIPConfig(cidr))
    PROVE  LET host == getNetworkIPConfig(cidr)
           IN  /\ host.prefix = cidr.ones
               /\ BytesAre(host.address, host.dhcp.start, host.dhcp.end, cidr, L)
<1> DEFINE low == Low(cidr)
           mask == MaskOf(cidr)
           host == getNetworkIPConfig(cidr)
           H(j) == Values(cidr, j)
           last == HighestOf(low, getNetMaskWithMax16Bits(mask))
<1>1. /\ mask.ones = cidr.ones /\ mask.ones \in Int /\ mask.bits = 8 * L
      /\ low \in [1 .. L -> Byte]
      /\ \A j \in 1 .. L : /\ H(j) \in Blocks
                           /\ \A n \in 0 .. H(j) - 1 : low[j] + n \in Byte
      /\ LowestOf(low, mask) = low
  BY LowIs
<1>2. cidr.ones \in 0 .. 8 * L /\ Len(cidr.ip) = L
  BY DEF IsCIDR
<1>3. H(L) \in {8, 16, 32, 64, 128, 256}
  <2>1. cidr.ones <= 8 * L - 3
    BY <1>2 DEF TooStrict, minimumSubnetBits
  <2>2. mask.ones \in Int /\ mask.ones - 8 * (L - 1) <= 5 /\ mask.ones - 8 * (L - 1) \in Int /\ L \in Nat \ {0}
    BY <1>1, <1>2, <2>1
  <2>3. H(L) = HostValues(mask, L)
    BY DEF Values
  <2> HIDE DEF H, mask
  <2> QED
    BY <2>2, <2>3, HostValuesTable
<1>4. To4(low) = low
  BY FamilyDecides
<1>5. LowestOf(low, MaskFor(low, mask)) = low
  <2>1. Len(low) = L
    BY <1>1
  <2>2. mask = [ones |-> mask.ones, bits |-> mask.bits]
    BY DEF MaskOf
  <2> HIDE DEF low, mask
  <2>3. MaskFor(low, mask).ones = mask.ones
    BY <1>1, <2>1, <2>2, MaskForIs
  <2> QED
    BY <1>1, <2>3, SameOnes
<1>6. IPNet(cidr) = [ip |-> low, mask |-> mask]
  BY DEF IPNet, Low, MaskOf
<1>7. networkRange(IPNet(cidr)) = [first |-> low, last |-> last]
  BY <1>4, <1>5, <1>6 DEF networkRange, getLastIP
<1>8. host = [address |-> LastByteAdd(low, 1), prefix |-> mask.ones,
              family |-> IF mask.bits = 128 THEN "ipv6" ELSE "ipv4",
              dhcp |-> [start |-> LastByteAdd(low, 2), end |-> LastByteAdd(last, -1)]]
  BY <1>6, <1>7 DEF getNetworkIPConfig
<1>9. /\ host.address = LastByteAdd(low, 1) /\ host.prefix = cidr.ones
      /\ host.dhcp.start = LastByteAdd(low, 2) /\ host.dhcp.end = LastByteAdd(last, -1)
  BY <1>1, <1>8
<1>10. /\ last \in [1 .. L -> Byte]
       /\ \A j \in 1 .. L : last[j] = low[j] \/ last[j] = low[j] + H(j) - 1
       /\ \A j \in 1 .. L - 2 : last[j] = low[j]
       /\ last[L] = low[L] + H(L) - 1
  <2>1. /\ last = HighestOf(Low(cidr), getNetMaskWithMax16Bits(MaskOf(cidr)))
        /\ low = Low(cidr)
        /\ \A j : H(j) = Values(cidr, j)
    OBVIOUS
  <2> HIDE DEF low, mask, host, H, last
  <2> QED
    BY <2>1, LastIs
<1> HIDE DEF low, mask, host, H, last
<1>11. /\ L \in 1 .. L
       /\ 1 \in 0 .. H(L) - 1 /\ 2 \in 0 .. H(L) - 1 /\ H(L) - 2 \in 0 .. H(L) - 1
       /\ \A x \in Byte : x + (H(L) - 2) = x + H(L) - 2 /\ x + H(L) - 1 + -1 = x + H(L) - 2
  BY <1>3 DEF Byte
<1>12. low[L] \in Byte /\ low[L] + 1 \in Byte /\ low[L] + 2 \in Byte /\ low[L] + (H(L) - 2) \in Byte
  BY <1>1, <1>11
<1>13. last[L] + -1 = low[L] + H(L) - 2 /\ last[L] + -1 \in Byte
  BY <1>10, <1>11, <1>12
<1> DEFINE Added(x, ip, n) == /\ x \in [1 .. L -> Byte]
                              /\ ip[L] + n \in Byte => x[L] = ip[L] + n
                              /\ \A j \in 1 .. L : j # L => x[j] = ip[j]
<1>20. \A ip \in [1 .. L -> Byte], n \in Int : Added(LastByteAdd(ip, n), ip, n)
  BY LastByteAddIs
<1>21. Added(host.address, low, 1) /\ Added(host.dhcp.start, low, 2) /\ Added(host.dhcp.end, last, -1)
  <2>1. 1 \in Int /\ 2 \in Int /\ -1 \in Int
    OBVIOUS
  <2> HIDE DEF Added
  <2> QED
    BY <1>1, <1>9, <1>10, <1>20, <2>1
<1>14. /\ host.address \in [1 .. L -> Byte] /\ host.address[L] = low[L] + 1
       /\ \A j \in 1 .. L : j # L => host.address[j] = low[j]
  BY <1>12, <1>21
<1>15. /\ host.dhcp.start \in [1 .. L -> Byte] /\ host.dhcp.start[L] = low[L] + 2
       /\ \A j \in 1 .. L : j # L => host.dhcp.start[j] = low[j]
  BY <1>12, <1>21
<1>16. /\ host.dhcp.end \in [1 .. L -> Byte] /\ host.dhcp.end[L] = low[L] + H(L) - 2
       /\ \A j \in 1 .. L : j # L => host.dhcp.end[j] = last[j]
  BY <1>13, <1>21
<1>17. (\A j \in 1 .. L - 1 : j \in 1 .. L /\ j # L) /\ (\A j \in 1 .. L - 2 : j \in 1 .. L /\ j # L)
  OBVIOUS
<1>18. \A j \in 1 .. L - 1 : /\ host.address[j] = low[j]
                             /\ host.dhcp.start[j] = low[j]
                             /\ (host.dhcp.end[j] = low[j] \/ host.dhcp.end[j] = low[j] + H(j) - 1)
  BY <1>10, <1>14, <1>15, <1>16, <1>17
<1>19. \A j \in 1 .. L - 2 : host.dhcp.end[j] = low[j]
  BY <1>10, <1>16, <1>17
<1> QED
  BY <1>3, <1>9, <1>14, <1>15, <1>16, <1>18, <1>19, Zenon DEF BytesAre, low, host, H

\* What libvirt gets for a subnet: the host in it, and a range of guests behind the
\* host, in the subnet, of 2^16 addresses at most, without an IPv4 broadcast.
HostAndRangeFit(host, range, cidr) ==
    /\ Within(host.address, cidr)
    /\ ~HostBitsAre(host.address, cidr, 0)
    /\ Within(range.start, cidr) /\ Within(range.end, cidr)
    /\ Precedes(host.address, range.start)
    /\ ~Precedes(range.end, range.start)
    /\ \A k \in 1 .. Len(cidr.ip) - 2 : range.start[k] = range.end[k]
    /\ Len(cidr.ip) = 4 => ~HostBitsAre(range.end, cidr, 1)

\* The last bit of an address.
LEMMA LastBit ==
    ASSUME NEW L \in {4, 16}, NEW ip \in [1 .. L -> Byte], NEW cidr, cidr.ones \in 0 .. 8 * L - 3, NEW bit,
           HostBitsAre(ip, cidr, bit)
    PROVE  ip[L] % 2 = bit
<1>1. Len(ip) = L /\ 8 * L \in cidr.ones + 1 .. 8 * Len(ip)
  OBVIOUS
<1>2. Bit(ip, 8 * L) = bit
  BY <1>1 DEF HostBitsAre
<1>3. (8 * L - 1) \div 8 + 1 = L /\ 7 - ((8 * L - 1) % 8) = 0
  OBVIOUS
<1>4. 2 ^ (7 - ((8 * L - 1) % 8)) = 1
  BY <1>3, PowersOfTwo, Zenon
<1>5. Bit(ip, 8 * L) = (ip[L] \div 1) % 2
  BY <1>3, <1>4, Zenon DEF Bit
<1>6. ip[L] \in Byte
  OBVIOUS
<1>7. \A x \in Byte : x \div 1 = x
  BY DEF Byte
<1> QED
  BY <1>2, <1>5, <1>6, <1>7

\* getNetworkIPConfig, for every subnet that it does not refuse: the host's address and
\* the DHCP range fit the subnet, and the host with its prefix is in the subnet again.
THEOREM HostAndRange ==
    ASSUME NEW L \in {4, 16}, NEW cidr, IsCIDR(cidr, L), ~TooStrict(cidr), FamilyFits(getNetworkIPConfig(cidr))
    PROVE  /\ HostAndRangeFit(getNetworkIPConfig(cidr), getNetworkIPConfig(cidr).dhcp, cidr)
           /\ getNetworkIPConfig(cidr).prefix = cidr.ones
           /\ getNetworkIPConfig(cidr).address \in [1 .. L -> Byte]
           /\ LowestOf(getNetworkIPConfig(cidr).address, MaskOf(cidr)) = Low(cidr)
<1> DEFINE host == getNetworkIPConfig(cidr)
           start == host.dhcp.start
           end == host.dhcp.end
           low == Low(cidr)
           H(j) == Values(cidr, j)
           InBlock(x, j) == \E n \in 0 .. H(j) - 1 : x = low[j] + n
<1>1. /\ host.prefix = cidr.ones
      /\ H(L) \in {8, 16, 32, 64, 128, 256}
      /\ host.address \in [1 .. L -> Byte]
      /\ start \in [1 .. L -> Byte]
      /\ end \in [1 .. L -> Byte]
      /\ host.address[L] = low[L] + 1
      /\ start[L] = low[L] + 2
      /\ end[L] = low[L] + H(L) - 2
      /\ \A j \in 1 .. L - 1 : /\ host.address[j] = low[j]
                               /\ start[j] = low[j]
                               /\ end[j] = low[j] \/ end[j] = low[j] + H(j) - 1
      /\ \A j \in 1 .. L - 2 : end[j] = low[j]
  <2>1. host.prefix = cidr.ones /\ BytesAre(host.address, start, end, cidr, L)
    BY NetworkIs
  <2> HIDE DEF host, start, end
  <2> QED
    BY <2>1, Zenon DEF BytesAre
<1>2. /\ \A j \in 1 .. L : low[j] \in Byte /\ H(j) \in Blocks
      /\ low[L] % H(L) = 0
      /\ MaskOf(cidr).ones = cidr.ones
  BY LowIs
<1>3. Len(cidr.ip) = L /\ cidr.ones \in 0 .. 8 * L - 3
  <2>1. cidr.ones \in 0 .. 8 * L /\ Len(cidr.ip) = L
    BY DEF IsCIDR
  <2> QED
    BY <2>1 DEF TooStrict, minimumSubnetBits
<1> HIDE DEF host, start, end, low, H
<1>4. ASSUME NEW j \in 1 .. L
      PROVE  InBlock(host.address[j], j) /\ InBlock(start[j], j) /\ InBlock(end[j], j)
  <2>1. low[j] \in Byte /\ H(j) \in Blocks
    BY <1>2
  <2>2. CASE j = L
    <3>1. 1 \in 0 .. H(L) - 1 /\ 2 \in 0 .. H(L) - 1 /\ H(L) - 2 \in 0 .. H(L) - 1
      BY <1>1
    <3>2. low[L] + (H(L) - 2) = low[L] + H(L) - 2
      BY <1>1, <2>1, <2>2 DEF Byte
    <3> QED
      BY <1>1, <2>2, <3>1, <3>2
  <2>3. CASE j # L
    <3>1. j \in 1 .. L - 1
      BY <2>3
    <3>2. 0 \in 0 .. H(j) - 1 /\ H(j) - 1 \in 0 .. H(j) - 1 /\ low[j] + 0 = low[j]
          /\ low[j] + (H(j) - 1) = low[j] + H(j) - 1
      BY <2>1 DEF Byte, Blocks
    <3> QED
      BY <1>1, <3>1, <3>2
  <2> QED
    BY <2>2, <2>3
<1>5. ASSUME NEW ip \in [1 .. L -> Byte], \A j \in 1 .. L : InBlock(ip[j], j)
      PROVE  LowestOf(ip, MaskOf(cidr)) = low /\ Within(ip, cidr)
  <2>1. MaskOf(cidr).ones = cidr.ones
    BY <1>2
  <2>2. \A j \in 1 .. L : \E n \in 0 .. Values(cidr, j) - 1 : ip[j] = Low(cidr)[j] + n
    BY <1>5, Zenon DEF low, H
  <2>3. LowestOf(ip, MaskOf(cidr)) = Low(cidr) /\ Within(ip, cidr)
    BY <2>1, <2>2, InBlocks
  <2> QED
    BY <2>3 DEF low
<1>6. /\ LowestOf(host.address, MaskOf(cidr)) = low
      /\ Within(host.address, cidr) /\ Within(start, cidr) /\ Within(end, cidr)
  <2> HIDE DEF InBlock
  <2> QED
    BY <1>1, <1>4, <1>5
<1> HIDE DEF InBlock
<1>7. L \in 1 .. L /\ low[L] \in Byte
  BY <1>2
<1>8. \A x \in Byte : x + 1 < x + 2 /\ (x % 2 = 0 => (x + 1) % 2 = 1)
  BY DEF Byte
<1>9. \A x \in Byte, N \in {8, 16, 32, 64, 128, 256} :
        /\ x % N = 0 => x % 2 = 0 /\ (x + N - 2) % 2 = 0
        /\ x + N - 2 >= x + 2
  BY DEF Byte
<1>16. host.address \in [1 .. L -> Byte] /\ end \in [1 .. L -> Byte]
  BY <1>1
<1>15. host.address[L] % 2 = 1 /\ end[L] % 2 = 0
  BY <1>1, <1>2, <1>7, <1>8, <1>9
<1>17. \A ip \in [1 .. L -> Byte] : \A bit : HostBitsAre(ip, cidr, bit) => ip[L] % 2 = bit
  BY <1>3, LastBit
<1>10. ~HostBitsAre(host.address, cidr, 0)
  BY <1>15, <1>16, <1>17
<1>11. ~HostBitsAre(end, cidr, 1)
  BY <1>15, <1>16, <1>17
<1>12. Precedes(host.address, start)
  <2>1. DOMAIN host.address = 1 .. L
    BY <1>1
  <2>2. host.address[L] < start[L]
    BY <1>1, <1>7, <1>8
  <2>3. \A j \in 1 .. L - 1 : host.address[j] = start[j]
    BY <1>1
  <2> QED
    BY <1>7, <2>1, <2>2, <2>3 DEF Precedes
<1>13. ~Precedes(end, start)
  <2>1. DOMAIN end = 1 .. L
    BY <1>1
  <2>2. ASSUME NEW j \in 1 .. L
        PROVE  ~(end[j] < start[j])
    <3>1. low[j] \in Byte /\ H(j) \in Blocks
      BY <1>2
    <3>2. CASE j = L
      <4>1. start[j] = low[L] + 2 /\ end[j] = low[L] + H(L) - 2 /\ low[L] % H(L) = 0
        BY <1>1, <1>2, <3>2
      <4>2. \A x \in Byte, N \in {8, 16, 32, 64, 128, 256} : ~(x + N - 2 < x + 2)
        BY DEF Byte
      <4> QED
        BY <1>1, <1>7, <4>1, <4>2
    <3>3. CASE j # L
      <4>1. j \in 1 .. L - 1
        BY <3>3
      <4>2. \A x \in Byte, N \in Blocks : ~(x < x) /\ ~(x + N - 1 < x)
        BY DEF Byte, Blocks
      <4> QED
        BY <1>1, <3>1, <4>1, <4>2
    <3> QED
      BY <3>2, <3>3
  <2> QED
    BY <2>1, <2>2 DEF Precedes
<1>14. \A k \in 1 .. Len(cidr.ip) - 2 : start[k] = end[k]
  <2>1. \A k \in 1 .. L - 2 : k \in 1 .. L - 1
    OBVIOUS
  <2> QED
    BY <1>1, <1>3, <2>1
<1> QED
  BY <1>1, <1>6, <1>10, <1>11, <1>12, <1>13, <1>14 DEF HostAndRangeFit, host, start, end, low

\* A CIDR has 4 bytes or 16.
LEMMA CIDRIs ==
    ASSUME NEW cidr \in CIDR
    PROVE  \E L \in {4, 16} : IsCIDR(cidr, L)
<1>1. cidr.ip \in IP /\ cidr.ones \in 0 .. 128 /\ cidr.ones <= 8 * Len(cidr.ip)
  BY DEF CIDR
<1>2. ASSUME NEW L \in {4, 16}, cidr.ip \in [1 .. L -> Byte]
      PROVE  IsCIDR(cidr, L)
  <2>1. Len(cidr.ip) = L
    BY <1>2
  <2>2. cidr.ones \in 0 .. 128 /\ cidr.ones <= 8 * L
    BY <1>1, <2>1, Zenon
  <2>3. cidr.ones \in 0 .. 8 * L
    BY <2>2
  <2> QED
    BY <1>2, <2>3 DEF IsCIDR
<1>3. cidr.ip \in [1 .. 4 -> Byte] \/ cidr.ip \in [1 .. 16 -> Byte]
  BY <1>1 DEF IP
<1> QED
  BY <1>2, <1>3

LEMMA WithinLow ==
    ASSUME NEW L \in {4, 16}, NEW cidr, IsCIDR(cidr, L), NEW ip \in [1 .. L -> Byte]
    PROVE  Within(ip, cidr) <=> LowestOf(ip, MaskOf(cidr)) = Low(cidr)
<1>1. cidr.ip \in [1 .. L -> Byte] /\ cidr.ones \in 0 .. 8 * L
  BY DEF IsCIDR
<1> DEFINE mask == MaskOf(cidr)
<1>2. mask.ones = cidr.ones
  BY LowIs
<1>3. Low(cidr) = LowestOf(cidr.ip, mask)
  BY DEF Low
<1> HIDE DEF mask
<1>4. Within(ip, cidr) <=> SamePrefix(ip, cidr.ip, mask)
  BY <1>1, <1>2, WithinBlocks
<1> QED
  BY <1>3, <1>4, Zenon DEF mask, SamePrefix

LEMMA LowWithin ==
    ASSUME NEW L \in {4, 16}, NEW cidr, IsCIDR(cidr, L)
    PROVE  Within(Low(cidr), cidr) /\ HostBitsAre(Low(cidr), cidr, 0)
<1>1. Low(cidr) \in [1 .. L -> Byte] /\ LowestOf(Low(cidr), MaskOf(cidr)) = Low(cidr) /\ MaskOf(cidr).ones = cidr.ones
  BY LowIs
<1>2. cidr.ip \in [1 .. L -> Byte] /\ cidr.ones \in 0 .. 8 * L
  BY DEF IsCIDR
<1> QED
  BY <1>1, <1>2, WithinLow, LowestHostBits DEF Low

\* The subnet that is made of the host's address again has the same addresses.
LEMMA ContainsIs ==
    ASSUME NEW cidr \in CIDR, ~TooStrict(cidr), FamilyFits(getNetworkIPConfig(cidr)), NEW ip \in IP,
           NEW address, address = getNetworkIPConfig(cidr).address
    PROVE  NetContains(IPNet([ip |-> address, ones |-> cidr.ones]), ip) <=> Within(ip, cidr)
<1>1. PICK L \in {4, 16} : IsCIDR(cidr, L)
  BY CIDRIs
<1>2. address \in [1 .. L -> Byte] /\ LowestOf(address, MaskOf(cidr)) = Low(cidr)
  BY <1>1, HostAndRange
<1>3. cidr.ip \in [1 .. L -> Byte] /\ cidr.ones \in 0 .. 8 * L
  BY <1>1 DEF IsCIDR
<1>4. Len(address) = L /\ Len(cidr.ip) = L
  BY <1>2, <1>3
<1>5. /\ MaskOf(cidr).ones = cidr.ones /\ Low(cidr) \in [1 .. L -> Byte]
      /\ LowestOf(Low(cidr), MaskOf(cidr)) = Low(cidr)
  BY <1>1, LowIs
<1>6. Len(Low(cidr)) = L
  BY <1>5
<1>7. IPNet([ip |-> address, ones |-> cidr.ones]) = [ip |-> Low(cidr), mask |-> MaskOf(cidr)]
  BY <1>2, <1>4 DEF IPNet, MaskOf
<1>8. NetContains(IPNet([ip |-> address, ones |-> cidr.ones]), ip)
      <=> Len(ip) = L /\ LowestOf(ip, MaskOf(cidr)) = Low(cidr)
  BY <1>5, <1>6, <1>7 DEF NetContains
<1>9. CASE Len(ip) = L
  <2>1. ip \in [1 .. L -> Byte]
    <3>1. ASSUME NEW K \in {4, 16}, ip \in [1 .. K -> Byte]
          PROVE  ip \in [1 .. L -> Byte]
      <4>1. Len(ip) = K
        BY <3>1
      <4> QED
        BY <1>9, <3>1, <4>1
    <3> QED
      BY <3>1 DEF IP
  <2>2. Within(ip, cidr) <=> LowestOf(ip, MaskOf(cidr)) = Low(cidr)
    BY <1>1, <2>1, WithinLow
  <2> QED
    BY <1>8, <1>9, <2>2
<1>10. CASE Len(ip) # L
  BY <1>4, <1>8, <1>10 DEF Within
<1> QED
  BY <1>9, <1>10

\* What is left of an element of networkDef.IPs.
HostIs(ip, cidr) ==
    /\ ~TooStrict(cidr)
    /\ FamilyFits(getNetworkIPConfig(cidr))
    /\ ip.address = getNetworkIPConfig(cidr).address
    /\ ip.prefix = getNetworkIPConfig(cidr).prefix
    /\ ip.dhcp \in {None, getNetworkIPConfig(cidr).dhcp}

\* getNetworkIdx, for every list of sections that getIPsFromResource has made: the index
\* of a section whose subnet has the address, and -1 only if no section's has it.
THEOREM IndexIs ==
    ASSUME NEW addresses \in Seq(CIDR), NEW hosts, DOMAIN hosts \subseteq DOMAIN addresses,
           \A n \in DOMAIN hosts : HostIs(hosts[n], addresses[n]), NEW ip \in IP
    PROVE  IF getNetworkIdx(hosts, ip) = -1 THEN \A n \in DOMAIN hosts : ~Within(ip, addresses[n])
           ELSE Within(ip, addresses[getNetworkIdx(hosts, ip) + 1])
<1> DEFINE has == {n \in DOMAIN hosts :
                     NetContains(IPNet([ip |-> hosts[n].address, ones |-> hosts[n].prefix]), ip)}
           least == CHOOSE n \in has : \A m \in has : n <= m
<1>1. has = {n \in DOMAIN hosts : Within(ip, addresses[n])}
  <2>1. ASSUME NEW n \in DOMAIN hosts
        PROVE  NetContains(IPNet([ip |-> hosts[n].address, ones |-> hosts[n].prefix]), ip) <=> Within(ip, addresses[n])
    <3> DEFINE cidr == addresses[n]
    <3>1. cidr \in CIDR /\ HostIs(hosts[n], cidr)
      OBVIOUS
    <3> HIDE DEF cidr
    <3>2. PICK L \in {4, 16} : IsCIDR(cidr, L)
      BY <3>1, CIDRIs
    <3>3. hosts[n].prefix = cidr.ones
      BY <3>1, <3>2, HostAndRange DEF HostIs
    <3>4. NetContains(IPNet([ip |-> hosts[n].address, ones |-> cidr.ones]), ip) <=> Within(ip, cidr)
      BY <3>1, ContainsIs DEF HostIs
    <3> QED
      BY <3>3, <3>4 DEF cidr
  <2> QED
    BY <2>1
<1>2. getNetworkIdx(hosts, ip) = IF has = {} THEN -1 ELSE least - 1
  BY DEF getNetworkIdx
<1>3. has \subseteq Nat \ {0}
  <2>1. DOMAIN addresses \subseteq Nat \ {0}
    OBVIOUS
  <2> QED
    BY <2>1
<1> HIDE DEF has
<1>4. CASE has = {}
  BY <1>1, <1>2, <1>4
<1>5. CASE has # {}
  <2>1. least \in has
    <3>1. has \subseteq Nat
      BY <1>3
    <3> QED
      BY <1>5, <3>1, Least
  <2>2. getNetworkIdx(hosts, ip) # -1 /\ getNetworkIdx(hosts, ip) + 1 = least
    <3> HIDE DEF least
    <3> QED
      BY <1>2, <1>3, <1>5, <2>1
  <2> HIDE DEF least
  <2>3. Within(ip, addresses[least])
    BY <1>1, <2>1
  <2> QED
    BY <2>2, <2>3
<1> QED
  BY <1>4, <1>5
=============================================================================
