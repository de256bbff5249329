-------------------------- MODULE DefinitionProofs --------------------------
(***************************************************************************)
(* The disks of a domain have targets of their own, for lists of any length *)
(* and of any disks; the addresses of a network and of the domain on it fit *)
(* the configured subnets, for prefixes of every length; and a read keeps   *)
(* the disks, the machine and the kernel's arguments, and settles them.     *)
(***************************************************************************)
EXTENDS CmdlineProofs

-----------------------------------------------------------------------------
(* The letters of disks: diskLetterForIndex is defined for every index, and *)
(* different indices have different letters.  By least counterexamples.     *)

\* What diskLetterForIndex makes of index k when f is known below k.
Letters(f, k) == IF k < 26 THEN <<k>> ELSE Append(f[k \div 26 - 1], k % 26)

\* g is diskLetterForIndex up to n.
UpTo(n, g) ==
    /\ g \in [0 .. n -> Seq(Nat)]
    /\ \A k \in 0 .. n : g[k] = Letters(g, k)

\* The index in front of the last letter.
LEMMA Carry ==
    ASSUME NEW k \in Nat, 26 <= k
    PROVE  /\ k \div 26 - 1 \in 0 .. k - 1
           /\ k % 26 \in Nat
  OBVIOUS

LEMMA UpToExists ==
    ASSUME NEW n \in Nat
    PROVE  \E g : UpTo(n, g)
<1> DEFINE T == {m \in Nat : ~\E g : UpTo(m, g)}
<1> SUFFICES ASSUME T # {} PROVE FALSE
  OBVIOUS
<1>1. PICK m \in T : \A k \in T : m <= k
  BY Least
<1>2. CASE m = 0
  <2> DEFINE g == [k \in 0 .. 0 |-> <<k>>]
  <2>1. UpTo(0, g)
    BY DEF UpTo, Letters
  <2> QED
    BY <1>2, <2>1
<1>3. CASE m # 0
  <2>1. m \in Nat /\ m - 1 \in Nat /\ m - 1 \notin T
    BY <1>1, <1>3
  <2>2. PICK g : UpTo(m - 1, g)
    BY <2>1
  <2> DEFINE h == [k \in 0 .. m |-> IF k < m THEN g[k] ELSE Letters(g, m)]
  <2>3. \A k \in 0 .. m - 1 : h[k] = g[k] /\ g[k] \in Seq(Nat)
    BY <2>1, <2>2 DEF UpTo
  <2>4. \A k \in 0 .. m : Letters(h, k) = Letters(g, k)
    BY <2>1, <2>3, Carry DEF Letters
  <2>5. Letters(g, m) \in Seq(Nat) /\ h[m] = Letters(g, m)
    <3>1. CASE m < 26
      BY <2>1, <3>1 DEF Letters
    <3>2. CASE 26 <= m
      <4>1. g[m \div 26 - 1] \in Seq(Nat) /\ m % 26 \in Nat
        BY <2>1, <2>3, <3>2, Carry
      <4> QED
        BY <2>1, <3>2, <4>1 DEF Letters
    <3> QED
      BY <2>1, <3>1, <3>2
  <2>6. UpTo(m, h)
    <3>1. h \in [0 .. m -> Seq(Nat)]
      <4>1. ASSUME NEW k \in 0 .. m PROVE h[k] \in Seq(Nat)
        <5>1. CASE k = m
          BY <2>5, <5>1
        <5>2. CASE k \in 0 .. m - 1
          BY <2>3, <5>2
        <5> QED
          BY <2>1, <5>1, <5>2
      <4>2. h = [k \in 0 .. m |-> h[k]]
        OBVIOUS
      <4> HIDE DEF h
      <4> QED
        BY <4>1, <4>2
    <3>2. ASSUME NEW k \in 0 .. m PROVE h[k] = Letters(h, k)
      <4>1. CASE k = m
        BY <2>4, <2>5, <4>1
      <4>2. CASE k \in 0 .. m - 1
        <5>1. g[k] = Letters(g, k)
          BY <2>2, <4>2 DEF UpTo
        <5> QED
          BY <2>3, <2>4, <4>2, <5>1
      <4> QED
        BY <2>1, <4>1, <4>2
    <3> HIDE DEF h
    <3> QED
      BY <3>1, <3>2 DEF UpTo
  <2> QED
    BY <2>6
<1> QED
  BY <1>2, <1>3

LEMMA UpToAgree ==
    ASSUME NEW n \in Nat, NEW m \in Nat, NEW g, NEW h, UpTo(n, g), UpTo(m, h),
           NEW k \in Nat, k <= n, k <= m
    PROVE  g[k] = h[k]
<1> DEFINE T == {j \in Nat : j <= n /\ j <= m /\ g[j] # h[j]}
<1> SUFFICES ASSUME T # {} PROVE FALSE
  OBVIOUS
<1>1. PICK j \in T : \A l \in T : j <= l
  BY Least
<1>2. g[j] = Letters(g, j) /\ h[j] = Letters(h, j)
  BY DEF UpTo
<1>3. 26 <= j => g[j \div 26 - 1] = h[j \div 26 - 1]
  BY <1>1, Carry
<1> QED
  BY <1>2, <1>3 DEF Letters

\* The recursion has a solution, which is what diskLetterForIndex chooses.
LEMMA Equation == diskLetterForIndex = [n \in Nat |-> Letters(diskLetterForIndex, n)]
<1> DEFINE G(n) == CHOOSE g : UpTo(n, g)
           F == [n \in Nat |-> G(n)[n]]
<1>1. \A n \in Nat : UpTo(n, G(n))
  BY UpToExists
<1>2. \A n \in Nat : F[n] = G(n)[n]
  OBVIOUS
<1> HIDE DEF G
<1>3. \A n, k \in Nat : k <= n => G(n)[k] = F[k]
  BY <1>1, <1>2, UpToAgree
<1>4. ASSUME NEW n \in Nat PROVE F[n] = Letters(F, n)
  <2> HIDE DEF F
  <2>1. G(n)[n] = Letters(G(n), n)
    BY <1>1 DEF UpTo
  <2>2. Letters(G(n), n) = Letters(F, n)
    BY <1>3, Carry DEF Letters
  <2> QED
    BY <1>2, <2>1, <2>2
<1>5. F = [n \in Nat |-> Letters(F, n)]
  BY <1>4
<1> HIDE DEF F
<1> QED
  BY <1>5 DEF diskLetterForIndex, Letters

LEMMA Unfold ==
    ASSUME NEW n \in Nat
    PROVE  diskLetterForIndex[n] = Letters(diskLetterForIndex, n)
  BY Equation

LEMMA Lettered ==
    ASSUME NEW n \in Nat
    PROVE  diskLetterForIndex[n] \in Seq(Nat) /\ Len(diskLetterForIndex[n]) >= 1
<1> DEFINE f == diskLetterForIndex
           T == {k \in Nat : ~(f[k] \in Seq(Nat) /\ Len(f[k]) >= 1)}
<1> SUFFICES ASSUME T # {} PROVE FALSE
  OBVIOUS
<1>1. PICK m \in T : \A k \in T : m <= k
  BY Least
<1>2. f[m] = Letters(f, m)
  BY Unfold
<1> HIDE DEF f
<1>3. CASE m < 26
  <2>1. f[m] = <<m>> /\ m \in Nat
    BY <1>1, <1>2, <1>3 DEF Letters
  <2>2. <<m>> \in Seq(Nat) /\ Len(<<m>>) >= 1
    BY <2>1
  <2> QED
    BY <1>1, <2>1, <2>2
<1>4. CASE 26 <= m
  <2> DEFINE s == f[m \div 26 - 1]
  <2>1. s \in Seq(Nat) /\ Len(s) >= 1 /\ m % 26 \in Nat
    BY <1>1, <1>4, Carry
  <2>2. f[m] = Append(s, m % 26)
    BY <1>2, <1>4 DEF Letters
  <2> HIDE DEF s
  <2>3. Append(s, m % 26) \in Seq(Nat) /\ Len(Append(s, m % 26)) = Len(s) + 1
    BY <2>1
  <2>4. Len(s) + 1 >= 1
    BY <2>1
  <2> QED
    BY <1>1, <2>2, <2>3, <2>4
<1> QED
  BY <1>3, <1>4

\* Different indices have different letters: however many disks there are, no two of
\* one bus get one name.
THEOREM LettersDiffer ==
    ASSUME NEW m \in Nat, NEW n \in Nat, m # n
    PROVE  diskLetterForIndex[m] # diskLetterForIndex[n]
<1> DEFINE f == diskLetterForIndex
           T == {k \in Nat : \E l \in Nat : k # l /\ f[k] = f[l]}
<1> SUFFICES ASSUME T # {} PROVE FALSE
  OBVIOUS
<1>1. PICK k \in T : \A j \in T : k <= j
  BY Least
<1>2. PICK l \in Nat : k # l /\ f[k] = f[l]
  BY <1>1
<1>3. f[k] = Letters(f, k) /\ f[l] = Letters(f, l)
  BY <1>1, <1>2, Unfold
<1>4. ASSUME NEW j \in Nat, j < 26
      PROVE  f[j] = <<j>>
  BY <1>4, Unfold DEF Letters
<1>5. ASSUME NEW j \in Nat, 26 <= j
      PROVE  /\ f[j] = Append(f[j \div 26 - 1], j % 26)
             /\ f[j \div 26 - 1] \in Seq(Nat) /\ Len(f[j \div 26 - 1]) >= 1
             /\ j \div 26 - 1 \in 0 .. j - 1 /\ j % 26 \in Nat
  <2>1. j \div 26 - 1 \in 0 .. j - 1 /\ j % 26 \in Nat
    BY <1>5, Carry
  <2>2. Letters(f, j) = Append(f[j \div 26 - 1], j % 26)
    BY <1>5 DEF Letters
  <2>3. f[j] = Letters(f, j)
    BY Unfold
  <2> QED
    BY <2>1, <2>2, <2>3, Lettered
<1> HIDE DEF f
<1>6. CASE k < 26 /\ l < 26
  BY <1>1, <1>2, <1>4, <1>6
<1>a. ASSUME NEW i1 \in Nat, NEW i2 \in Nat, i1 < 26, 26 <= i2
      PROVE  f[i1] # f[i2]
  <2> DEFINE s == f[i2 \div 26 - 1]
             x == i2 % 26
  <2>1. f[i1] = <<i1>> /\ f[i2] = Append(s, x) /\ s \in Seq(Nat) /\ Len(s) >= 1 /\ x \in Nat
    BY <1>4, <1>5, <1>a
  <2> HIDE DEF s, x
  <2>2. Len(<<i1>>) = 1 /\ Len(Append(s, x)) = Len(s) + 1 /\ Len(s) \in Nat
    BY <2>1
  <2> QED
    BY <2>1, <2>2
<1>7. CASE k < 26 /\ 26 <= l
  BY <1>1, <1>2, <1>a, <1>7
<1>8. CASE 26 <= k /\ l < 26
  BY <1>1, <1>2, <1>a, <1>8
<1>9. CASE 26 <= k /\ 26 <= l
  <2>1. f[k \div 26 - 1] = f[l \div 26 - 1] /\ k % 26 = l % 26
    <3>1. Append(f[k \div 26 - 1], k % 26) = Append(f[l \div 26 - 1], l % 26)
      BY <1>1, <1>2, <1>5, <1>9
    <3>2. /\ f[k \div 26 - 1] \in Seq(Nat) /\ k % 26 \in Nat
          /\ f[l \div 26 - 1] \in Seq(Nat) /\ l % 26 \in Nat
      BY <1>1, <1>2, <1>5, <1>9
    <3> DEFINE s == f[k \div 26 - 1]
               t == f[l \div 26 - 1]
               x == k % 26
               y == l % 26
    <3> HIDE DEF s, t, x, y
    <3>3. s \in Seq(Nat) /\ t \in Seq(Nat) /\ x \in Nat /\ y \in Nat /\ Append(s, x) = Append(t, y)
      BY <3>1, <3>2 DEF s, t, x, y
    <3>4. s = t /\ x = y
      BY <3>3, AppendInjective
    <3> QED
      BY <3>4 DEF s, t, x, y
  <2>2. k \div 26 - 1 \in Nat /\ l \div 26 - 1 \in Nat /\ k \div 26 - 1 < k
    BY <1>1, <1>2, <1>5, <1>9
  <2>3. k \div 26 = l \div 26
    BY <1>1, <2>1, <2>2
  <2> QED
    BY <1>1, <1>2, <2>1, <2>3
<1> QED
  BY <1>1, <1>2, <1>6, <1>7, <1>8, <1>9

-----------------------------------------------------------------------------
(* The disks.                                                               *)

IsSeq(s) == s \in Seq({s[n] : n \in DOMAIN s})

IsDomainDef(x) == x = [machine |-> x.machine, cmdline |-> x.cmdline, fwCfg |-> x.fwCfg, disks |-> x.disks]

TypeInv ==
    /\ IsDomainDef(def)
    /\ IsSeq(def.disks)
    /\ i \in Nat /\ numOfISOs \in Nat /\ numOfSCSIs \in Nat

\* What the target of a disk says of the counters when it was made.
Fits(serial, bus, index, disks, isos, scsis) ==
    /\ index \in Nat
    /\ \/ serial = "" /\ bus = "virtio" /\ index < disks
       \/ serial = "" /\ bus = "scsi" /\ index < scsis
       \/ serial = "" /\ bus = "ide" /\ index < isos
       \/ serial = "ignition" /\ bus = "virtio" /\ index = 1
       \/ serial = "cloudinit" /\ bus = "ide" /\ index = 3

\* The index that letters are made of.
Index(letters) == CHOOSE n \in Nat : diskLetterForIndex[n] = letters

TargetFits(disk, disks, isos, scsis) ==
    Fits(disk.serial, disk.target.bus, Index(disk.target.letters), disks, isos, scsis)

TargetsInv == \A n \in DOMAIN def.disks : TargetFits(def.disks[n], i, numOfISOs, numOfSCSIs)

\* Two disks that are both of the list, both for Ignition or both for cloud-init.
DistinctInv ==
    \A j, k \in DOMAIN def.disks :
        j # k /\ def.disks[j].serial = def.disks[k].serial =>
           def.disks[j].serial = "" /\ def.disks[j].target # def.disks[k].target

\* What has not been added yet.
OrderInv ==
    /\ pc \in {"cmdline", "ignition"} => def.disks = <<>>
    /\ pc \in {"disks", "cloudinit"} => \A n \in DOMAIN def.disks : def.disks[n].serial # "cloudinit"

IInv ==
    /\ TypeInv
    /\ TargetsInv
    /\ DistinctInv
    /\ OrderInv

-----------------------------------------------------------------------------

LEMMA IndexOfLetters ==
    /\ \A n \in Nat : Index(diskLetterForIndex[n]) = n
    /\ Index(<<1>>) = 1 /\ Index(<<3>>) = 3
<1>1. \A n \in Nat : Index(diskLetterForIndex[n]) = n
  BY LettersDiffer DEF Index
<1>2. ASSUME NEW n \in Nat, n < 26
      PROVE  diskLetterForIndex[n] = <<n>>
  BY <1>2, Unfold DEF Letters
<1>3. Index(diskLetterForIndex[1]) = 1 /\ Index(diskLetterForIndex[3]) = 3
  BY <1>1
<1>4. diskLetterForIndex[1] = <<1>> /\ diskLetterForIndex[3] = <<3>>
  BY <1>2
<1> QED
  BY <1>1, <1>3, <1>4, Zenon

\* One more disk: what is at which place.
LEMMA AppendDisk ==
    ASSUME NEW s, NEW e, IsSeq(s)
    PROVE  /\ IsSeq(Append(s, e))
           /\ DOMAIN Append(s, e) = DOMAIN s \union {Len(s) + 1}
           /\ \A n \in DOMAIN s : Append(s, e)[n] = s[n]
           /\ Append(s, e)[Len(s) + 1] = e
           /\ Len(s) + 1 \notin DOMAIN s
<1> DEFINE S == {s[n] : n \in DOMAIN s}
           T == S \union {e}
           t == Append(s, e)
<1>1. s \in Seq(S) /\ s \in Seq(T) /\ e \in T
  BY DEF IsSeq
<1>2. /\ t \in Seq(T)
      /\ Len(t) = Len(s) + 1
      /\ DOMAIN t = 1 .. Len(s) + 1
      /\ DOMAIN s = 1 .. Len(s)
      /\ Len(s) \in Nat
  BY <1>1
<1>3. \A n \in 1 .. Len(s) : t[n] = s[n]
  BY <1>1
<1>4. t[Len(s) + 1] = e
  BY <1>1
<1>5. t \in Seq({t[n] : n \in DOMAIN t})
  <2> DEFINE U == {t[n] : n \in DOMAIN t}
  <2>1. \A n \in DOMAIN t : t[n] \in U
    OBVIOUS
  <2> HIDE DEF U, t
  <2>2. t \in Seq(U)
    BY <1>2, <2>1
  <2> QED
    BY <2>2 DEF U
<1> QED
  BY <1>2, <1>3, <1>4, <1>5 DEF IsSeq

\* Counters only grow.
LEMMA FitsStays ==
    ASSUME NEW serial, NEW bus, NEW index,
           NEW n0 \in Nat, NEW n1 \in Nat, NEW n2 \in Nat,
           NEW m0 \in Nat, NEW m1 \in Nat, NEW m2 \in Nat, n0 <= m0, n1 <= m1, n2 <= m2,
           Fits(serial, bus, index, n0, n1, n2)
    PROVE  Fits(serial, bus, index, m0, m1, m2)
<1>1. index \in Nat
  BY Zenon DEF Fits
<1>2. (index < n0 => index < m0) /\ (index < n1 => index < m1) /\ (index < n2 => index < m2)
  BY <1>1
<1> QED
  BY <1>1, <1>2, Zenon DEF Fits

LEMMA TargetStays ==
    ASSUME NEW disk, NEW n0 \in Nat, NEW n1 \in Nat, NEW n2 \in Nat,
           NEW m0 \in Nat, NEW m1 \in Nat, NEW m2 \in Nat, n0 <= m0, n1 <= m1, n2 <= m2,
           TargetFits(disk, n0, n1, n2)
    PROVE  TargetFits(disk, m0, m1, m2)
  BY FitsStays, Zenon DEF TargetFits

\* A target that is made of the counters is a new one.
LEMMA FitsNew ==
    ASSUME NEW bus, NEW index, NEW newBus, NEW newIndex,
           NEW n0 \in Nat, NEW n1 \in Nat, NEW n2 \in Nat,
           Fits("", bus, index, n0, n1, n2),
           \/ newBus = "virtio" /\ newIndex = n0
           \/ newBus = "ide" /\ newIndex = n1
           \/ newBus = "scsi" /\ newIndex = n2
    PROVE  bus # newBus \/ index # newIndex
  BY DEF Fits

\* Where disks of different origin can meet.
LEMMA FitsMeet ==
    ASSUME NEW s1, NEW s2, NEW bus, NEW index, NEW n0 \in Nat, NEW n1 \in Nat, NEW n2 \in Nat,
           Fits(s1, bus, index, n0, n1, n2), Fits(s2, bus, index, n0, n1, n2), s1 # s2
    PROVE  \/ (s1 = "ignition" \/ s2 = "ignition") /\ n0 >= 2
           \/ (s1 = "cloudinit" \/ s2 = "cloudinit") /\ n1 >= 4
<1>1. (1 < n0 => n0 >= 2) /\ (3 < n1 => n1 >= 4)
  OBVIOUS
<1>2. "virtio" # "ide" /\ "virtio" # "scsi" /\ "ide" # "scsi"
  OBVIOUS
<1> DEFINE listed(s) == s = "" /\ (\/ bus = "virtio" /\ index < n0
                                   \/ bus = "scsi" /\ index < n2
                                   \/ bus = "ide" /\ index < n1)
           ignition(s) == s = "ignition" /\ bus = "virtio" /\ index = 1
           cloudinit(s) == s = "cloudinit" /\ bus = "ide" /\ index = 3
<1>4. (listed(s1) \/ ignition(s1) \/ cloudinit(s1)) /\ (listed(s2) \/ ignition(s2) \/ cloudinit(s2))
  BY Zenon DEF Fits
<1>5. ASSUME NEW s, NEW t, listed(s), ignition(t)
      PROVE  n0 >= 2
  BY <1>1, <1>2, <1>5, Zenon
<1>6. ASSUME NEW s, NEW t, listed(s), cloudinit(t)
      PROVE  n1 >= 4
  BY <1>1, <1>2, <1>6, Zenon
<1>7. ASSUME NEW s, NEW t, ignition(s), cloudinit(t)
      PROVE  FALSE
  BY <1>2, <1>7, Zenon
<1>8. ~(listed(s1) /\ listed(s2)) /\ ~(ignition(s1) /\ ignition(s2)) /\ ~(cloudinit(s1) /\ cloudinit(s2))
  BY Zenon
<1>9. (ignition(s1) => s1 = "ignition") /\ (ignition(s2) => s2 = "ignition")
      /\ (cloudinit(s1) => s1 = "cloudinit") /\ (cloudinit(s2) => s2 = "cloudinit")
  BY Zenon
<1> HIDE DEF listed, ignition, cloudinit
<1>10. CASE listed(s1)
  BY <1>4, <1>5, <1>6, <1>8, <1>9, <1>10, Zenon
<1>11. CASE ignition(s1)
  BY <1>4, <1>5, <1>7, <1>8, <1>9, <1>11, Zenon
<1>12. CASE cloudinit(s1)
  BY <1>4, <1>6, <1>7, <1>8, <1>9, <1>12, Zenon
<1> QED
  BY <1>4, <1>10, <1>11, <1>12, Zenon

LEMMA TargetFields ==
    ASSUME NEW target, NEW bus, NEW index \in Nat, target = Target(bus, diskLetterForIndex[index])
    PROVE  target.bus = bus /\ Index(target.letters) = index
<1> DEFINE letters == diskLetterForIndex[index]
<1>1. Index(letters) = index
  BY IndexOfLetters
<1> HIDE DEF letters
<1>2. target = Target(bus, letters)
  BY DEF letters
<1>3. target.bus = bus /\ target.letters = letters
  BY <1>2 DEF Target
<1> QED
  BY <1>1, <1>3

\* A disk whose target is made of the counters as they were, and that counts one up,
\* or that is the first of its kind, disturbs no other.
LEMMA AddDisk ==
    ASSUME IInv, NEW e, def' = [def EXCEPT !.disks = Append(@, e)],
           i' \in Nat, numOfISOs' \in Nat, numOfSCSIs' \in Nat,
           i <= i', numOfISOs <= numOfISOs', numOfSCSIs <= numOfSCSIs',
           TargetFits(e, i', numOfISOs', numOfSCSIs'),
           e.serial # "" => \A n \in DOMAIN def.disks : def.disks[n].serial # e.serial,
           e.serial = "" => \A n \in DOMAIN def.disks :
                               def.disks[n].serial = "" => def.disks[n].target # e.target
    PROVE  TypeInv' /\ TargetsInv' /\ DistinctInv'
<1>1. def'.disks = Append(def.disks, e) /\ IsDomainDef(def')
  BY DEF IInv, TypeInv, IsDomainDef
<1>2. IsSeq(def.disks)
  BY DEF IInv, TypeInv
<1>3. /\ IsSeq(def'.disks)
      /\ DOMAIN def'.disks = DOMAIN def.disks \union {Len(def.disks) + 1}
      /\ \A n \in DOMAIN def.disks : def'.disks[n] = def.disks[n]
      /\ def'.disks[Len(def.disks) + 1] = e
      /\ Len(def.disks) + 1 \notin DOMAIN def.disks
  <2>1. /\ IsSeq(Append(def.disks, e))
        /\ DOMAIN Append(def.disks, e) = DOMAIN def.disks \union {Len(def.disks) + 1}
        /\ \A n \in DOMAIN def.disks : Append(def.disks, e)[n] = def.disks[n]
        /\ Append(def.disks, e)[Len(def.disks) + 1] = e
        /\ Len(def.disks) + 1 \notin DOMAIN def.disks
    BY <1>2, AppendDisk, Zenon
  <2> QED
    BY <1>1, <2>1, Zenon
<1>4. TypeInv'
  BY <1>1, <1>3 DEF TypeInv
<1>5. ASSUME NEW n \in DOMAIN def'.disks
      PROVE  TargetFits(def'.disks[n], i', numOfISOs', numOfSCSIs')
  <2>1. CASE n \in DOMAIN def.disks
    <3>1. TargetFits(def.disks[n], i, numOfISOs, numOfSCSIs) /\ def'.disks[n] = def.disks[n]
      BY <1>3, <2>1 DEF IInv, TargetsInv
    <3>2. i \in Nat /\ numOfISOs \in Nat /\ numOfSCSIs \in Nat
      BY DEF IInv, TypeInv
    <3> QED
      BY <3>1, <3>2, TargetStays
  <2>2. CASE n = Len(def.disks) + 1
    BY <1>3, <2>2
  <2> QED
    BY <1>3, <2>1, <2>2
<1>6. TargetsInv'
  BY <1>5 DEF TargetsInv
<1>7. DistinctInv'
  <2> SUFFICES ASSUME NEW j \in DOMAIN def'.disks, NEW k \in DOMAIN def'.disks, j # k,
                      def'.disks[j].serial = def'.disks[k].serial
               PROVE  def'.disks[j].serial = "" /\ def'.disks[j].target # def'.disks[k].target
    BY DEF DistinctInv
  <2>1. CASE j \in DOMAIN def.disks /\ k \in DOMAIN def.disks
    <3>1. def'.disks[j] = def.disks[j] /\ def'.disks[k] = def.disks[k]
      BY <1>3, <2>1
    <3>2. DistinctInv
      BY DEF IInv
    <3> QED
      BY <2>1, <3>1, <3>2 DEF DistinctInv
  <2>2. CASE j = Len(def.disks) + 1 /\ k \in DOMAIN def.disks
    BY <1>3, <2>2
  <2>3. CASE j \in DOMAIN def.disks /\ k = Len(def.disks) + 1
    BY <1>3, <2>3
  <2> QED
    BY <1>3, <2>1, <2>2, <2>3
<1> QED
  BY <1>4, <1>6, <1>7

-----------------------------------------------------------------------------

LEMMA InitInv == Init => IInv
<1> SUFFICES ASSUME Init PROVE IInv
  OBVIOUS
<1>1. def.disks = <<>> /\ IsDomainDef(def)
  BY DEF Init, IsDomainDef
<1>2. IsSeq(<<>>) /\ DOMAIN <<>> = {}
  BY DEF IsSeq
<1> QED
  BY <1>1, <1>2 DEF Init, IInv, TypeInv, TargetsInv, DistinctInv, OrderInv

\* The steps that leave the disks and their counters alone.
LEMMA OtherSteps ==
    ASSUME IInv, def'.disks = def.disks, IsDomainDef(def'), UNCHANGED counters,
           pc' \in {"cmdline", "ignition"} => def.disks = <<>>,
           pc' \in {"disks", "cloudinit"} =>
             \A n \in DOMAIN def.disks : def.disks[n].serial # "cloudinit"
    PROVE  IInv'
<1>1. i' = i /\ numOfISOs' = numOfISOs /\ numOfSCSIs' = numOfSCSIs
  BY DEF counters
<1> QED
  BY <1>1, Zenon DEF IInv, TypeInv, TargetsInv, DistinctInv, OrderInv

\* NewDomainDef starts with no disk.
LEMMA NewDomainDefStep == IInv /\ NewDomainDef => IInv'
<1> SUFFICES ASSUME IInv, NewDomainDef PROVE IInv'
  OBVIOUS
<1>1. CASE pc' = "cmdline"
  <2>1. def'.disks = <<>> /\ IsDomainDef(def') /\ i' = 0 /\ numOfISOs' = 0 /\ numOfSCSIs' = 0
    BY <1>1 DEF NewDomainDef, IsDomainDef, Fail, counters
  <2>2. IsSeq(<<>>) /\ DOMAIN <<>> = {}
    BY DEF IsSeq
  <2> QED
    BY <1>1, <2>1, <2>2 DEF IInv, TypeInv, TargetsInv, DistinctInv, OrderInv
<1>2. CASE pc' = "error"
  BY <1>2, OtherSteps DEF NewDomainDef, Fail, Goto, IInv, TypeInv
<1> QED
  BY <1>1, <1>2 DEF NewDomainDef, Fail, Goto

LEMMA SetCoreOSIgnitionStep == IInv /\ SetCoreOSIgnition => IInv'
<1> SUFFICES ASSUME IInv, SetCoreOSIgnition PROVE IInv'
  OBVIOUS
<1> DEFINE e == Disk("disk", Target("virtio", <<1>>), [kind |-> "file", name |-> d.coreos_ignition],
                     "raw", "ignition", None)
<1>1. def.disks = <<>> /\ IsDomainDef(def)
  BY DEF SetCoreOSIgnition, IInv, OrderInv, TypeInv
<1>2. CASE def'.disks = def.disks /\ IsDomainDef(def') /\ UNCHANGED counters
  BY <1>1, <1>2, OtherSteps DEF SetCoreOSIgnition
<1>3. CASE def' = [def EXCEPT !.disks = Append(@, e)] /\ pc' = "disks" /\ UNCHANGED counters
  <2>1. e.serial = "ignition" /\ e.target.bus = "virtio" /\ Index(e.target.letters) = 1
    BY IndexOfLetters DEF Disk, Target
  <2>2. TargetFits(e, i', numOfISOs', numOfSCSIs')
    <3>1. 1 \in Nat
      OBVIOUS
    <3> HIDE DEF e
    <3> QED
      BY <2>1, <3>1, Zenon DEF TargetFits, Fits
  <2>3. i \in Nat /\ numOfISOs \in Nat /\ numOfSCSIs \in Nat
    BY DEF IInv, TypeInv
  <2>4. TypeInv' /\ TargetsInv' /\ DistinctInv'
    BY <1>1, <1>3, <2>1, <2>2, <2>3, AddDisk DEF counters
  <2>5. OrderInv'
    <3>1. def'.disks = <<e>>
      BY <1>1, <1>3 DEF IsDomainDef
    <3> QED
      BY <1>3, <2>1, <3>1 DEF OrderInv
  <2> QED
    BY <2>4, <2>5 DEF IInv
<1> QED
  BY <1>1, <1>2, <1>3 DEF SetCoreOSIgnition, Fail, Goto, IsDomainDef

\* The round of the loop: the new target is on another bus than each earlier one, or
\* counts further.
LEMMA SetDisksStep == IInv /\ SetDisks => IInv'
<1> SUFFICES ASSUME IInv, SetDisks PROVE IInv'
  OBVIOUS
<1>1. CASE UNCHANGED <<def, counters>>
  BY <1>1, OtherSteps DEF SetDisks, IInv, TypeInv, OrderInv, Goto, Fail
<1>2. CASE i < Len(d.disks) /\ ~UNCHANGED <<def, counters>>
  <2> DEFINE disk == d.disks[i + 1]
             e == NewDisk(disk)
  <2>1. /\ def' = [def EXCEPT !.disks = Append(@, e)]
        /\ i' = i + 1
        /\ numOfISOs' = numOfISOs + ISOs(disk)
        /\ numOfSCSIs' = numOfSCSIs + (IF disk.scsi THEN 1 ELSE 0)
        /\ pc = "disks" /\ pc' = "disks"
    BY <1>2 DEF SetDisks, Fail
  <2>2. e.serial = "" /\ e.target = TargetOf(disk)
    BY DEF NewDisk, Disk
  <2>3. i \in Nat /\ numOfISOs \in Nat /\ numOfSCSIs \in Nat
    BY DEF IInv, TypeInv
  <2>4. i' \in Nat /\ numOfISOs' \in Nat /\ numOfSCSIs' \in Nat
        /\ i < i' /\ numOfISOs <= numOfISOs' /\ numOfSCSIs <= numOfSCSIs'
    BY <2>1, <2>3 DEF ISOs
  <2>5. \/ e.target.bus = "virtio" /\ Index(e.target.letters) = i
        \/ e.target.bus = "scsi" /\ Index(e.target.letters) = numOfSCSIs /\ numOfSCSIs < numOfSCSIs'
        \/ e.target.bus = "ide" /\ Index(e.target.letters) = numOfISOs /\ numOfISOs < numOfISOs'
    <3>1. CASE IsISO(disk)
      <4>1. TargetOf(disk) = Target("ide", diskLetterForIndex[numOfISOs]) /\ ISOs(disk) = 1
        BY <3>1, Zenon DEF TargetOf, ISOs
      <4>2. e.target.bus = "ide" /\ Index(e.target.letters) = numOfISOs
        <5> HIDE DEF e
        <5> QED
          BY <2>2, <2>3, <4>1, TargetFields, Zenon
      <4> QED
        BY <2>1, <2>3, <4>1, <4>2
    <3>2. CASE ~IsISO(disk) /\ disk.scsi
      <4>1. TargetOf(disk) = Target("scsi", diskLetterForIndex[numOfSCSIs])
        BY <3>2, Zenon DEF TargetOf
      <4>2. e.target.bus = "scsi" /\ Index(e.target.letters) = numOfSCSIs
        <5> HIDE DEF e
        <5> QED
          BY <2>2, <2>3, <4>1, TargetFields, Zenon
      <4>3. numOfSCSIs' = numOfSCSIs + 1
        BY <2>1, <3>2, Zenon
      <4> QED
        BY <2>3, <4>2, <4>3
    <3>3. CASE ~IsISO(disk) /\ ~disk.scsi
      <4>1. TargetOf(disk) = Target("virtio", diskLetterForIndex[i])
        BY <3>3, Zenon DEF TargetOf
      <4> HIDE DEF e
      <4> QED
        BY <2>2, <2>3, <4>1, TargetFields, Zenon
    <3> QED
      BY <3>1, <3>2, <3>3
  <2>6. TargetFits(e, i', numOfISOs', numOfSCSIs')
    <3>1. Fits("", e.target.bus, Index(e.target.letters), i', numOfISOs', numOfSCSIs')
      <4> HIDE DEF e
      <4> QED
        BY <2>3, <2>4, <2>5 DEF Fits
    <3> QED
      BY <2>2, <3>1, Zenon DEF TargetFits
  <2>7. ASSUME NEW n \in DOMAIN def.disks, def.disks[n].serial = ""
        PROVE  def.disks[n].target # e.target
    <3>1. TargetFits(def.disks[n], i, numOfISOs, numOfSCSIs)
      BY DEF IInv, TargetsInv
    <3>2. Fits("", def.disks[n].target.bus, Index(def.disks[n].target.letters), i, numOfISOs, numOfSCSIs)
      BY <2>7, <3>1, Zenon DEF TargetFits
    <3>3. \/ def.disks[n].target.bus # e.target.bus
          \/ Index(def.disks[n].target.letters) # Index(e.target.letters)
      BY <2>3, <2>5, <3>2, FitsNew, Zenon
    <3> QED
      BY <3>3, Zenon
  <2>8. TypeInv' /\ TargetsInv' /\ DistinctInv'
    <3>1. i <= i'
      BY <2>3, <2>4
    <3> HIDE DEF e
    <3> QED
      BY <2>1, <2>2, <2>4, <2>6, <2>7, <3>1, AddDisk, Zenon
  <2>9. OrderInv'
    <3>1. def'.disks = Append(def.disks, e) /\ IsSeq(def.disks)
      BY <2>1 DEF IInv, TypeInv, IsDomainDef
    <3>2. /\ DOMAIN def'.disks = DOMAIN def.disks \union {Len(def.disks) + 1}
          /\ \A n \in DOMAIN def.disks : def'.disks[n] = def.disks[n]
          /\ def'.disks[Len(def.disks) + 1] = e
      <4> HIDE DEF e
      <4>1. /\ DOMAIN Append(def.disks, e) = DOMAIN def.disks \union {Len(def.disks) + 1}
            /\ \A n \in DOMAIN def.disks : Append(def.disks, e)[n] = def.disks[n]
            /\ Append(def.disks, e)[Len(def.disks) + 1] = e
        BY <3>1, AppendDisk, Zenon
      <4> QED
        BY <3>1, <4>1, Zenon
    <3> QED
      BY <2>1, <2>2, <3>2 DEF IInv, OrderInv
  <2> QED
    BY <2>8, <2>9 DEF IInv
<1> QED
  BY <1>1, <1>2 DEF SetDisks, Fail

LEMMA SetCloudinitStep == IInv /\ SetCloudinit => IInv'
<1> SUFFICES ASSUME IInv, SetCloudinit PROVE IInv'
  OBVIOUS
<1> DEFINE e == Disk("cdrom", Target("ide", <<3>>), [kind |-> "file", name |-> d.cloudinit],
                     "raw", "cloudinit", None)
<1>1. CASE def' = def
  BY <1>1, OtherSteps DEF SetCloudinit, IInv, TypeInv, Goto
<1>2. CASE def' = [def EXCEPT !.disks = Append(@, e)]
  <2>1. e.serial = "cloudinit" /\ e.target.bus = "ide" /\ Index(e.target.letters) = 3
    BY IndexOfLetters DEF Disk, Target
  <2>2. TargetFits(e, i', numOfISOs', numOfSCSIs')
    <3>1. 3 \in Nat
      OBVIOUS
    <3> HIDE DEF e
    <3> QED
      BY <2>1, <3>1, Zenon DEF TargetFits, Fits
  <2>3. i \in Nat /\ numOfISOs \in Nat /\ numOfSCSIs \in Nat /\ UNCHANGED counters
        /\ \A n \in DOMAIN def.disks : def.disks[n].serial # e.serial
    BY <2>1 DEF IInv, TypeInv, OrderInv, SetCloudinit
  <2>4. TypeInv' /\ TargetsInv' /\ DistinctInv'
    <3>1. /\ i' \in Nat /\ numOfISOs' \in Nat /\ numOfSCSIs' \in Nat
          /\ i <= i' /\ numOfISOs <= numOfISOs' /\ numOfSCSIs <= numOfSCSIs'
      BY <2>3 DEF counters
    <3> HIDE DEF e
    <3>2. e.serial # ""
      BY <2>1
    <3> QED
      BY <1>2, <2>2, <2>3, <3>1, <3>2, AddDisk, Zenon
  <2> QED
    BY <2>4 DEF IInv, OrderInv, SetCloudinit, Goto
<1> QED
  BY <1>1, <1>2 DEF SetCloudinit

LEMMA NextInv == IInv /\ [Next]_vars => IInv'
<1> SUFFICES ASSUME IInv, [Next]_vars PROVE IInv'
  OBVIOUS
<1>1. IsDomainDef(def)
  BY DEF IInv, TypeInv
<1>2. CASE CreateNetwork
  BY <1>1, <1>2, OtherSteps DEF CreateNetwork, Goto, Fail, counters
<1>3. CASE ReadNetwork
  BY <1>1, <1>3, OtherSteps DEF ReadNetwork, Goto
<1>4. CASE NewDomainDef
  BY <1>4, NewDomainDefStep
<1>5. CASE SetCmdlineArgs
  <2>1. def'.disks = def.disks /\ IsDomainDef(def')
    BY <1>1, <1>5 DEF SetCmdlineArgs, IsDomainDef
  <2> QED
    BY <1>5, <2>1, OtherSteps DEF SetCmdlineArgs, Goto, IInv, OrderInv
<1>6. CASE SetCoreOSIgnition
  BY <1>6, SetCoreOSIgnitionStep
<1>7. CASE SetDisks
  BY <1>7, SetDisksStep
<1>8. CASE SetCloudinit
  BY <1>8, SetCloudinitStep
<1>9. CASE SetNetworkInterface
  BY <1>1, <1>9, OtherSteps DEF SetNetworkInterface, Goto
<1>10. CASE DefineDomain
  <2>1. def'.disks = def.disks /\ IsDomainDef(def') /\ UNCHANGED counters /\ pc' \in {"read", "error"}
    BY <1>1, <1>10 DEF DefineDomain, IsDomainDef, Goto, Fail
  <2> QED
    BY <2>1, OtherSteps
<1>11. CASE ReadDomain
  <2>1. def' = def /\ UNCHANGED counters /\ pc' \in {"adopt", "done", "error"}
    BY <1>11 DEF ReadDomain, Goto, Fail
  <2> QED
    BY <1>1, <2>1, OtherSteps
<1>12. CASE Adopt
  BY <1>1, <1>12, OtherSteps DEF Adopt, Goto
<1>13. CASE UNCHANGED vars
  BY <1>1, <1>13, OtherSteps DEF vars, IInv, OrderInv
<1> QED
  BY <1>2, <1>3, <1>4, <1>5, <1>6, <1>7, <1>8, <1>9, <1>10, <1>11, <1>12, <1>13 DEF Next

\* No two disks of a list have one target, whatever their sources, buses and number;
\* the disk of Ignition meets at most the second of the list, that of cloud-init the
\* fourth image.
THEOREM DistinctTargets == Spec => []TargetsDistinct
<1>1. IInv => TargetsDistinct
  <2> SUFFICES ASSUME IInv, NEW j \in DOMAIN def.disks, NEW k \in DOMAIN def.disks, j # k,
                      def.disks[j].target = def.disks[k].target
               PROVE  \E n \in {j, k} : \/ def.disks[n].serial = "ignition" /\ i >= 2
                                        \/ def.disks[n].serial = "cloudinit" /\ numOfISOs >= 4
    BY DEF TargetsDistinct, SharedTargets
  <2>1. /\ TargetFits(def.disks[j], i, numOfISOs, numOfSCSIs)
        /\ TargetFits(def.disks[k], i, numOfISOs, numOfSCSIs)
        /\ i \in Nat /\ numOfISOs \in Nat
    BY DEF IInv, TypeInv, TargetsInv
  <2>2. def.disks[j].serial # def.disks[k].serial
    BY DEF IInv, DistinctInv
  <2>3. numOfSCSIs \in Nat
    BY DEF IInv, TypeInv
  <2>4. \/ (def.disks[j].serial = "ignition" \/ def.disks[k].serial = "ignition") /\ i >= 2
        \/ (def.disks[j].serial = "cloudinit" \/ def.disks[k].serial = "cloudinit") /\ numOfISOs >= 4
    BY <2>1, <2>2, <2>3, FitsMeet, Zenon DEF TargetFits
  <2> QED
    BY <2>4, Zenon
<1> QED
  BY InitInv, NextInv, <1>1, PTL DEF Spec

-----------------------------------------------------------------------------
(* The addresses.                                                           *)

\* What the network's definition and the read have made of the subnets.
AddressInv ==
    /\ DOMAIN config = Attribute
    /\ config.addresses \in Seq(CIDR)
    /\ config.ip \in {ip \in IP : To4(ip) = ip} \union {None}
    /\ DOMAIN d = Attribute
    /\ d.ip = config.ip
    /\ pc = "network" => DOMAIN IPs = {} /\ xmlIdx = None
    /\ pc \in {"network", "network.read"} => d.addresses = config.addresses
    /\ DOMAIN IPs \subseteq DOMAIN config.addresses
    /\ \A n \in DOMAIN IPs : HostIs(IPs[n], config.addresses[n])
    /\ pc \notin {"network.read", "error"} =>
         \A n \in DOMAIN IPs :
             d.addresses[n] = [ip |-> Low(config.addresses[n]), ones |-> config.addresses[n].ones]
    /\ xmlIdx # None => d.ip # None /\ xmlIdx = getNetworkIdx(IPs, d.ip)

LEMMA AddressInit == Init => AddressInv
<1> SUFFICES ASSUME Init PROVE AddressInv
  OBVIOUS
<1>1. DOMAIN IPs = {} /\ DOMAIN d = Attribute
  BY ConfigAssumption DEF Init
<1>2. config.addresses \in Seq(CIDR) /\ config.ip \in {ip \in IP : To4(ip) = ip} \union {None}
  BY ConfigAssumption DEF Init
<1> QED
  BY <1>1, <1>2 DEF Init, AddressInv

\* A step that leaves the network alone, and these attributes.
LEMMA AddressOther ==
    ASSUME AddressInv, IPs' = IPs, DOMAIN config' = DOMAIN config, config'.addresses = config.addresses,
           config'.ip = config.ip, DOMAIN d' = DOMAIN d, d'.ip = d.ip,
           d'.addresses = d.addresses, pc \notin {"network", "network.read"}, pc # "error" \/ pc' = "error",
           pc' \notin {"network", "network.read"},
           xmlIdx' = xmlIdx \/ (xmlIdx' # None => d.ip # None /\ xmlIdx' = getNetworkIdx(IPs, d.ip))
    PROVE  AddressInv'
<1>1. getNetworkIdx(IPs, d.ip)' = getNetworkIdx(IPs, d.ip)
  BY DEF getNetworkIdx
<1> QED
  BY <1>1 DEF AddressInv

LEMMA CreateNetworkStep == AddressInv /\ CreateNetwork => AddressInv'
<1> SUFFICES ASSUME AddressInv, CreateNetwork PROVE AddressInv'
  OBVIOUS
<1>1. /\ UNCHANGED <<config, d, xmlIdx>> /\ xmlIdx = None /\ pc' \in {"network.read", "error"}
      /\ d.addresses = config.addresses /\ DOMAIN IPs = {}
  BY DEF CreateNetwork, AddressInv, Goto, Fail
<1>2. CASE UNCHANGED IPs
  BY <1>1, <1>2 DEF AddressInv
<1>3. CASE /\ IPs' = getIPsFromResource
           /\ \A n \in DOMAIN d.addresses : ~TooStrict(d.addresses[n])
           /\ \A n \in DOMAIN IPs' : FamilyFits(IPs'[n])
           /\ pc' = "network.read"
  <2> DEFINE host(n) == getNetworkIPConfig(config.addresses[n])
  <2>1. /\ DOMAIN IPs' = DOMAIN config.addresses
        /\ \A n \in DOMAIN config.addresses :
             \E dhcp \in {None, host(n).dhcp} : IPs'[n] = [host(n) EXCEPT !.dhcp = dhcp]
    BY <1>1, <1>3 DEF getIPsFromResource
  <2>2. ASSUME NEW n \in DOMAIN config.addresses
        PROVE  HostIs(IPs'[n], config.addresses[n])
    <3> DEFINE cidr == config.addresses[n]
    <3>1. PICK dhcp \in {None, host(n).dhcp} : IPs'[n] = [host(n) EXCEPT !.dhcp = dhcp]
      BY <2>1
    <3>2. DOMAIN host(n) = {"address", "prefix", "family", "dhcp"}
      BY DEF getNetworkIPConfig
    <3>3. ~TooStrict(cidr) /\ FamilyFits(IPs'[n])
      BY <1>1, <1>3, <2>1
    <3> HIDE DEF host
    <3>4. /\ IPs'[n].address = host(n).address /\ IPs'[n].prefix = host(n).prefix
          /\ IPs'[n].family = host(n).family /\ IPs'[n].dhcp = dhcp
      BY <3>1, <3>2
    <3>5. FamilyFits(host(n))
      BY <3>3, <3>4 DEF FamilyFits
    <3> QED
      BY <3>3, <3>4, <3>5 DEF HostIs, host
  <2> QED
    BY <1>1, <1>3, <2>1, <2>2 DEF AddressInv
<1> QED
  BY <1>2, <1>3 DEF CreateNetwork, Goto, Fail

LEMMA CIDRAt ==
    ASSUME AddressInv, NEW n \in DOMAIN IPs
    PROVE  config.addresses[n] \in CIDR /\ HostIs(IPs[n], config.addresses[n])
<1>1. config.addresses \in Seq(CIDR) /\ n \in DOMAIN config.addresses
  BY DEF AddressInv
<1> QED
  BY <1>1 DEF AddressInv

LEMMA ReadNetworkStep == AddressInv /\ ReadNetwork => AddressInv'
<1> SUFFICES ASSUME AddressInv, ReadNetwork PROVE AddressInv'
  OBVIOUS
<1>1. /\ UNCHANGED <<config, IPs, xmlIdx>> /\ pc' = "domain"
      /\ DOMAIN d' = DOMAIN d /\ d'.ip = d.ip
      /\ IPs # <<>> => d'.addresses = [n \in DOMAIN IPs |-> NetworkCIDR(IPs[n])]
  BY DEF ReadNetwork, AddressInv, Attribute, Goto
<1>2. ASSUME NEW n \in DOMAIN IPs
      PROVE  d'.addresses[n] = [ip |-> Low(config.addresses[n]), ones |-> config.addresses[n].ones]
  <2> DEFINE cidr == config.addresses[n]
  <2>1. cidr \in CIDR /\ HostIs(IPs[n], cidr)
    BY CIDRAt
  <2>2. d'.addresses[n] = NetworkCIDR(IPs[n])
    BY <1>1
  <2> HIDE DEF cidr
  <2>3. PICK L \in {4, 16} : IsCIDR(cidr, L)
    BY <2>1, CIDRIs
  <2>4. IPs[n].prefix = cidr.ones /\ LowestOf(IPs[n].address, MaskOf(cidr)) = Low(cidr)
    BY <2>1, <2>3, HostAndRange DEF HostIs
  <2>5. MaskOf(cidr).ones = [ones |-> cidr.ones].ones
    BY DEF MaskOf
  <2>6. LowestOf(IPs[n].address, [ones |-> cidr.ones]) = Low(cidr)
    BY <2>4, <2>5, SameOnes
  <2> QED
    BY <2>2, <2>4, <2>6 DEF NetworkCIDR, cidr
<1>3. getNetworkIdx(IPs, d.ip)' = getNetworkIdx(IPs, d.ip)
  BY <1>1 DEF getNetworkIdx
<1> QED
  BY <1>1, <1>2, <1>3 DEF AddressInv

LEMMA AddressNext == AddressInv /\ [Next]_vars => AddressInv'
<1> SUFFICES ASSUME AddressInv, [Next]_vars PROVE AddressInv'
  OBVIOUS
<1>1. CASE CreateNetwork
  BY <1>1, CreateNetworkStep
<1>2. CASE ReadNetwork
  BY <1>2, ReadNetworkStep
<1>3. CASE NewDomainDef \/ SetCmdlineArgs \/ SetCoreOSIgnition \/ SetDisks \/ SetCloudinit \/ DefineDomain
  <2>1. /\ UNCHANGED <<config, d, IPs, xmlIdx>>
        /\ pc \notin {"network", "network.read", "error"} /\ pc' \notin {"network", "network.read"}
    BY <1>3 DEF NewDomainDef, SetCmdlineArgs, SetCoreOSIgnition, SetDisks, SetCloudinit, DefineDomain, Goto, Fail
  <2> QED
    BY <2>1, AddressOther
<1>4. CASE SetNetworkInterface
  BY <1>4, AddressOther DEF SetNetworkInterface, Goto
<1>5. CASE ReadDomain
  <2>1. /\ UNCHANGED <<config, IPs, xmlIdx>> /\ pc = "read" /\ pc' \in {"adopt", "done", "error"}
        /\ DOMAIN d' = DOMAIN d /\ d'.ip = d.ip /\ d'.addresses = d.addresses
    BY <1>5 DEF ReadDomain, AddressInv, Attribute, Goto, Fail
  <2> QED
    BY <2>1, AddressOther
<1>6. CASE Adopt
  <2>1. /\ UNCHANGED <<d, IPs, xmlIdx>> /\ pc = "adopt" /\ pc' = "domain"
        /\ DOMAIN config' = DOMAIN config /\ config'.addresses = config.addresses /\ config'.ip = config.ip
    BY <1>6 DEF Adopt, AddressInv, Attribute, Goto
  <2> QED
    BY <2>1, AddressOther
<1>7. CASE UNCHANGED vars
  <2>1. getNetworkIdx(IPs, d.ip)' = getNetworkIdx(IPs, d.ip)
    BY <1>7 DEF getNetworkIdx, vars
  <2> QED
    BY <1>7, <2>1 DEF AddressInv, vars
<1> QED
  BY <1>1, <1>2, <1>3, <1>4, <1>5, <1>6, <1>7 DEF Next

\* Every network that libvirt gets has its host and its DHCP range in the configured
\* subnet, and reads back as it; a domain's address is registered in the section of a
\* subnet that has it.  For addresses of both families and prefixes of every length.
THEOREM NetworksFit == Spec => []AddressesFit
<1>1. AddressInv => AddressesFit
  <2> SUFFICES ASSUME AddressInv PROVE AddressesFit
    OBVIOUS
  <2>1. ASSUME NEW n \in DOMAIN IPs
        PROVE  LET cidr == config.addresses[n]
                   range == IPs[n].dhcp
               IN  /\ Within(IPs[n].address, cidr)
                   /\ ~HostBitsAre(IPs[n].address, cidr, 0)
                   /\ range # None =>
                        /\ Within(range.start, cidr) /\ Within(range.end, cidr)
                        /\ Precedes(IPs[n].address, range.start)
                        /\ ~Precedes(range.end, range.start)
                        /\ \A k \in 1 .. Len(cidr.ip) - 2 : range.start[k] = range.end[k]
                        /\ Len(cidr.ip) = 4 => ~HostBitsAre(range.end, cidr, 1)
                   /\ pc \notin {"network.read", "error"} =>
                        /\ d.addresses[n].ones = cidr.ones
                        /\ Within(d.addresses[n].ip, cidr)
                        /\ HostBitsAre(d.addresses[n].ip, cidr, 0)
    <3> DEFINE cidr == config.addresses[n]
               host == getNetworkIPConfig(cidr)
    <3>1. cidr \in CIDR /\ HostIs(IPs[n], cidr)
      BY CIDRAt
    <3>2. pc \notin {"network.read", "error"} => d.addresses[n] = [ip |-> Low(cidr), ones |-> cidr.ones]
      BY DEF AddressInv
    <3> HIDE DEF cidr
    <3>3. PICK L \in {4, 16} : IsCIDR(cidr, L)
      BY <3>1, CIDRIs
    <3>4. HostAndRangeFit(host, host.dhcp, cidr)
      BY <3>1, <3>3, HostAndRange DEF HostIs
    <3>5. Within(Low(cidr), cidr) /\ HostBitsAre(Low(cidr), cidr, 0)
      BY <3>3, LowWithin
    <3>6. IPs[n].address = host.address /\ IPs[n].dhcp \in {None, host.dhcp}
      BY <3>1 DEF HostIs
    <3> HIDE DEF host
    <3> QED
      BY <3>2, <3>4, <3>5, <3>6 DEF HostAndRangeFit, cidr
  <2>2. ASSUME xmlIdx # None
        PROVE  IF xmlIdx = -1 THEN \A n \in DOMAIN IPs : ~Within(d.ip, config.addresses[n])
               ELSE Within(d.ip, config.addresses[xmlIdx + 1])
    <3>1. /\ config.addresses \in Seq(CIDR) /\ DOMAIN IPs \subseteq DOMAIN config.addresses
          /\ \A n \in DOMAIN IPs : HostIs(IPs[n], config.addresses[n])
      BY DEF AddressInv
    <3>2. d.ip \in IP /\ xmlIdx = getNetworkIdx(IPs, d.ip)
      BY <2>2 DEF AddressInv
    <3> QED
      BY <3>1, <3>2, IndexIs
  <2> QED
    BY <2>1, <2>2 DEF AddressesFit
<1> QED
  BY AddressInit, AddressNext, <1>1, PTL DEF Spec

-----------------------------------------------------------------------------
(* What is configured: the create of a domain starts from that.             *)

SameInv ==
    pc \notin {"adopt", "done", "error"} =>
        d.machine = config.machine /\ d.cmdline = config.cmdline /\ d.disks = config.disks

LEMMA SameInit == Init => SameInv
  BY DEF Init, SameInv

LEMMA SameNext == AddressInv /\ SameInv /\ [Next]_vars => SameInv'
<1> SUFFICES ASSUME AddressInv, SameInv, [Next]_vars PROVE SameInv'
  OBVIOUS
<1>1. DOMAIN d = Attribute /\ DOMAIN config = Attribute
  BY DEF AddressInv
<1>2. CASE CreateNetwork \/ NewDomainDef \/ SetCmdlineArgs \/ SetCoreOSIgnition \/ SetDisks \/ SetCloudinit
           \/ SetNetworkInterface \/ DefineDomain
  <2>1. UNCHANGED <<config, d>> /\ pc \notin {"adopt", "done", "error"}
    BY <1>2 DEF CreateNetwork, NewDomainDef, SetCmdlineArgs, SetCoreOSIgnition, SetDisks, SetCloudinit,
                SetNetworkInterface, DefineDomain, Fail
  <2> QED
    BY <2>1 DEF SameInv
<1>3. CASE ReadNetwork
  <2>1. /\ d'.machine = d.machine /\ d'.cmdline = d.cmdline /\ d'.disks = d.disks
        /\ pc = "network.read" /\ config' = config
    BY <1>1, <1>3 DEF ReadNetwork, Attribute
  <2> QED
    BY <2>1 DEF SameInv
<1>4. CASE ReadDomain
  <2>1. pc' \in {"adopt", "done", "error"}
    BY <1>4 DEF ReadDomain, Goto, Fail
  <2> QED
    BY <2>1 DEF SameInv
<1>5. CASE Adopt
  <2>1. /\ config'.machine = d.machine /\ config'.cmdline = d.cmdline /\ config'.disks = d.disks
        /\ d' = d
    BY <1>1, <1>5 DEF Adopt, Attribute
  <2> QED
    BY <2>1 DEF SameInv
<1>6. CASE UNCHANGED vars
  BY <1>6 DEF vars, SameInv
<1> QED
  BY <1>2, <1>3, <1>4, <1>5, <1>6 DEF Next

-----------------------------------------------------------------------------
(* What is read back: the disks.                                            *)

\* What FoldLeft computes for a set of positions, f being what it computes for smaller ones.
Round(f, s, S) == IF S = {} THEN <<>> ELSE NextDisk(f[S \ {Max(S)}], s[Max(S)])

LEMMA RoundsExist ==
    ASSUME NEW s, NEW n \in Nat
    PROVE  \E f : f = [S \in SUBSET (1 .. n) |-> Round(f, s, S)]
<1> DEFINE P(m, f) == f = [S \in SUBSET (1 .. m) |-> Round(f, s, S)]
           T == {m \in Nat : ~\E f : P(m, f)}
<1> SUFFICES ASSUME T # {} PROVE FALSE
  OBVIOUS
<1>1. PICK m \in T : \A k \in T : m <= k
  BY Least
<1>2. CASE m = 0
  <2> DEFINE f == [S \in SUBSET (1 .. 0) |-> <<>>]
  <2>1. \A S \in SUBSET (1 .. 0) : Round(f, s, S) = <<>>
    BY DEF Round
  <2>2. P(0, f)
    BY <2>1
  <2> QED
    BY <1>2, <2>2
<1>3. CASE m # 0
  <2>1. m \in Nat \ {0} /\ m - 1 \in Nat /\ m - 1 \notin T
    <3>1. T \subseteq Nat
      OBVIOUS
    <3> HIDE DEF T
    <3> QED
      BY <1>1, <1>3, <3>1
  <2>2. PICK g : P(m - 1, g)
    BY <2>1
  <2> DEFINE h == [S \in SUBSET (1 .. m) |-> IF m \in S THEN NextDisk(g[S \ {m}], s[m]) ELSE g[S]]
  <2>3. \A S \in SUBSET (1 .. m) : m \notin S => S \in SUBSET (1 .. m - 1)
    BY <2>1
  <2>4. ASSUME NEW S \in SUBSET (1 .. m - 1)
        PROVE  S \in SUBSET (1 .. m) /\ h[S] = g[S]
    BY <2>1
  <2>5. ASSUME NEW S \in SUBSET (1 .. m)
        PROVE  h[S] = Round(h, s, S)
    <3>1. CASE m \in S
      <4>1. S \ {m} \in SUBSET (1 .. m - 1) /\ Max(S) = m
        BY <2>1, <2>3, <3>1, Greatest
      <4>2. h[S \ {m}] = g[S \ {m}]
        BY <2>4, <4>1
      <4>3. h[S] = NextDisk(g[S \ {m}], s[m])
        BY <3>1
      <4> HIDE DEF h
      <4> QED
        BY <3>1, <4>1, <4>2, <4>3 DEF Round
    <3>2. CASE m \notin S
      <4>1. S \in SUBSET (1 .. m - 1)
        BY <2>3, <3>2
      <4>2. h[S] = g[S] /\ g[S] = Round(g, s, S)
        BY <2>2, <2>4, <4>1
      <4>3. CASE S = {}
        BY <4>2, <4>3 DEF Round
      <4>4. CASE S # {}
        <5>1. S \ {Max(S)} \in SUBSET (1 .. m - 1)
          BY <4>1
        <5>2. h[S \ {Max(S)}] = g[S \ {Max(S)}]
          BY <2>4, <5>1
        <5> HIDE DEF h
        <5> QED
          BY <4>2, <4>4, <5>2 DEF Round
      <4> QED
        BY <4>3, <4>4
    <3> QED
      BY <3>1, <3>2
  <2>6. h = [S \in SUBSET (1 .. m) |-> h[S]]
    OBVIOUS
  <2> HIDE DEF h
  <2>7. P(m, h)
    BY <2>5, <2>6
  <2> QED
    BY <1>1, <2>7
<1> QED
  BY <1>2, <1>3

\* The loop over disks, round by round.
LEMMA FoldDisks ==
    ASSUME NEW s, NEW n \in Nat, DOMAIN s = 1 .. n
    PROVE  \E disks : /\ disks[0] = <<>>
                      /\ \A k \in 1 .. n : disks[k] = NextDisk(disks[k - 1], s[k])
                      /\ FoldLeft(NextDisk, <<>>, s) = disks[n]
<1> DEFINE f == CHOOSE g : g = [S \in SUBSET (1 .. n) |-> Round(g, s, S)]
           disks == [k \in 0 .. n |-> f[1 .. k]]
<1>1. f = [S \in SUBSET (1 .. n) |-> Round(f, s, S)]
  BY RoundsExist
<1>2. FoldLeft(NextDisk, <<>>, s) = f[1 .. n]
  BY DEF FoldLeft, MapThenFoldSet, Round
<1> HIDE DEF f
<1>3. disks[0] = <<>>
  <2>1. 1 .. 0 = {} /\ 1 .. 0 \in SUBSET (1 .. n) /\ disks[0] = f[1 .. 0]
    OBVIOUS
  <2>2. f[1 .. 0] = Round(f, s, 1 .. 0)
    BY <1>1, <2>1
  <2> QED
    BY <2>1, <2>2 DEF Round
<1>4. ASSUME NEW k \in 1 .. n
      PROVE  disks[k] = NextDisk(disks[k - 1], s[k])
  <2>1. /\ 1 .. k \in SUBSET (1 .. n) /\ 1 .. k # {} /\ (1 .. k) \ {k} = 1 .. k - 1
        /\ Max(1 .. k) = k
    BY Greatest
  <2>2. disks[k] = f[1 .. k] /\ disks[k - 1] = f[1 .. k - 1]
    OBVIOUS
  <2>3. f[1 .. k] = Round(f, s, 1 .. k)
    BY <1>1, <2>1
  <2> HIDE DEF disks
  <2> QED
    BY <2>1, <2>2, <2>3 DEF Round
<1>5. disks[n] = f[1 .. n]
  OBVIOUS
<1> HIDE DEF disks
<1> QED
  BY <1>2, <1>3, <1>4, <1>5

\* Every disk that the read makes of a definition's has all attributes.
LEMMA FoldBlocks ==
    ASSUME NEW s, NEW n \in Nat, DOMAIN s = 1 .. n,
           \A k \in 1 .. n : IsDisk(ReadDisk(s[k]))
    PROVE  LET disks == FoldLeft(NextDisk, <<>>, s)
           IN  IsSeq(disks) /\ \A k \in DOMAIN disks : IsDisk(disks[k])
<1>1. PICK acc : /\ acc[0] = <<>>
                 /\ \A k \in 1 .. n : acc[k] = NextDisk(acc[k - 1], s[k])
                 /\ FoldLeft(NextDisk, <<>>, s) = acc[n]
  BY FoldDisks
<1> DEFINE Good(disks) == IsSeq(disks) /\ \A k \in DOMAIN disks : IsDisk(disks[k])
           T == {k \in 0 .. n : ~Good(acc[k])}
<1>2. Good(<<>>)
  BY DEF IsSeq
<1>3. ASSUME NEW disks, NEW disk, Good(disks), IsDisk(ReadDisk(disk))
      PROVE  Good(NextDisk(disks, disk))
  <2>1. CASE disk.serial = "cloudinit"
    BY <1>3, <2>1, Zenon DEF NextDisk
  <2>2. CASE disk.serial # "cloudinit"
    <3> DEFINE e == ReadDisk(disk)
               t == Append(disks, e)
    <3> HIDE DEF e
    <3>1. /\ IsSeq(t)
          /\ DOMAIN t = DOMAIN disks \union {Len(disks) + 1}
          /\ \A k \in DOMAIN disks : t[k] = disks[k]
          /\ t[Len(disks) + 1] = e
      BY <1>3, AppendDisk, Zenon
    <3> HIDE DEF t
    <3>2. Good(t)
      BY <1>3, <3>1 DEF e
    <3>3. NextDisk(disks, disk) = t
      BY <2>2 DEF NextDisk, t, e
    <3> HIDE DEF Good
    <3> QED
      BY <3>2, <3>3
  <2> QED
    BY <2>1, <2>2
<1> HIDE DEF Good
<1>4. T = {}
  <2> SUFFICES ASSUME T # {} PROVE FALSE
    OBVIOUS
  <2>1. PICK m \in T : \A k \in T : m <= k
    <3>1. T \subseteq Nat
      OBVIOUS
    <3> HIDE DEF T
    <3> QED
      BY <3>1, Least
  <2>2. m # 0
    BY <1>1, <1>2, <2>1
  <2>3. m \in 1 .. n /\ m - 1 \in 0 .. n /\ m - 1 \notin T
    BY <2>1, <2>2
  <2>4. Good(acc[m - 1]) /\ acc[m] = NextDisk(acc[m - 1], s[m])
    BY <1>1, <2>3
  <2>5. Good(acc[m])
    BY <1>3, <2>3, <2>4
  <2> QED
    BY <2>1, <2>5
<1>5. Good(acc[n])
  BY <1>4
<1> QED
  BY <1>1, <1>5 DEF Good

\* The read of a list of disks, with cloud-init's behind it or not.
LEMMA FoldRead ==
    ASSUME NEW s, NEW n \in Nat, DOMAIN s = 1 .. n, NEW t, IsSeq(t), Len(t) <= n,
           \A k \in DOMAIN t : s[k].serial # "cloudinit" /\ ReadDisk(s[k]) = t[k],
           \A k \in 1 .. n : k \notin DOMAIN t => s[k].serial = "cloudinit"
    PROVE  FoldLeft(NextDisk, <<>>, s) = t
<1>1. PICK acc : /\ acc[0] = <<>>
                 /\ \A k \in 1 .. n : acc[k] = NextDisk(acc[k - 1], s[k])
                 /\ FoldLeft(NextDisk, <<>>, s) = acc[n]
  BY FoldDisks
<1>2. Len(t) \in 0 .. n /\ DOMAIN t = 1 .. Len(t) /\ t = [k \in 1 .. Len(t) |-> t[k]]
  BY DEF IsSeq
<1> DEFINE upTo(k) == [j \in 1 .. k |-> t[j]]
           T == {k \in 0 .. n : acc[k] # IF k <= Len(t) THEN upTo(k) ELSE t}
<1>3. ASSUME NEW k \in 1 .. Len(t)
      PROVE  Append(upTo(k - 1), t[k]) = upTo(k)
  <2> DEFINE S == {t[j] : j \in DOMAIN t}
  <2>1. /\ t[k] \in S
        /\ \A j \in 1 .. k - 1 : t[j] \in S
    BY <1>2
  <2>2. upTo(k - 1) \in Seq(S) /\ Len(upTo(k - 1)) = k - 1
    <3> HIDE DEF S
    <3> QED
      BY <2>1
  <2> HIDE DEF S
  <2> DEFINE u == upTo(k - 1)
             v == Append(u, t[k])
  <2>3. \A j \in 1 .. k - 1 : u[j] = t[j]
    OBVIOUS
  <2>4. u \in Seq(S) /\ Len(u) = k - 1
    BY <2>2
  <2> HIDE DEF u, upTo
  <2>5. v \in Seq(S) /\ DOMAIN v = 1 .. k /\ \A j \in 1 .. k : v[j] = t[j]
    BY <2>1, <2>3, <2>4
  <2> HIDE DEF v
  <2>6. v = upTo(k)
    BY <2>5 DEF upTo
  <2> QED
    BY <2>6 DEF v, u
<1>4. T = {}
  <2> SUFFICES ASSUME T # {} PROVE FALSE
    OBVIOUS
  <2>1. PICK m \in T : \A k \in T : m <= k
    <3>1. T \subseteq Nat
      OBVIOUS
    <3> HIDE DEF T
    <3> QED
      BY <3>1, Least
  <2>2. upTo(0) = <<>>
    OBVIOUS
  <2>3. m # 0
    BY <1>1, <1>2, <2>1, <2>2
  <2>4. /\ m \in 1 .. n /\ m - 1 \in 0 .. n
        /\ acc[m - 1] = IF m - 1 <= Len(t) THEN upTo(m - 1) ELSE t
    <3>1. m \in 1 .. n /\ m - 1 \in 0 .. n
      BY <2>1, <2>3
    <3>2. m - 1 \notin T
      <4> HIDE DEF T
      <4> QED
        BY <2>1, <3>1
    <3> HIDE DEF upTo
    <3> QED
      BY <3>1, <3>2
  <2>5. acc[m] = NextDisk(acc[m - 1], s[m])
    BY <1>1, <2>4
  <2>6. CASE m <= Len(t)
    <3>1. m \in 1 .. Len(t) /\ m - 1 <= Len(t)
      BY <1>2, <2>4, <2>6
    <3>2. acc[m] = Append(upTo(m - 1), t[m])
      <4> HIDE DEF upTo
      <4> QED
        BY <1>2, <2>4, <2>5, <3>1 DEF NextDisk
    <3>3. acc[m] = upTo(m)
      <4> HIDE DEF upTo
      <4> QED
        BY <1>3, <3>1, <3>2
    <3> QED
      BY <2>1, <2>6, <3>3
  <2>7. CASE ~(m <= Len(t))
    <3>1. s[m].serial = "cloudinit" /\ acc[m - 1] = t
      <4>1. upTo(Len(t)) = t
        BY <1>2
      <4> HIDE DEF upTo
      <4> QED
        BY <1>2, <2>4, <2>7, <4>1
    <3>2. acc[m] = t
      BY <2>5, <3>1 DEF NextDisk
    <3> QED
      BY <2>1, <2>7, <3>2
  <2> QED
    BY <2>6, <2>7
<1>5. acc[n] = IF n <= Len(t) THEN upTo(n) ELSE t
  BY <1>4
<1>6. CASE n <= Len(t)
  <2>1. n = Len(t)
    BY <1>2, <1>6
  <2> QED
    BY <1>1, <1>2, <1>5, <2>1
<1>7. CASE ~(n <= Len(t))
  BY <1>1, <1>5, <1>7
<1> QED
  BY <1>6, <1>7

\* A disk that the read makes of what the create makes of it.
Settled(disk) ==
    /\ \E a \in {"volume_id", "url", "file", "block_device"} : Sources(disk) \subseteq {a}
    /\ disk.file # None => Suffix[disk.file] = "iso"
    /\ disk.url # None => Reassembled[disk.url] = disk.url
    /\ IF disk.scsi THEN disk.wwn # None /\ ~IsISO(disk) ELSE disk.wwn = None

LEMMA PlainIsSettled ==
    ASSUME NEW disk, Plain(disk)
    PROVE  Settled(disk)
<1>1. \E a \in {"volume_id", "url", "file", "block_device"} : Sources(disk) = {a}
  BY DEF Plain, Sources
<1> QED
  BY <1>1 DEF Plain, Settled

\* The read makes the disk of the configuration out of this one, if it can, or one
\* that it makes again.
Reads(made, disk) ==
    /\ made.serial = ""
    /\ Settled(disk) => ReadDisk(made) = disk
    /\ ~IsNoVolume(made) => Settled(ReadDisk(made))

ReadInv ==
    /\ IsSeq(d.disks) /\ \A n \in DOMAIN d.disks : IsDisk(d.disks[n])
    /\ \A n \in DOMAIN def.disks : IsDisk(ReadDisk(def.disks[n]))
    /\ pc \in {"cmdline", "ignition"} => i = 0
    /\ pc \in {"disks", "cloudinit", "interface", "define", "read"} /\ ~IgnitionDisk =>
         /\ i <= Len(d.disks) /\ i <= Len(def.disks)
         /\ pc # "disks" => i = Len(d.disks)
         /\ pc \in {"disks", "cloudinit"} => i = Len(def.disks)
         /\ \A n \in 1 .. i : Reads(def.disks[n], d.disks[n])
         /\ \A n \in DOMAIN def.disks : n > i => def.disks[n].serial = "cloudinit"

LEMMA DiskFields ==
    ASSUME NEW disk, IsDisk(disk)
    PROVE  /\ disk = [volume_id |-> disk.volume_id, url |-> disk.url, file |-> disk.file,
                      block_device |-> disk.block_device, scsi |-> disk.scsi, wwn |-> disk.wwn]
           /\ disk.scsi \in BOOLEAN
           /\ disk.url \in DOMAIN Reassembled \union {None}
  BY DEF IsDisk, DiskAttribute

LEMMA FieldsDisk ==
    ASSUME NEW volume, NEW url \in DOMAIN Reassembled \union {None}, NEW file, NEW device, NEW scsi \in BOOLEAN, NEW wwn
    PROVE  IsDisk([volume_id |-> volume, url |-> url, file |-> file,
                   block_device |-> device, scsi |-> scsi, wwn |-> wwn])
  BY DEF IsDisk, DiskAttribute

LEMMA ReadIsDisk ==
    ASSUME NEW made, made.source.kind \in {"network", "file", "block", "volume"},
           made.source.kind = "network" => made.source.name \in DOMAIN Reassembled
    PROVE  IsDisk(ReadDisk(made))
<1> DEFINE name == made.source.name
           U == DOMAIN Reassembled \union {None}
<1>1. made.source.kind = "network" => Reassembled[name] \in U
  BY SourcesAssumption
<1>2. \E v, u, f, b : ReadSource(made) = [volume_id |-> v, url |-> u, file |-> f, block_device |-> b,
                                          scsi |-> FALSE, wwn |-> None]
  BY Zenon DEF ReadSource, NoDisk
<1>3. ReadSource(made).url \in U
  BY <1>1 DEF ReadSource, NoDisk
<1>4. ReadDisk(made).url = ReadSource(made).url
  BY <1>2 DEF ReadDisk
<1>5. \E v, u, f, b, w : \E scsi \in BOOLEAN :
         ReadDisk(made) = [volume_id |-> v, url |-> u, file |-> f, block_device |-> b,
                           scsi |-> scsi, wwn |-> w]
  BY <1>2, ZenonT(40) DEF ReadDisk
<1> HIDE DEF U
<1>6. PICK v, u, f, b, w : \E scsi \in BOOLEAN :
         ReadDisk(made) = [volume_id |-> v, url |-> u, file |-> f, block_device |-> b,
                           scsi |-> scsi, wwn |-> w]
  BY <1>5
<1>7. u \in U
  BY <1>3, <1>4, <1>6
<1> QED
  BY <1>6, <1>7, FieldsDisk DEF U

LEMMA NewDiskFields ==
    ASSUME NEW disk
    PROVE  LET made == NewDisk(disk)
           IN  /\ made.device = IF IsISO(disk) THEN "cdrom" ELSE "disk"
               /\ made.source = SourceOf(disk)
               /\ made.serial = ""
               /\ made.target.bus = IF IsISO(disk) THEN "ide" ELSE IF disk.scsi THEN "scsi" ELSE "virtio"
               /\ disk.scsi /\ disk.wwn # None => made.wwn = disk.wwn
               /\ disk.scsi => made.wwn # None
  BY SourcesAssumption DEF NewDisk, Disk, TargetOf, Target

LEMMA SourceKinds ==
    ASSUME NEW disk, IsDisk(disk)
    PROVE  /\ SourceOf(disk).kind \in {"network", "file", "block", "volume"}
           /\ SourceOf(disk).kind = "network" => SourceOf(disk).name \in DOMAIN Reassembled
<1>1. disk.url \in DOMAIN Reassembled \union {None}
  BY DiskFields
<1> QED
  BY <1>1 DEF SourceOf

LEMMA SourceNames ==
    ASSUME NEW disk
    PROVE  /\ SourceOf(disk).kind = "volume" => SourceOf(disk).name # None
           /\ SourceOf(disk).kind = "network" =>
                disk.url # None /\ SourceOf(disk) = [kind |-> "network", name |-> disk.url]
<1>1. CASE disk.volume_id # None
  BY <1>1 DEF SourceOf
<1>2. CASE disk.volume_id = None /\ disk.url # None
  BY <1>2 DEF SourceOf
<1>3. CASE disk.volume_id = None /\ disk.url = None /\ disk.file # None
  BY <1>3 DEF SourceOf
<1>4. CASE disk.volume_id = None /\ disk.url = None /\ disk.file = None
  BY <1>4 DEF SourceOf
<1> QED
  BY <1>1, <1>2, <1>3, <1>4

\* Every disk that can be told is told.
LEMMA NewDiskReads ==
    ASSUME NEW disk, IsDisk(disk)
    PROVE  Reads(NewDisk(disk), disk) /\ IsDisk(ReadDisk(NewDisk(disk)))
<1> DEFINE made == NewDisk(disk)
<1>1. /\ made.device = IF IsISO(disk) THEN "cdrom" ELSE "disk"
      /\ made.source = SourceOf(disk)
      /\ made.serial = ""
      /\ made.target.bus = IF IsISO(disk) THEN "ide" ELSE IF disk.scsi THEN "scsi" ELSE "virtio"
      /\ disk.scsi /\ disk.wwn # None => made.wwn = disk.wwn
      /\ disk.scsi => made.wwn # None
  BY NewDiskFields
<1> HIDE DEF made
<1>2. IsDisk(ReadDisk(made))
  <2>1. /\ made.source.kind \in {"network", "file", "block", "volume"}
        /\ made.source.kind = "network" => made.source.name \in DOMAIN Reassembled
    BY <1>1, SourceKinds, Zenon
  <2> QED
    BY <2>1, ReadIsDisk
<1>3. ASSUME Settled(disk) PROVE ReadDisk(made) = disk
  <2>1. /\ disk = [volume_id |-> disk.volume_id, url |-> disk.url, file |-> disk.file,
                   block_device |-> disk.block_device, scsi |-> disk.scsi, wwn |-> disk.wwn]
        /\ disk.scsi \in BOOLEAN
    BY DiskFields
  <2>2. /\ disk.scsi => disk.wwn # None /\ ~IsISO(disk)
        /\ ~disk.scsi => disk.wwn = None
    BY <1>3, <2>1 DEF Settled
  <2>3. ASSUME ReadSource(made) = [disk EXCEPT !.scsi = FALSE, !.wwn = None]
        PROVE  ReadDisk(made) = disk
    <3>1. CASE disk.scsi
      <4>1. made.target.bus = "scsi" /\ made.wwn = disk.wwn
        BY <1>1, <2>2, <3>1
      <4> QED
        BY <2>1, <2>3, <3>1, <4>1, Zenon DEF ReadDisk
    <3>2. CASE ~disk.scsi
      <4>1. made.target.bus # "scsi"
        BY <1>1, <3>2
      <4> QED
        BY <2>1, <2>2, <2>3, <3>2, <4>1, Zenon DEF ReadDisk
    <3> QED
      BY <3>1, <3>2
  <2>4. PICK a \in {"volume_id", "url", "file", "block_device"} :
            Sources(disk) = {a} \/ (a = "block_device" /\ Sources(disk) = {})
    BY <1>3 DEF Settled
  <2>5. /\ a # "volume_id" => disk.volume_id = None
        /\ a # "url" => disk.url = None
        /\ a # "file" => disk.file = None
        /\ a # "block_device" => disk.block_device = None
        /\ a # "block_device" => disk[a] # None
    <3>1. /\ \A b \in {"volume_id", "url", "file", "block_device"} : disk[b] # None => b = a
          /\ a # "block_device" => disk[a] # None
      BY <2>4 DEF Sources
    <3> QED
      BY <3>1
  <2>6. CASE a = "volume_id"
    <3>1. made.source = [kind |-> "volume", name |-> disk.volume_id]
      BY <1>1, <2>5, <2>6 DEF SourceOf
    <3>2. ReadSource(made) = [NoDisk EXCEPT !.volume_id = disk.volume_id]
      BY <3>1 DEF ReadSource
    <3> QED
      BY <2>1, <2>3, <2>5, <2>6, <3>2, ZenonT(40) DEF NoDisk
  <2>7. CASE a = "url"
    <3>1. made.source = [kind |-> "network", name |-> disk.url]
      BY <1>1, <2>5, <2>7 DEF SourceOf
    <3>2. ReadSource(made) = [NoDisk EXCEPT !.url = disk.url]
      BY <1>3, <2>5, <2>7, <3>1 DEF ReadSource, Settled
    <3> QED
      BY <2>1, <2>3, <2>5, <2>7, <3>2, ZenonT(40) DEF NoDisk
  <2>8. CASE a = "file"
    <3>1. SourceOf(disk) = [kind |-> "file", name |-> disk.file]
      BY <2>5, <2>8 DEF SourceOf
    <3>2. IsISO(disk)
      BY <1>3, <2>5, <2>8, <3>1 DEF IsISO, Settled
    <3>3. made.source = [kind |-> "file", name |-> disk.file] /\ made.device = "cdrom"
      BY <1>1, <3>1, <3>2
    <3>4. ReadSource(made) = [NoDisk EXCEPT !.file = disk.file]
      BY <3>3 DEF ReadSource
    <3> QED
      BY <2>1, <2>3, <2>5, <2>8, <3>4, ZenonT(40) DEF NoDisk
  <2>9. CASE a = "block_device"
    <3>1. made.source = [kind |-> "block", name |-> disk.block_device]
      BY <1>1, <2>5, <2>9 DEF SourceOf
    <3>2. ReadSource(made) = [NoDisk EXCEPT !.block_device = disk.block_device]
      BY <3>1 DEF ReadSource
    <3> QED
      BY <2>1, <2>3, <2>5, <2>9, <3>2, ZenonT(40) DEF NoDisk
  <2> QED
    BY <2>6, <2>7, <2>8, <2>9
<1>4. ASSUME ~IsNoVolume(made) PROVE Settled(ReadDisk(made))
  <2> DEFINE read == ReadDisk(made)
             core == ReadSource(made)
             name == made.source.name
  <2>0. disk.url \in DOMAIN Reassembled \union {None}
    BY DiskFields
  <2>1. ASSUME NEW v, NEW u, NEW f, NEW b,
               core = [volume_id |-> v, url |-> u, file |-> f, block_device |-> b, scsi |-> FALSE, wwn |-> None]
        PROVE  /\ read.volume_id = v /\ read.url = u /\ read.file = f /\ read.block_device = b
               /\ read.scsi <=> made.target.bus = "scsi"
               /\ read.wwn = IF made.target.bus = "scsi" THEN made.wwn ELSE None
    BY <2>1 DEF ReadDisk
  <2>2. made.target.bus = "scsi" => disk.scsi /\ made.wwn # None /\ ~IsISO(disk)
    BY <1>1
  <2> DEFINE Wired == IF read.scsi THEN read.wwn # None ELSE read.wwn = None
  <2>3. CASE \/ made.source.kind = "volume"
             \/ made.source.kind = "file" /\ made.device # "cdrom"
    <3>1. PICK v : v # None /\ core = [volume_id |-> v, url |-> None, file |-> None, block_device |-> None,
                                       scsi |-> FALSE, wwn |-> None]
      <4>1. CASE made.source.kind = "volume"
        <5>1. name # None
          BY <1>1, <4>1, SourceNames
        <5> QED
          BY <4>1, <5>1 DEF ReadSource, NoDisk
      <4>2. CASE made.source.kind = "file" /\ made.device # "cdrom"
        <5>1. VolumeAt[name] # None
          BY <1>4, <4>2 DEF IsNoVolume
        <5> QED
          BY <4>2, <5>1 DEF ReadSource, NoDisk
      <4> QED
        BY <2>3, <4>1, <4>2
    <3>2. /\ read.volume_id = v /\ read.url = None /\ read.file = None /\ read.block_device = None
          /\ Wired
      BY <2>1, <2>2, <3>1
    <3> HIDE DEF read
    <3>3. ~IsISO(read)
      BY <3>1, <3>2 DEF IsISO, SourceOf
    <3>4. Sources(read) \subseteq {"volume_id"}
      BY <3>2 DEF Sources
    <3> QED
      BY <3>2, <3>3, <3>4 DEF Settled, read
  <2>4. CASE made.source.kind = "network"
    <3>1. /\ disk.url # None
          /\ SourceOf(disk) = [kind |-> "network", name |-> disk.url] /\ name = disk.url
      <4>1. made.source = SourceOf(disk) /\ SourceOf(disk).kind = "network"
        BY <1>1, <2>4
      <4>2. disk.url # None /\ SourceOf(disk) = [kind |-> "network", name |-> disk.url]
        BY <4>1, SourceNames
      <4> QED
        BY <4>1, <4>2
    <3> DEFINE url == Reassembled[disk.url]
    <3>2. url # None /\ Reassembled[url] = url /\ Suffix[url] = Suffix[disk.url]
      BY <2>0, <3>1, SourcesAssumption
    <3>3. core = [volume_id |-> None, url |-> url, file |-> None, block_device |-> None,
                  scsi |-> FALSE, wwn |-> None]
      BY <2>4, <3>1 DEF ReadSource, NoDisk
    <3>4. /\ read.volume_id = None /\ read.url = url /\ read.file = None /\ read.block_device = None
          /\ Wired /\ (read.scsi => ~IsISO(disk))
      BY <2>1, <2>2, <3>3
    <3> HIDE DEF read, url
    <3>5. SourceOf(read) = [kind |-> "network", name |-> url]
      BY <3>2, <3>4 DEF SourceOf
    <3>6. IsISO(read) <=> IsISO(disk)
      BY <3>1, <3>2, <3>5 DEF IsISO
    <3>7. Sources(read) \subseteq {"url"}
      BY <3>4 DEF Sources
    <3> QED
      BY <3>2, <3>4, <3>6, <3>7 DEF Settled, read
  <2>5. CASE made.source.kind = "file" /\ made.device = "cdrom"
    <3>1. IsISO(disk) /\ SourceOf(disk).kind = "file" /\ name = SourceOf(disk).name
      BY <1>1, <2>5
    <3>2. Suffix[name] = "iso" /\ made.target.bus # "scsi"
      BY <1>1, <3>1 DEF IsISO
    <3>3. core = [volume_id |-> None, url |-> None, file |-> name, block_device |-> None,
                  scsi |-> FALSE, wwn |-> None]
      BY <2>5 DEF ReadSource, NoDisk
    <3>4. /\ read.volume_id = None /\ read.url = None /\ read.file = name /\ read.block_device = None
          /\ read.scsi = FALSE /\ read.wwn = None
      BY <2>1, <3>2, <3>3 DEF ReadDisk
    <3> HIDE DEF read
    <3>5. Sources(read) \subseteq {"file"}
      BY <3>4 DEF Sources
    <3> QED
      BY <3>2, <3>4, <3>5 DEF Settled, read
  <2>6. CASE made.source.kind = "block"
    <3>1. core = [volume_id |-> None, url |-> None, file |-> None, block_device |-> name,
                  scsi |-> FALSE, wwn |-> None]
      BY <2>6 DEF ReadSource, NoDisk
    <3>2. /\ read.volume_id = None /\ read.url = None /\ read.file = None /\ read.block_device = name
          /\ Wired
      BY <2>1, <2>2, <3>1
    <3> HIDE DEF read
    <3>3. ~IsISO(read)
      BY <3>2 DEF IsISO, SourceOf
    <3>4. Sources(read) \subseteq {"block_device"}
      BY <3>2 DEF Sources
    <3> QED
      BY <3>2, <3>3, <3>4 DEF Settled, read
  <2>7. made.source.kind \in {"network", "file", "block", "volume"}
    BY <1>1, SourceKinds, Zenon
  <2> QED
    BY <2>3, <2>4, <2>5, <2>6, <2>7
<1> QED
  BY <1>1, <1>2, <1>3, <1>4 DEF Reads, made

\* One more disk, and a step of the loop for it or none.
LEMMA AddRead ==
    ASSUME IInv, ReadInv, NEW e, def' = [def EXCEPT !.disks = Append(@, e)], d' = d,
           IsDisk(ReadDisk(e)), pc \in {"disks", "cloudinit"},
           \/ /\ pc = "disks" /\ pc' = "disks" /\ i' = i + 1
              /\ i < Len(d.disks) /\ Reads(e, d.disks[i + 1])
           \/ /\ pc = "cloudinit" /\ pc' = "interface" /\ i' = i
              /\ e.serial = "cloudinit"
    PROVE  ReadInv'
<1>1. /\ def'.disks = Append(def.disks, e) /\ IsSeq(def.disks) /\ i \in Nat
  BY DEF IInv, TypeInv, IsDomainDef
<1>2. /\ DOMAIN def'.disks = DOMAIN def.disks \union {Len(def.disks) + 1}
      /\ \A n \in DOMAIN def.disks : def'.disks[n] = def.disks[n]
      /\ def'.disks[Len(def.disks) + 1] = e
      /\ IsSeq(def'.disks)
  <2>1. /\ DOMAIN Append(def.disks, e) = DOMAIN def.disks \union {Len(def.disks) + 1}
        /\ \A n \in DOMAIN def.disks : Append(def.disks, e)[n] = def.disks[n]
        /\ Append(def.disks, e)[Len(def.disks) + 1] = e
        /\ IsSeq(Append(def.disks, e))
    BY <1>1, AppendDisk, Zenon
  <2> QED
    BY <1>1, <2>1, Zenon
<1>3. /\ DOMAIN def.disks = 1 .. Len(def.disks) /\ Len(def.disks) \in Nat
      /\ Len(def'.disks) = Len(def.disks) + 1
      /\ DOMAIN d.disks = 1 .. Len(d.disks) /\ Len(d.disks) \in Nat
  <2>1. /\ DOMAIN def.disks = 1 .. Len(def.disks) /\ Len(def.disks) \in Nat
        /\ DOMAIN d.disks = 1 .. Len(d.disks) /\ Len(d.disks) \in Nat
    BY <1>1 DEF IsSeq, ReadInv
  <2>2. Len(def'.disks) = Len(def.disks) + 1
    <3>1. def.disks \in Seq({def.disks[n] : n \in DOMAIN def.disks} \union {e})
      BY <1>1 DEF IsSeq
    <3> QED
      BY <1>1, <3>1
  <2> QED
    BY <2>1, <2>2
<1>4. \A n \in DOMAIN def'.disks : IsDisk(ReadDisk(def'.disks[n]))
  BY <1>2 DEF ReadInv
<1>5. ASSUME ~IgnitionDisk'
      PROVE  /\ i' <= Len(d'.disks) /\ i' <= Len(def'.disks)
             /\ pc' # "disks" => i' = Len(d'.disks)
             /\ pc' \in {"disks", "cloudinit"} => i' = Len(def'.disks)
             /\ \A n \in 1 .. i' : Reads(def'.disks[n], d'.disks[n])
             /\ \A n \in DOMAIN def'.disks : n > i' => def'.disks[n].serial = "cloudinit"
  <2>1. ~IgnitionDisk
    BY <1>2, <1>5 DEF IgnitionDisk
  <2>2. /\ i <= Len(d.disks) /\ i = Len(def.disks)
        /\ pc # "disks" => i = Len(d.disks)
        /\ \A n \in 1 .. i : Reads(def.disks[n], d.disks[n])
    BY <2>1 DEF ReadInv
  <2>3. CASE pc = "disks"
    <3>1. i' = i + 1 /\ pc' = "disks" /\ i < Len(d.disks) /\ Reads(e, d.disks[i + 1])
      BY <2>3
    <3>2. ASSUME NEW n \in 1 .. i'
          PROVE  Reads(def'.disks[n], d.disks[n])
      <4>1. CASE n = i + 1
        BY <1>2, <2>2, <3>1, <4>1
      <4>2. CASE n \in 1 .. i
        <5>1. def'.disks[n] = def.disks[n]
          BY <1>1, <1>2, <1>3, <2>2, <4>2
        <5> QED
          BY <2>2, <4>2, <5>1
      <4>3. n = i + 1 \/ n \in 1 .. i
        <5>1. i \in Nat /\ i' = i + 1
          BY <1>1, <3>1
        <5> QED
          BY <5>1
      <4> QED
        BY <4>1, <4>2, <4>3
    <3> QED
      BY <1>1, <1>2, <1>3, <2>2, <3>1, <3>2
  <2>4. CASE pc = "cloudinit"
    <3>1. i' = i /\ pc' = "interface" /\ e.serial = "cloudinit" /\ i = Len(d.disks)
      BY <2>2, <2>4
    <3>2. \A n \in 1 .. i : Reads(def'.disks[n], d.disks[n])
      BY <1>2, <1>3, <2>2
    <3> QED
      BY <1>1, <1>2, <1>3, <2>2, <3>1, <3>2
  <2> QED
    BY <2>3, <2>4
<1>6. IsSeq(d'.disks) /\ \A n \in DOMAIN d'.disks : IsDisk(d'.disks[n])
  BY DEF ReadInv
<1>7. pc' \notin {"cmdline", "ignition"}
  OBVIOUS
<1> QED
  BY <1>4, <1>5, <1>6, <1>7, Zenon DEF ReadInv

\* The steps that leave the disks and their counter alone.
LEMMA ReadOther ==
    ASSUME ReadInv, def'.disks = def.disks, d'.disks = d.disks, i' = i,
           \/ pc' \in {"network.read", "domain", "adopt", "done", "error"}
           \/ pc = "cmdline" /\ pc' = "ignition"
           \/ pc = "ignition" /\ pc' = "disks" /\ def.disks = <<>>
           \/ pc = "disks" /\ pc' = "cloudinit" /\ i = Len(d.disks)
           \/ pc = "cloudinit" /\ pc' = "interface"
           \/ pc = "interface" /\ pc' = "define"
           \/ pc = "define" /\ pc' = "read"
           \/ pc' = pc
    PROVE  ReadInv'
<1>1. IgnitionDisk' = IgnitionDisk
  BY DEF IgnitionDisk
<1>2. IsSeq(d'.disks) /\ (\A n \in DOMAIN d'.disks : IsDisk(d'.disks[n]))
      /\ \A n \in DOMAIN def'.disks : IsDisk(ReadDisk(def'.disks[n]))
  BY DEF ReadInv
<1>3. CASE pc = "ignition" /\ pc' = "disks" /\ def.disks = <<>>
  <2>1. i = 0 /\ Len(def.disks) = 0 /\ DOMAIN def.disks = {} /\ Len(d.disks) \in Nat
    BY <1>3 DEF ReadInv, IsSeq
  <2>2. /\ i' <= Len(d'.disks) /\ i' <= Len(def'.disks) /\ i' = Len(def'.disks)
        /\ \A n \in 1 .. i' : Reads(def'.disks[n], d'.disks[n])
        /\ \A n \in DOMAIN def'.disks : n > i' => def'.disks[n].serial = "cloudinit"
    BY <2>1
  <2> QED
    BY <1>2, <1>3, <2>2, Zenon DEF ReadInv
<1>4. CASE ~(pc = "ignition" /\ pc' = "disks")
  BY <1>1, <1>2, <1>4 DEF ReadInv
<1> QED
  BY <1>3, <1>4

LEMMA ReadInit == Init => ReadInv
<1> SUFFICES ASSUME Init PROVE ReadInv
  OBVIOUS
<1>1. d.disks \in Seq(Range(d.disks)) /\ \A disk \in Range(d.disks) : IsDisk(disk)
  BY ConfigAssumption DEF Init
<1>2. IsSeq(d.disks) /\ \A n \in DOMAIN d.disks : IsDisk(d.disks[n])
  BY <1>1 DEF IsSeq, Range
<1>3. DOMAIN def.disks = {} /\ pc = "network"
  BY DEF Init
<1> QED
  BY <1>2, <1>3 DEF ReadInv

\* What the read makes of the disks is a list of disks.
LEMMA ReadDomainStep == IInv /\ ReadInv /\ DOMAIN d = Attribute /\ ReadDomain => ReadInv'
<1> SUFFICES ASSUME IInv, ReadInv, DOMAIN d = Attribute, ReadDomain PROVE ReadInv'
  OBVIOUS
<1> DEFINE disks == FoldLeft(NextDisk, <<>>, def.disks)
<1>1. def' = def /\ i' = i /\ pc' \in {"adopt", "done", "error"}
  BY DEF ReadDomain, Goto, Fail, counters
<1>2. d'.disks \in {d.disks, disks}
  BY DEF ReadDomain, Attribute, Fail
<1>3. DOMAIN def.disks = 1 .. Len(def.disks) /\ Len(def.disks) \in Nat
  BY DEF IInv, TypeInv, IsSeq
<1>4. IsSeq(disks) /\ \A n \in DOMAIN disks : IsDisk(disks[n])
  <2>1. \A k \in 1 .. Len(def.disks) : IsDisk(ReadDisk(def.disks[k]))
    BY <1>3 DEF ReadInv
  <2> QED
    BY <1>3, <2>1, FoldBlocks, Zenon
<1> HIDE DEF disks
<1>5. IsSeq(d'.disks) /\ \A n \in DOMAIN d'.disks : IsDisk(d'.disks[n])
  BY <1>2, <1>4 DEF ReadInv
<1> QED
  BY <1>1, <1>5 DEF ReadInv

LEMMA ReadNext == IInv /\ AddressInv /\ ReadInv /\ [Next]_vars => ReadInv'
<1> SUFFICES ASSUME IInv, AddressInv, ReadInv, [Next]_vars PROVE ReadInv'
  OBVIOUS
<1>1. IsDomainDef(def) /\ DOMAIN d = Attribute
  BY DEF IInv, TypeInv, AddressInv
<1>2. CASE CreateNetwork
  BY <1>2, ReadOther DEF CreateNetwork, Goto, Fail, counters
<1>3. CASE ReadNetwork
  <2>1. d'.disks = d.disks /\ def' = def /\ i' = i /\ pc' = "domain"
    BY <1>1, <1>3 DEF ReadNetwork, Goto, Attribute, counters
  <2> QED
    BY <2>1, ReadOther
<1>4. CASE NewDomainDef
  <2>1. CASE pc' = "cmdline"
    <3>1. def'.disks = <<>> /\ d' = d /\ i' = 0
      BY <1>4, <2>1 DEF NewDomainDef, Fail
    <3>2. DOMAIN def'.disks = {}
      BY <3>1
    <3> QED
      BY <2>1, <3>1, <3>2 DEF ReadInv
  <2>2. CASE pc' = "error"
    BY <1>4, <2>2, ReadOther DEF NewDomainDef, Fail, Goto, counters
  <2> QED
    BY <1>4, <2>1, <2>2 DEF NewDomainDef, Fail, Goto
<1>5. CASE SetCmdlineArgs
  <2>1. def'.disks = def.disks /\ d' = d /\ i' = i /\ pc = "cmdline" /\ pc' = "ignition"
    BY <1>1, <1>5 DEF SetCmdlineArgs, IsDomainDef, Goto, counters
  <2> QED
    BY <2>1, ReadOther
<1>6. CASE SetCoreOSIgnition
  <2> DEFINE e == Disk("disk", Target("virtio", <<1>>), [kind |-> "file", name |-> d.coreos_ignition],
                       "raw", "ignition", None)
  <2>1. d' = d /\ i' = i /\ pc = "ignition" /\ pc' \in {"disks", "error"} /\ def.disks = <<>>
    BY <1>6 DEF SetCoreOSIgnition, Goto, Fail, counters, IInv, OrderInv
  <2>2. CASE def'.disks = def.disks
    BY <2>1, <2>2, ReadOther
  <2>3. CASE def'.disks = <<e>> /\ pc' = "disks"
    <3>1. e.serial = "ignition" /\ e.source.kind = "file"
      BY DEF Disk
    <3> HIDE DEF e
    <3>2. IsDisk(ReadDisk(e))
      BY <3>1, ReadIsDisk
    <3>3. DOMAIN def'.disks = {1} /\ def'.disks[1] = e
      BY <2>3
    <3>4. IgnitionDisk'
      BY <3>1, <3>3 DEF IgnitionDisk
    <3> QED
      BY <2>1, <2>3, <3>2, <3>3, <3>4 DEF ReadInv
  <2>4. def'.disks = def.disks \/ (def'.disks = <<e>> /\ pc' = "disks")
    BY <1>1, <1>6, <2>1 DEF SetCoreOSIgnition, IsDomainDef, Goto, Fail
  <2> QED
    BY <2>2, <2>3, <2>4
<1>7. CASE SetDisks
  <2>1. i \in Nat /\ d' = d /\ pc = "disks"
    BY <1>7 DEF SetDisks, IInv, TypeInv, Fail
  <2>2. CASE UNCHANGED <<def, counters>>
    <3>1. pc' = "error" \/ (pc' = "cloudinit" /\ i = Len(d.disks))
      BY <1>7, <2>1, <2>2 DEF SetDisks, Goto, Fail, counters
    <3> QED
      BY <2>1, <2>2, <3>1, ReadOther DEF counters
  <2>3. CASE ~UNCHANGED <<def, counters>>
    <3> DEFINE disk == d.disks[i + 1]
    <3>1. /\ i < Len(d.disks) /\ def' = [def EXCEPT !.disks = Append(@, NewDisk(disk))]
          /\ i' = i + 1 /\ pc' = "disks"
      BY <1>7, <2>3 DEF SetDisks, Fail, Goto
    <3>2. IsDisk(disk)
      <4>1. i + 1 \in DOMAIN d.disks
        BY <2>1, <3>1 DEF ReadInv, IsSeq
      <4> QED
        BY <4>1 DEF ReadInv
    <3>3. Reads(NewDisk(disk), disk) /\ IsDisk(ReadDisk(NewDisk(disk)))
      BY <3>2, NewDiskReads
    <3> DEFINE e == NewDisk(disk)
    <3> HIDE DEF e
    <3>4. /\ i < Len(d.disks) /\ def' = [def EXCEPT !.disks = Append(@, e)]
          /\ i' = i + 1 /\ pc' = "disks" /\ Reads(e, d.disks[i + 1]) /\ IsDisk(ReadDisk(e))
      BY <3>1, <3>3 DEF e
    <3> QED
      BY <2>1, <3>4, AddRead
  <2> QED
    BY <2>2, <2>3
<1>8. CASE SetCloudinit
  <2> DEFINE e == Disk("cdrom", Target("ide", <<3>>), [kind |-> "file", name |-> d.cloudinit],
                       "raw", "cloudinit", None)
  <2>1. d' = d /\ i' = i /\ pc = "cloudinit" /\ pc' = "interface"
    BY <1>8 DEF SetCloudinit, Goto, counters
  <2>2. CASE def' = def
    BY <2>1, <2>2, ReadOther
  <2>3. CASE def' = [def EXCEPT !.disks = Append(@, e)]
    <3>1. e.serial = "cloudinit" /\ e.source.kind = "file"
      BY DEF Disk
    <3> HIDE DEF e
    <3>2. IsDisk(ReadDisk(e))
      BY <3>1, ReadIsDisk
    <3> QED
      BY <2>1, <2>3, <3>1, <3>2, AddRead
  <2> QED
    BY <1>8, <2>2, <2>3 DEF SetCloudinit
<1>9. CASE SetNetworkInterface
  BY <1>9, ReadOther DEF SetNetworkInterface, Goto, counters
<1>10. CASE DefineDomain
  <2>1. def'.disks = def.disks /\ d' = d /\ i' = i /\ pc = "define" /\ pc' \in {"read", "error"}
    BY <1>1, <1>10 DEF DefineDomain, IsDomainDef, Goto, Fail, counters
  <2> QED
    BY <2>1, ReadOther
<1>11. CASE ReadDomain
  BY <1>1, <1>11, ReadDomainStep
<1>12. CASE Adopt
  BY <1>12, ReadOther DEF Adopt, Goto, counters
<1>13. CASE UNCHANGED vars
  BY <1>13, ReadOther DEF vars, counters
<1> QED
  BY <1>2, <1>3, <1>4, <1>5, <1>6, <1>7, <1>8, <1>9, <1>10, <1>11, <1>12, <1>13 DEF Next

\* A read without a disk of Ignition makes a settled list, of a settled one the same.
LEMMA ReadDisksStep ==
    ASSUME IInv, ReadInv, DOMAIN d = Attribute, ReadDomain, pc' # "error", ~IgnitionDisk
    PROVE  /\ \A n \in DOMAIN d'.disks : Settled(d'.disks[n])
           /\ (\A n \in DOMAIN d.disks : Settled(d.disks[n])) => d'.disks = d.disks
<1> DEFINE disks == FoldLeft(NextDisk, <<>>, def.disks)
           t == [k \in 1 .. i |-> ReadDisk(def.disks[k])]
           n == Len(def.disks)
<1>1. pc = "read" /\ \A k \in DOMAIN def.disks : ~IsNoVolume(def.disks[k])
  BY DEF ReadDomain, Fail
<1>2. d'.disks = IF disks = <<>> THEN d.disks ELSE disks
  BY DEF ReadDomain, Attribute, Fail
<1>3. /\ DOMAIN def.disks = 1 .. n /\ n \in Nat
      /\ DOMAIN d.disks = 1 .. Len(d.disks) /\ IsSeq(d.disks)
  BY DEF IInv, TypeInv, ReadInv, IsSeq
<1>4. /\ i = Len(d.disks) /\ i <= n /\ i \in Nat
      /\ \A k \in 1 .. i : Reads(def.disks[k], d.disks[k])
      /\ \A k \in DOMAIN def.disks : k > i => def.disks[k].serial = "cloudinit"
  BY <1>1 DEF ReadInv, IInv, TypeInv
<1>5. IsSeq(t) /\ Len(t) = i /\ DOMAIN t = 1 .. i
  <2>1. t \in Seq({t[k] : k \in DOMAIN t})
    BY <1>4
  <2> QED
    BY <1>4, <2>1 DEF IsSeq
<1>6. \A k \in DOMAIN t : def.disks[k].serial # "cloudinit" /\ ReadDisk(def.disks[k]) = t[k]
  BY <1>4 DEF Reads
<1>7. \A k \in 1 .. n : k \notin DOMAIN t => def.disks[k].serial = "cloudinit"
  BY <1>3, <1>4, <1>5
<1> HIDE DEF disks, t, n
<1>8. disks = t
  BY <1>3, <1>4, <1>5, <1>6, <1>7, FoldRead DEF disks
<1>9. \A k \in 1 .. i : t[k] = ReadDisk(def.disks[k]) /\ Settled(t[k])
  <2> SUFFICES ASSUME NEW k \in 1 .. i PROVE t[k] = ReadDisk(def.disks[k]) /\ Settled(t[k])
    OBVIOUS
  <2>1. k \in DOMAIN def.disks
    BY <1>3, <1>4
  <2>2. t[k] = ReadDisk(def.disks[k])
    BY DEF t
  <2>3. Settled(ReadDisk(def.disks[k]))
    BY <1>1, <1>4, <2>1 DEF Reads
  <2> QED
    BY <2>2, <2>3
<1>10. t = <<>> => d.disks = <<>>
  BY <1>3, <1>4, <1>5 DEF IsSeq
<1>11. d'.disks = t
  BY <1>2, <1>8, <1>10
<1>12. ASSUME \A k \in DOMAIN d.disks : Settled(d.disks[k])
       PROVE  t = d.disks
  <2>1. \A k \in 1 .. i : t[k] = d.disks[k]
    BY <1>3, <1>4, <1>9, <1>12 DEF Reads
  <2>2. t = [k \in 1 .. i |-> t[k]] /\ d.disks = [k \in 1 .. i |-> d.disks[k]]
    BY <1>3, <1>4, <1>5 DEF t, IsSeq
  <2> QED
    BY <2>1, <2>2
<1> QED
  BY <1>5, <1>9, <1>11, <1>12

\* A read leaves the list of disks as it is configured, however long it is and whatever
\* kinds it mixes, if each disk is of a kind that the definition tells and no disk of
\* Ignition is in front of them: no plan shows a change of disks, which would make the
\* domain anew.
THEOREM DisksReadBack == Spec => [][pc = "read" /\ pc' # "error" => KeepsDisks]_vars
<1>1. IInv /\ AddressInv /\ SameInv /\ ReadInv /\ [Next]_vars
        => [pc = "read" /\ pc' # "error" => KeepsDisks]_vars
  <2> SUFFICES ASSUME IInv, AddressInv, SameInv, ReadInv, Next, pc = "read", pc' # "error", ~IgnitionDisk,
                      \A n \in DOMAIN d.disks : Plain(d.disks[n])
               PROVE  d'.disks = d.disks
    BY DEF KeepsDisks, SameInv
  <2>1. ReadDomain
    BY DEF Next, CreateNetwork, ReadNetwork, NewDomainDef, SetCmdlineArgs, SetCoreOSIgnition, SetDisks,
           SetCloudinit, SetNetworkInterface, DefineDomain, Adopt
  <2>2. DOMAIN d = Attribute /\ \A n \in DOMAIN d.disks : Settled(d.disks[n])
    BY PlainIsSettled DEF AddressInv
  <2> QED
    BY <2>1, <2>2, ReadDisksStep
<1> QED
  BY InitInv, NextInv, AddressInit, AddressNext, SameInit, SameNext, ReadInit, ReadNext, <1>1, PTL DEF Spec

-----------------------------------------------------------------------------
(* What is read back: the machine.                                          *)

AllMachines == Range(Machines) \union Range(DomainMachines)

\* SelectInSeq takes the least position, if there is any.
LEMMA LeastPosition ==
    ASSUME NEW n \in Nat, NEW S \in SUBSET (1 .. n), S # {}
    PROVE  Min(S) \in S
<1>1. PICK m \in S : \A k \in S : m <= k
  <2>1. S \subseteq Nat
    OBVIOUS
  <2> QED
    BY <2>1, Least
<1> DEFINE IsMin(k) == k \in S /\ \A j \in S : k =< j
<1>2. Min(S) = CHOOSE k : IsMin(k)
  BY DEF Min
<1>3. IsMin(CHOOSE k : IsMin(k))
  BY <1>1
<1> QED
  BY <1>2, <1>3

LEMMA LookupIs ==
    ASSUME NEW machines, IsSeq(machines), NEW target
    PROVE  \/ /\ lookupMachine(machines, target) = None
              /\ \A n \in DOMAIN machines : machines[n].name # target
           \/ \E n \in DOMAIN machines :
                /\ machines[n].name = target
                /\ lookupMachine(machines, target) =
                     IF machines[n].canonical # None THEN machines[n].canonical ELSE machines[n].name
<1> DEFINE S == {n \in 1 .. Len(machines) : machines[n].name = target}
           first == SelectInSeq(machines, LAMBDA m : m.name = target)
<1>1. Len(machines) \in Nat /\ DOMAIN machines = 1 .. Len(machines)
  BY DEF IsSeq
<1>2. first = IF S # {} THEN Min(S) ELSE 0
  BY DEF SelectInSeq
<1>3. lookupMachine(machines, target) =
        IF first = 0 THEN None
        ELSE IF machines[first].canonical # None THEN machines[first].canonical ELSE machines[first].name
  BY DEF lookupMachine
<1> HIDE DEF first
<1>4. CASE S = {}
  BY <1>1, <1>2, <1>3, <1>4
<1>5. CASE S # {}
  <2>1. Min(S) \in S
    BY <1>1, <1>5, LeastPosition
  <2>2. first \in S
    BY <1>2, <1>5, <2>1
  <2>3. first \in DOMAIN machines /\ first # 0 /\ machines[first].name = target
    BY <1>1, <2>2
  <2> QED
    BY <1>3, <2>3
<1> QED
  BY <1>4, <1>5

LEMMA OriginalIs ==
    ASSUME NEW target, target # None, IsSeq(Machines)
    PROVE  \/ /\ getOriginalMachineName(target) = target
              /\ \A n \in DOMAIN Machines : Machines[n].canonical # target
           \/ \E n \in DOMAIN Machines :
                /\ Machines[n].canonical = target
                /\ getOriginalMachineName(target) = Machines[n].name
<1> DEFINE S == {n \in 1 .. Len(Machines) : Machines[n].canonical = target}
           first == SelectInSeq(Machines, LAMBDA m : m.canonical = target)
<1>1. Len(Machines) \in Nat /\ DOMAIN Machines = 1 .. Len(Machines)
  BY DEF IsSeq
<1>2. first = IF S # {} THEN Min(S) ELSE 0
  BY DEF SelectInSeq
<1>3. getOriginalMachineName(target) = IF first = 0 THEN target ELSE Machines[first].name
  BY DEF getOriginalMachineName
<1> HIDE DEF first
<1>4. CASE S = {}
  BY <1>1, <1>2, <1>3, <1>4
<1>5. CASE S # {}
  <2>1. Min(S) \in S
    BY <1>1, <1>5, LeastPosition
  <2>2. first \in S
    BY <1>2, <1>5, <2>1
  <2>3. first \in DOMAIN Machines /\ first # 0 /\ Machines[first].canonical = target
    BY <1>1, <2>2
  <2> QED
    BY <1>3, <2>3
<1> QED
  BY <1>4, <1>5

LEMMA MachinesAre ==
    /\ IsSeq(Machines) /\ IsSeq(DomainMachines)
    /\ \A m, n \in DOMAIN Machines : Machines[m].name = Machines[n].name => m = n
    /\ \A n \in DOMAIN Machines : Machines[n] \in AllMachines
    /\ \A n \in DOMAIN DomainMachines : DomainMachines[n] \in AllMachines
    /\ \A machine \in AllMachines :
         \/ \E n \in DOMAIN Machines : Machines[n] = machine
         \/ \E n \in DOMAIN DomainMachines : DomainMachines[n] = machine
    /\ \A machine \in AllMachines :
         /\ machine.name # None
         /\ machine.canonical # None =>
              /\ \E other \in AllMachines : other.name = machine.canonical
              /\ \A other \in AllMachines : other.name = machine.canonical => other.canonical = None
  BY MachinesAssumption DEF AllMachines, IsSeq, Range

\* The name of a machine whose canonical name it is leads back to that.
LEMMA CanonicalBack ==
    ASSUME NEW c, c # None, NEW m \in DOMAIN Machines, Machines[m].canonical = c
    PROVE  getCanonicalMachineName(Machines[m].name) = c
<1>1. lookupMachine(Machines, Machines[m].name) = c
  <2>1. PICK n \in DOMAIN Machines :
            /\ Machines[n].name = Machines[m].name
            /\ lookupMachine(Machines, Machines[m].name) =
                 IF Machines[n].canonical # None THEN Machines[n].canonical ELSE Machines[n].name
    BY MachinesAre, LookupIs
  <2>2. n = m
    BY <2>1, MachinesAre
  <2> QED
    BY <2>1, <2>2
<1> QED
  BY <1>1 DEF getCanonicalMachineName

\* A canonical name is its own.
LEMMA CanonicalItself ==
    ASSUME NEW machine \in AllMachines, NEW c, c # None, machine.canonical = c
    PROVE  getCanonicalMachineName(c) = c
<1>1. \A other \in AllMachines : other.name = c => other.canonical = None
  BY MachinesAre
<1>2. lookupMachine(Machines, c) \in {None, c}
  BY <1>1, MachinesAre, LookupIs
<1>3. CASE lookupMachine(Machines, c) = None
  <2>1. \A n \in DOMAIN Machines : Machines[n].name # c
    BY <1>1, <1>3, MachinesAre, LookupIs
  <2>2. \E n \in DOMAIN DomainMachines : DomainMachines[n].name = c
    BY <2>1, MachinesAre
  <2>3. lookupMachine(DomainMachines, c) = c
    BY <1>1, <2>2, MachinesAre, LookupIs
  <2> QED
    BY <1>3, <2>3 DEF getCanonicalMachineName
<1> QED
  BY <1>2, <1>3 DEF getCanonicalMachineName

\* The machine that the read puts into the state is the one that libvirt has been given.
LEMMA OriginalBack ==
    ASSUME NEW target, getCanonicalMachineName(target) # None
    PROVE  LET c == getCanonicalMachineName(target)
           IN  /\ getCanonicalMachineName(getOriginalMachineName(c)) = c
               /\ getOriginalMachineName(c) # None
<1> DEFINE c == getCanonicalMachineName(target)
<1>1. c # None
  OBVIOUS
<1>2. \/ lookupMachine(Machines, target) = c
      \/ lookupMachine(Machines, target) = None /\ lookupMachine(DomainMachines, target) = c
  BY DEF getCanonicalMachineName
<1>3. c = getCanonicalMachineName(target)
  OBVIOUS
<1> HIDE DEF c
<1> DEFINE Back == getCanonicalMachineName(getOriginalMachineName(c)) = c /\ getOriginalMachineName(c) # None
<1>4. ASSUME NEW n \in DOMAIN Machines, Machines[n].canonical = c, getOriginalMachineName(c) = Machines[n].name
      PROVE  Back
  <2>1. getCanonicalMachineName(Machines[n].name) = c
    BY <1>1, <1>4, CanonicalBack
  <2>2. Machines[n].name # None
    BY MachinesAre
  <2> QED
    BY <1>4, <2>1, <2>2
<1>5. ASSUME getOriginalMachineName(c) = c, \A n \in DOMAIN Machines : Machines[n].canonical # c
      PROVE  Back
  <2>1. PICK machine \in AllMachines :
            /\ machine.name = target
            /\ c = IF machine.canonical # None THEN machine.canonical ELSE machine.name
    <3>1. CASE lookupMachine(Machines, target) = c
      BY <1>1, <3>1, MachinesAre, LookupIs
    <3>2. CASE lookupMachine(DomainMachines, target) = c
      BY <1>1, <3>2, MachinesAre, LookupIs
    <3> QED
      BY <1>2, <3>1, <3>2
  <2>2. getCanonicalMachineName(c) = c
    <3>1. CASE machine.canonical # None
      <4>1. machine.canonical = c
        BY <2>1, <3>1
      <4> QED
        BY <1>1, <4>1, CanonicalItself
    <3>2. CASE machine.canonical = None
      <4>1. c = target
        BY <2>1, <3>2
      <4> QED
        BY <1>3, <4>1
    <3> QED
      BY <3>1, <3>2
  <2> QED
    BY <1>1, <1>5, <2>2
<1>6. Back
  <2>1. IsSeq(Machines)
    BY MachinesAre
  <2> HIDE DEF Back
  <2> QED
    BY <1>1, <1>4, <1>5, <2>1, OriginalIs
<1> QED
  BY <1>6 DEF c

\* The machine while the domain is being made, and what a read has left.
MachineInv ==
    /\ pc \in {"cmdline", "ignition", "disks", "cloudinit", "interface", "define"} =>
         def.machine = d.machine /\ getCanonicalMachineName(MachineOf(d.machine)) # None
    /\ pc = "read" =>
         /\ def.machine = getCanonicalMachineName(MachineOf(d.machine))
         /\ getCanonicalMachineName(MachineOf(d.machine)) # None
    /\ round \in Nat \ {0}
    /\ round # 1 =>
         d.machine # None /\ getOriginalMachineName(getCanonicalMachineName(d.machine)) = d.machine

LEMMA MachineInit == Init => MachineInv
  BY DEF Init, MachineInv

LEMMA ReadMachineStep ==
    ASSUME MachineInv, DOMAIN d = Attribute, ReadDomain, pc' # "error"
    PROVE  /\ getCanonicalMachineName(d'.machine) = getCanonicalMachineName(MachineOf(d.machine))
           /\ d'.machine # None
           /\ getOriginalMachineName(getCanonicalMachineName(d'.machine)) = d'.machine
           /\ round # 1 => d'.machine = d.machine
           /\ d'.machine = getOriginalMachineName(getCanonicalMachineName(MachineOf(d.machine)))
           /\ round' = round + 1 /\ pc' \in {"adopt", "done"}
<1> DEFINE c == getCanonicalMachineName(MachineOf(d.machine))
<1>1. d'.machine = getOriginalMachineName(def.machine) /\ round' = round + 1 /\ pc' \in {"adopt", "done"}
  BY DEF ReadDomain, Attribute, Goto, Fail
<1>2. def.machine = c /\ c # None
  BY DEF ReadDomain, MachineInv
<1>3. getCanonicalMachineName(getOriginalMachineName(c)) = c /\ getOriginalMachineName(c) # None
  BY <1>2, OriginalBack
<1>4. round # 1 => MachineOf(d.machine) = d.machine /\ getOriginalMachineName(getCanonicalMachineName(d.machine)) = d.machine
  BY DEF MachineInv, MachineOf
<1> HIDE DEF c
<1>5. round # 1 => d'.machine = d.machine
  BY <1>1, <1>2, <1>4 DEF c
<1> QED
  BY <1>1, <1>2, <1>3, <1>5 DEF c

LEMMA MachineNext == IInv /\ AddressInv /\ MachineInv /\ [Next]_vars => MachineInv'
<1> SUFFICES ASSUME IInv, AddressInv, MachineInv, [Next]_vars PROVE MachineInv'
  OBVIOUS
<1>1. IsDomainDef(def) /\ DOMAIN d = Attribute
  BY DEF IInv, TypeInv, AddressInv
<1>2. CASE CreateNetwork
  BY <1>2 DEF CreateNetwork, Goto, Fail, MachineInv
<1>3. CASE ReadNetwork
  <2>1. d'.machine = d.machine /\ pc' = "domain" /\ round' = round
    BY <1>1, <1>3 DEF ReadNetwork, Goto, Attribute
  <2> QED
    BY <2>1 DEF MachineInv
<1>4. CASE NewDomainDef
  BY <1>4 DEF NewDomainDef, Goto, Fail, MachineInv
<1>5. CASE SetCmdlineArgs \/ SetCoreOSIgnition \/ SetDisks \/ SetCloudinit \/ SetNetworkInterface
  <2>1. /\ def'.machine = def.machine /\ d' = d /\ round' = round
        /\ pc \in {"cmdline", "ignition", "disks", "cloudinit", "interface"}
        /\ pc' \in {"ignition", "disks", "cloudinit", "interface", "define", "error"}
    BY <1>1, <1>5 DEF SetCmdlineArgs, SetCoreOSIgnition, SetDisks, SetCloudinit, SetNetworkInterface,
                      IsDomainDef, Goto, Fail
  <2> QED
    BY <2>1 DEF MachineInv
<1>6. CASE DefineDomain
  <2>1. /\ d' = d /\ round' = round /\ pc = "define" /\ pc' \in {"read", "error"}
        /\ pc' = "read" => def'.machine = getCanonicalMachineName(MachineOf(def.machine))
    BY <1>1, <1>6 DEF DefineDomain, IsDomainDef, Goto, Fail
  <2> QED
    BY <2>1 DEF MachineInv
<1>7. CASE ReadDomain
  <2>1. CASE pc' = "error"
    BY <1>7, <2>1 DEF ReadDomain, Goto, Fail, MachineInv
  <2>2. CASE pc' # "error"
    BY <1>1, <1>7, <2>2, ReadMachineStep DEF MachineInv
  <2> QED
    BY <2>1, <2>2
<1>8. CASE Adopt
  BY <1>8 DEF Adopt, Goto, MachineInv
<1>9. CASE UNCHANGED vars
  BY <1>9 DEF vars, MachineInv
<1> QED
  BY <1>2, <1>3, <1>4, <1>5, <1>6, <1>7, <1>8, <1>9 DEF Next

\* The read finds the configured name of a machine whose canonical name no other one has.
LEMMA SoleNameBack ==
    ASSUME NEW machine, SoleName(machine)
    PROVE  machine # None /\ getOriginalMachineName(getCanonicalMachineName(machine)) = machine
<1> DEFINE c == getCanonicalMachineName(machine)
<1>1. PICK n \in DOMAIN Machines :
          /\ Machines[n].name = machine
          /\ \A m \in DOMAIN Machines : Machines[m].canonical = c => m = n
  BY DEF SoleName
<1>2. machine # None
  BY <1>1, MachinesAre
<1>3. lookupMachine(Machines, machine) = IF Machines[n].canonical # None THEN Machines[n].canonical ELSE machine
  BY <1>1, MachinesAre, LookupIs
<1>4. c = IF Machines[n].canonical # None THEN Machines[n].canonical ELSE machine
  BY <1>2, <1>3 DEF getCanonicalMachineName
<1> HIDE DEF c
<1>5. c # None /\ IsSeq(Machines)
  BY <1>2, <1>4, MachinesAre
<1>6. getOriginalMachineName(c) = machine
  BY <1>1, <1>4, <1>5, OriginalIs
<1> QED
  BY <1>2, <1>6 DEF c

\* A read finds the machine that was asked for, under the name of the configuration or
\* another one that means it: the same name when no other machine has its canonical
\* name, and from the second read on.
THEOREM MachineReadsBack ==
    Spec => [][pc = "read" /\ pc' # "error" =>
                 KeepsMachine /\ (round # 1 => d'.machine = config.machine)]_vars
<1>1. IInv /\ AddressInv /\ SameInv /\ MachineInv /\ [Next]_vars
        => [pc = "read" /\ pc' # "error" => KeepsMachine /\ (round # 1 => d'.machine = config.machine)]_vars
  <2> SUFFICES ASSUME IInv, AddressInv, SameInv, MachineInv, Next, pc = "read", pc' # "error"
               PROVE  KeepsMachine /\ (round # 1 => d'.machine = config.machine)
    OBVIOUS
  <2>1. ReadDomain
    BY DEF Next, CreateNetwork, ReadNetwork, NewDomainDef, SetCmdlineArgs, SetCoreOSIgnition, SetDisks,
           SetCloudinit, SetNetworkInterface, DefineDomain, Adopt
  <2>2. DOMAIN d = Attribute /\ d.machine = config.machine
    BY DEF AddressInv, SameInv
  <2>3. /\ getCanonicalMachineName(d'.machine) = getCanonicalMachineName(MachineOf(config.machine))
        /\ round # 1 => d'.machine = config.machine
        /\ d'.machine = getOriginalMachineName(getCanonicalMachineName(MachineOf(config.machine)))
    BY <2>1, <2>2, ReadMachineStep
  <2>4. SoleName(config.machine) => d'.machine = config.machine
    BY <2>3, SoleNameBack DEF MachineOf
  <2> QED
    BY <2>3, <2>4 DEF KeepsMachine
<1> QED
  BY InitInv, NextInv, AddressInit, AddressNext, SameInit, SameNext, MachineInit, MachineNext, <1>1, PTL DEF Spec

-----------------------------------------------------------------------------
(* What is read back: the kernel's command line.                            *)

\* The line while the domain is being made, and what a read has left.
CmdlineInv ==
    /\ d = [a \in Attribute |-> d[a]]
    /\ d.cmdline \in Seq(CmdlineMaps)
    /\ pc \in {"ignition", "disks", "cloudinit", "interface", "define", "read"} =>
         def.cmdline = CmdlineArgs(d.cmdline)
    /\ round # 1 => \E maps \in Seq(CmdlineMaps) : d.cmdline = splitKernelCmdLine(CmdlineArgs(maps))

LEMMA CmdlineInit == Init => CmdlineInv
  BY ConfigAssumption DEF Init, CmdlineInv

LEMMA ReadCmdlineStep ==
    ASSUME CmdlineInv, ReadDomain, pc' # "error"
    PROVE  /\ d' = [a \in Attribute |-> d'[a]]
           /\ d'.cmdline = splitKernelCmdLine(CmdlineArgs(d.cmdline))
           /\ d'.cmdline \in Seq(CmdlineMaps)
           /\ ToBag(Words(d.cmdline)) = ToBag(Words(d'.cmdline))
           /\ d'.cmdline = d.cmdline <=> Tidy(d.cmdline)
           /\ round # 1 => d'.cmdline = d.cmdline
<1>1. /\ DOMAIN d = Attribute /\ d.cmdline \in Seq(CmdlineMaps)
      /\ pc = "read" => def.cmdline = CmdlineArgs(d.cmdline)
  BY DEF CmdlineInv
<1>2. d' = [a \in Attribute |-> d'[a]] /\ d'.cmdline = splitKernelCmdLine(CmdlineArgs(d.cmdline))
  BY <1>1 DEF ReadDomain, Attribute, Fail
<1>3. CmdlineArgs(d.cmdline) \in Seq(DOMAIN Key)
  BY <1>1, CmdlineIs
<1>4. d'.cmdline \in Seq(CmdlineMaps)
  BY <1>2, <1>3, SplitKernelCmdLineIs
<1>5. ToBag(Words(d.cmdline)) = ToBag(Words(d'.cmdline))
  <2>1. \A e : Count(Words(d.cmdline), e) = Count(Words(d'.cmdline), e)
    BY <1>1, <1>2, <1>3, CmdlineIs, SplitKernelCmdLineIs
  <2>2. Words(d.cmdline) \in Seq(DOMAIN Key) /\ Words(d'.cmdline) \in Seq(DOMAIN Key)
    BY <1>1, <1>4, WordsAre
  <2> DEFINE s == Words(d.cmdline)
             t == Words(d'.cmdline)
             S == DOMAIN Key
  <2> HIDE DEF s, t, S
  <2>3. s \in Seq(S) /\ t \in Seq(S) /\ \A e \in S : Count(s, e) = Count(t, e)
    BY <2>1, <2>2 DEF s, t, S
  <2>4. ToBag(s) = ToBag(t)
    BY <2>3, SameBag
  <2> QED
    BY <2>4 DEF s, t
<1>6. ASSUME round # 1 PROVE d'.cmdline = d.cmdline
  <2>1. PICK maps \in Seq(CmdlineMaps) : d.cmdline = splitKernelCmdLine(CmdlineArgs(maps))
    BY <1>6 DEF CmdlineInv
  <2> QED
    <3>1. CmdlineArgs(maps) \in Seq(DOMAIN Key) /\ Ranked(Part(CmdlineArgs(maps), Keyed))
      BY CmdlineIs, CmdlineSorts
    <3> QED
      BY <1>2, <2>1, <3>1, SecondRead
<1>7. d'.cmdline = d.cmdline <=> Tidy(d.cmdline)
  BY <1>1, <1>2, TidyReads
<1> QED
  BY <1>2, <1>4, <1>5, <1>6, <1>7

LEMMA CmdlineNext == IInv /\ CmdlineInv /\ [Next]_vars => CmdlineInv'
<1> SUFFICES ASSUME IInv, CmdlineInv, [Next]_vars PROVE CmdlineInv'
  OBVIOUS
<1>1. IsDomainDef(def) /\ DOMAIN d = Attribute
  BY DEF IInv, TypeInv, CmdlineInv
<1>2. CASE CreateNetwork \/ NewDomainDef
  BY <1>2 DEF CreateNetwork, NewDomainDef, Goto, Fail, CmdlineInv
<1>3. CASE ReadNetwork
  <2>1. d' = [a \in Attribute |-> d'[a]] /\ d'.cmdline = d.cmdline /\ pc' = "domain" /\ round' = round
    BY <1>1, <1>3 DEF ReadNetwork, Goto, Attribute
  <2> QED
    BY <2>1 DEF CmdlineInv
<1>4. CASE SetCmdlineArgs
  <2>1. def'.cmdline = CmdlineArgs(d.cmdline) /\ d' = d /\ round' = round
    BY <1>1, <1>4 DEF SetCmdlineArgs, IsDomainDef
  <2> QED
    BY <2>1 DEF CmdlineInv
<1>5. CASE SetCoreOSIgnition \/ SetDisks \/ SetCloudinit \/ SetNetworkInterface \/ DefineDomain
  <2>1. /\ def'.cmdline = def.cmdline /\ d' = d /\ round' = round
        /\ pc \in {"ignition", "disks", "cloudinit", "interface", "define"}
    BY <1>1, <1>5 DEF SetCoreOSIgnition, SetDisks, SetCloudinit, SetNetworkInterface, DefineDomain,
                      IsDomainDef, Fail
  <2> QED
    BY <2>1 DEF CmdlineInv
<1>6. CASE ReadDomain
  <2>1. CASE pc' = "error"
    BY <1>6, <2>1 DEF ReadDomain, Goto, Fail, CmdlineInv
  <2>2. CASE pc' # "error"
    <3>1. pc' \in {"adopt", "done"}
      BY <1>6, <2>2 DEF ReadDomain, Goto, Fail
    <3>2. d.cmdline \in Seq(CmdlineMaps)
      BY DEF CmdlineInv
    <3>3. /\ d' = [a \in Attribute |-> d'[a]]
          /\ d'.cmdline = splitKernelCmdLine(CmdlineArgs(d.cmdline))
          /\ d'.cmdline \in Seq(CmdlineMaps)
      BY <1>6, <2>2, ReadCmdlineStep
    <3>4. \E maps \in Seq(CmdlineMaps) : d'.cmdline = splitKernelCmdLine(CmdlineArgs(maps))
      BY <3>2, <3>3
    <3> QED
      BY <3>1, <3>3, <3>4, Zenon DEF CmdlineInv
  <2> QED
    BY <2>1, <2>2
<1>7. CASE Adopt
  BY <1>7 DEF Adopt, Goto, CmdlineInv
<1>8. CASE UNCHANGED vars
  BY <1>8 DEF vars, CmdlineInv
<1> QED
  BY <1>2, <1>3, <1>4, <1>5, <1>6, <1>7, <1>8 DEF Next

\* A read leaves each kernel argument as often as it is configured, however many maps
\* they are spread over, and the maps as they are configured if and only if they are
\* tidy, which they are from the second read on.
THEOREM ArgumentsReadBack ==
    Spec => [][pc = "read" /\ pc' # "error" =>
                 KeepsArguments /\ KeepsCmdline /\ (round # 1 => d'.cmdline = config.cmdline)]_vars
<1>1. IInv /\ SameInv /\ CmdlineInv /\ [Next]_vars
        => [pc = "read" /\ pc' # "error" =>
              KeepsArguments /\ KeepsCmdline /\ (round # 1 => d'.cmdline = config.cmdline)]_vars
  <2> SUFFICES ASSUME IInv, SameInv, CmdlineInv, Next, pc = "read", pc' # "error"
               PROVE  KeepsArguments /\ KeepsCmdline /\ (round # 1 => d'.cmdline = config.cmdline)
    OBVIOUS
  <2>1. ReadDomain
    BY DEF Next, CreateNetwork, ReadNetwork, NewDomainDef, SetCmdlineArgs, SetCoreOSIgnition, SetDisks,
           SetCloudinit, SetNetworkInterface, DefineDomain, Adopt
  <2>2. d.cmdline = config.cmdline
    BY DEF SameInv
  <2> QED
    BY <2>1, <2>2, ReadCmdlineStep DEF KeepsArguments, KeepsCmdline
<1> QED
  BY InitInv, NextInv, AddressInit, AddressNext, SameInit, SameNext, CmdlineInit, CmdlineNext, <1>1, PTL DEF Spec

-----------------------------------------------------------------------------
(* What is read back: everything, from the second read on.                  *)

\* The architectures that get an Ignition file as a disk.
OwnDisk == d.coreos_ignition # None /\ d.hostArch \in {"s390", "s390x", "ppc64", "ppc64le"}

\* Which disks are of Ignition, and what a read has left of those of the list.
SettledInv ==
    /\ pc \in {"disks", "cloudinit", "interface", "define", "read"} => (IgnitionDisk <=> OwnDisk)
    /\ round # 1 /\ ~OwnDisk => \A n \in DOMAIN d.disks : Settled(d.disks[n])

LEMMA SettledInit == Init => SettledInv
  BY DEF Init, SettledInv

LEMMA SettledNext == IInv /\ CmdlineInv /\ ReadInv /\ SettledInv /\ MachineInv /\ [Next]_vars => SettledInv'
<1> SUFFICES ASSUME IInv, CmdlineInv, ReadInv, SettledInv, MachineInv, [Next]_vars PROVE SettledInv'
  OBVIOUS
<1>1. IsDomainDef(def) /\ DOMAIN d = Attribute /\ round \in Nat \ {0} /\ IsSeq(def.disks)
  BY DEF IInv, TypeInv, CmdlineInv, MachineInv
<1>2. CASE CreateNetwork \/ NewDomainDef
  BY <1>2 DEF CreateNetwork, NewDomainDef, Goto, Fail, SettledInv, OwnDisk
<1>3. CASE ReadNetwork
  <2>1. /\ d'.disks = d.disks /\ d'.coreos_ignition = d.coreos_ignition /\ d'.hostArch = d.hostArch
        /\ pc' = "domain" /\ round' = round
    BY <1>1, <1>3 DEF ReadNetwork, Goto, Attribute
  <2> QED
    BY <2>1 DEF SettledInv, OwnDisk
<1>4. CASE SetCmdlineArgs
  BY <1>4 DEF SetCmdlineArgs, Goto, SettledInv, OwnDisk
<1>5. CASE SetCoreOSIgnition
  <2> DEFINE e == Disk("disk", Target("virtio", <<1>>), [kind |-> "file", name |-> d.coreos_ignition],
                       "raw", "ignition", None)
  <2>1. d' = d /\ round' = round /\ pc' \in {"disks", "error"} /\ def.disks = <<>>
    BY <1>5 DEF SetCoreOSIgnition, Goto, Fail, IInv, OrderInv
  <2>2. CASE ~OwnDisk
    <3>1. def'.disks = <<>>
      BY <1>1, <1>5, <2>1, <2>2 DEF SetCoreOSIgnition, IsDomainDef, Fail, OwnDisk
    <3>2. ~IgnitionDisk'
      BY <3>1 DEF IgnitionDisk
    <3> QED
      BY <2>1, <2>2, <3>2 DEF SettledInv, OwnDisk
  <2>3. CASE OwnDisk
    <3>1. def'.disks = <<e>>
      BY <1>1, <1>5, <2>1, <2>3 DEF SetCoreOSIgnition, IsDomainDef, Fail, OwnDisk
    <3>2. e.serial = "ignition"
      BY DEF Disk
    <3>3. IgnitionDisk'
      BY <3>1, <3>2 DEF IgnitionDisk
    <3> QED
      BY <2>1, <2>3, <3>3 DEF SettledInv, OwnDisk
  <2> QED
    BY <2>2, <2>3
<1>6. CASE SetDisks \/ SetCloudinit
  <2>1. d' = d /\ round' = round /\ pc \in {"disks", "cloudinit"}
    BY <1>6 DEF SetDisks, SetCloudinit, Fail
  <2>2. \/ def'.disks = def.disks
        \/ \E e : def'.disks = Append(def.disks, e) /\ e.serial # "ignition"
    <3>1. CASE def' = def
      BY <3>1
    <3>2. ASSUME NEW e, def' = [def EXCEPT !.disks = Append(@, e)], e.serial # "ignition"
          PROVE  def'.disks = Append(def.disks, e) /\ e.serial # "ignition"
      BY <1>1, <3>2 DEF IsDomainDef
    <3>3. CASE SetDisks /\ def' # def
      <4> DEFINE e == NewDisk(d.disks[i + 1])
      <4>1. def' = [def EXCEPT !.disks = Append(@, e)]
        BY <3>3 DEF SetDisks, Fail
      <4>2. e.serial = ""
        BY NewDiskFields
      <4> HIDE DEF e
      <4> QED
        BY <3>2, <4>1, <4>2
    <3>4. CASE SetCloudinit /\ def' # def
      <4> DEFINE e == Disk("cdrom", Target("ide", <<3>>), [kind |-> "file", name |-> d.cloudinit],
                           "raw", "cloudinit", None)
      <4>1. def' = [def EXCEPT !.disks = Append(@, e)]
        BY <3>4 DEF SetCloudinit
      <4>2. e.serial = "cloudinit"
        BY DEF Disk
      <4> HIDE DEF e
      <4> QED
        BY <3>2, <4>1, <4>2
    <3> QED
      BY <1>6, <3>1, <3>3, <3>4
  <2>3. ASSUME NEW e, def'.disks = Append(def.disks, e), e.serial # "ignition"
        PROVE  IgnitionDisk' = IgnitionDisk
    <3>1. /\ DOMAIN Append(def.disks, e) = DOMAIN def.disks \union {Len(def.disks) + 1}
          /\ \A n \in DOMAIN def.disks : Append(def.disks, e)[n] = def.disks[n]
          /\ Append(def.disks, e)[Len(def.disks) + 1] = e
      BY <1>1, AppendDisk, Zenon
    <3> QED
      BY <2>3, <3>1 DEF IgnitionDisk
  <2>4. IgnitionDisk' = IgnitionDisk
    BY <2>2, <2>3 DEF IgnitionDisk
  <2> QED
    BY <2>1, <2>4 DEF SettledInv, OwnDisk
<1>7. CASE SetNetworkInterface \/ DefineDomain
  <2>1. d' = d /\ round' = round /\ pc \in {"interface", "define"} /\ def'.disks = def.disks
    BY <1>1, <1>7 DEF SetNetworkInterface, DefineDomain, IsDomainDef, Fail
  <2> QED
    BY <2>1 DEF SettledInv, OwnDisk, IgnitionDisk
<1>8. CASE ReadDomain
  <2>1. CASE pc' = "error"
    BY <1>8, <2>1 DEF ReadDomain, Goto, Fail, SettledInv, OwnDisk
  <2>2. CASE pc' # "error"
    <3>1. /\ pc = "read" /\ pc' \in {"adopt", "done"}
          /\ d'.coreos_ignition = d.coreos_ignition /\ d'.hostArch = d.hostArch
      BY <1>1, <1>8, <2>2 DEF ReadDomain, Goto, Fail, Attribute
    <3>2. OwnDisk' = OwnDisk /\ (IgnitionDisk <=> OwnDisk)
      BY <3>1 DEF SettledInv, OwnDisk
    <3>3. ~OwnDisk => \A n \in DOMAIN d'.disks : Settled(d'.disks[n])
      BY <1>1, <1>8, <2>2, <3>2, ReadDisksStep
    <3> QED
      BY <3>1, <3>2, <3>3 DEF SettledInv
  <2> QED
    BY <2>1, <2>2
<1>9. CASE Adopt
  BY <1>9 DEF Adopt, Goto, SettledInv, OwnDisk, IgnitionDisk
<1>10. CASE UNCHANGED vars
  BY <1>10 DEF vars, SettledInv, OwnDisk, IgnitionDisk
<1> QED
  BY <1>2, <1>3, <1>4, <1>5, <1>6, <1>7, <1>8, <1>9, <1>10 DEF Next

\* A read keeps the kernel's arguments, the machine and the disks, and tells what a plan
\* will show as changed; a configuration that has adopted what a read has found is read
\* as it is, whatever it was before.
THEOREM ReadBack == Spec => ReadsBack
<1> DEFINE Inv == IInv /\ AddressInv /\ SameInv /\ ReadInv /\ MachineInv /\ CmdlineInv /\ SettledInv
           Disks == pc = "read" /\ pc' # "error" /\ round = 2 /\ ~IgnitionDisk => d'.disks = config.disks
<1>1. Init => Inv
  BY InitInv, AddressInit, SameInit, ReadInit, MachineInit, CmdlineInit, SettledInit
<1>2. Inv /\ [Next]_vars => Inv'
  BY NextInv, AddressNext, SameNext, ReadNext, MachineNext, CmdlineNext, SettledNext
<1>3. Inv /\ [Next]_vars => [Disks]_vars
  <2> SUFFICES ASSUME Inv, Next, pc = "read", pc' # "error", round = 2, ~IgnitionDisk
               PROVE  d'.disks = config.disks
    OBVIOUS
  <2>1. ReadDomain
    BY DEF Next, CreateNetwork, ReadNetwork, NewDomainDef, SetCmdlineArgs, SetCoreOSIgnition, SetDisks,
           SetCloudinit, SetNetworkInterface, DefineDomain, Adopt
  <2>2. DOMAIN d = Attribute /\ d.disks = config.disks
    BY DEF AddressInv, SameInv
  <2>3. \A n \in DOMAIN d.disks : Settled(d.disks[n])
    BY DEF SettledInv
  <2> QED
    BY <2>1, <2>2, <2>3, ReadDisksStep
<1> HIDE DEF Inv, Disks
<1>4. Spec => [][Disks]_vars
  BY <1>1, <1>2, <1>3, PTL DEF Spec
<1>5. [Disks]_vars /\ [pc = "read" /\ pc' # "error" => KeepsDisks]_vars
      /\ [pc = "read" /\ pc' # "error" => KeepsMachine /\ (round # 1 => d'.machine = config.machine)]_vars
      /\ [pc = "read" /\ pc' # "error" =>
            KeepsArguments /\ KeepsCmdline /\ (round # 1 => d'.cmdline = config.cmdline)]_vars
      => [pc = "read" /\ pc' # "error" =>
            /\ KeepsArguments
            /\ KeepsCmdline
            /\ KeepsMachine
            /\ KeepsDisks
            /\ round = 2 /\ ~IgnitionDisk => PlanIsEmpty]_vars
  BY DEF Disks, PlanIsEmpty
<1> QED
  BY <1>4, <1>5, DisksReadBack, MachineReadsBack, ArgumentsReadBack, PTL DEF ReadsBack
=============================================================================
