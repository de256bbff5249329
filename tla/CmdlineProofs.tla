--------------------------- MODULE CmdlineProofs ---------------------------
(***************************************************************************)
(* The kernel's command line: what the create makes of the attribute has    *)
(* every argument as often, in the order of sort.Strings, and so has what   *)
(* the read makes of that; and what a read has stored is read the same.     *)
(***************************************************************************)
EXTENDS AddressProofs, SequenceTheorems, FiniteSetTheorems

-----------------------------------------------------------------------------
(* Sequences: folds, how often an element occurs, and FlattenSeq.           *)

LEMMA Greatest ==
    ASSUME NEW m \in Nat, NEW S \in SUBSET (1 .. m), m \in S
    PROVE  Max(S) = m
<1>1. \A j \in S : m >= j
  OBVIOUS
<1>2. \A k \in S : (\A j \in S : k >= j) => k = m
  OBVIOUS
<1>3. \E k \in S : \A j \in S : k >= j
  BY <1>1
<1> DEFINE IsMax(k) == k \in S /\ \A j \in S : k >= j
<1>4. Max(S) = CHOOSE k : IsMax(k)
  BY DEF Max
<1>5. IsMax(CHOOSE k : IsMax(k))
  BY <1>3
<1> QED
  BY <1>2, <1>4, <1>5

LEMMA LastPosition ==
    ASSUME NEW n \in Nat, NEW P \in SUBSET (1 .. n), P # {}
    PROVE  Max(P) \in 1 .. n
<1>1. PICK m \in {n - k : k \in P} : \A k \in {n - k : k \in P} : m <= k
  <2>1. \A k \in P : n - k \in Nat
    OBVIOUS
  <2>2. {n - k : k \in P} \subseteq Nat
    BY <2>1
  <2>3. {n - k : k \in P} # {}
    OBVIOUS
  <2> QED
    BY <2>2, <2>3, Least
<1>2. n - m \in P /\ \A k \in P : n - m >= k
  <2>1. \A k \in P : m <= n - k /\ k \in Nat /\ n - (n - k) = k
    BY <1>1
  <2> QED
    BY <1>1, <2>1
<1>3. Max(P) \in P
  BY <1>2 DEF Max
<1> QED
  BY <1>3

LEMMA FirstPositions ==
    ASSUME NEW n \in Nat, NEW k \in 1 .. n
    PROVE  /\ 1 .. k \in SUBSET (1 .. n) /\ 1 .. k # {} /\ (1 .. k) \ {k} = 1 .. k - 1
           /\ Max(1 .. k) = k
<1>1. 1 .. k \in SUBSET (1 .. n) /\ 1 .. k # {} /\ (1 .. k) \ {k} = 1 .. k - 1
  OBVIOUS
<1>2. k \in Nat /\ 1 .. k \in SUBSET (1 .. k) /\ k \in 1 .. k
  OBVIOUS
<1> QED
  BY <1>1, <1>2, Greatest

\* What a fold of op, which has its values in X, computes for every set of positions.
Folds(X, b, n, op, f) ==
    /\ f \in [SUBSET (1 .. n) -> X]
    /\ \A S \in SUBSET (1 .. n) : f[S] = IF S = {} THEN b ELSE op[<<f[S \ {Max(S)}], Max(S)>>]

LEMMA FoldsExist ==
    ASSUME NEW X, NEW b \in X, NEW n \in Nat, NEW op \in [X \X (1 .. n) -> X]
    PROVE  \E f : Folds(X, b, n, op, f)
<1> DEFINE T == {m \in 0 .. n : ~\E f : Folds(X, b, m, op, f)}
<1> SUFFICES ASSUME T # {} PROVE FALSE
  OBVIOUS
<1>1. PICK m \in T : \A k \in T : m <= k
  <2>1. T \subseteq Nat
    OBVIOUS
  <2> HIDE DEF T
  <2> QED
    BY <2>1, Least
<1>2. CASE m = 0
  <2> DEFINE f == [S \in SUBSET (1 .. 0) |-> b]
  <2>1. Folds(X, b, 0, op, f)
    BY DEF Folds
  <2> QED
    BY <1>2, <2>1
<1>3. CASE m # 0
  <2>1. m \in 1 .. n /\ m - 1 \in 0 .. n /\ m - 1 \notin T
    <3>1. T \subseteq 0 .. n
      OBVIOUS
    <3> HIDE DEF T
    <3> QED
      BY <1>1, <1>3, <3>1
  <2>2. PICK g : Folds(X, b, m - 1, op, g)
    BY <2>1
  <2> DEFINE h == [S \in SUBSET (1 .. m) |-> IF m \in S THEN op[<<g[S \ {m}], m>>] ELSE g[S]]
  <2>3. \A S \in SUBSET (1 .. m) : S \ {m} \in SUBSET (1 .. m - 1) /\ (m \notin S => S \ {m} = S)
    BY <2>1
  <2>4. h \in [SUBSET (1 .. m) -> X]
    <3>1. \A S \in SUBSET (1 .. m) : g[S \ {m}] \in X /\ op[<<g[S \ {m}], m>>] \in X
      BY <2>1, <2>2, <2>3 DEF Folds
    <3>2. \A S \in SUBSET (1 .. m) : m \notin S => g[S] \in X
      BY <2>3, <3>1
    <3> QED
      BY <3>1, <3>2
  <2>5. ASSUME NEW S \in SUBSET (1 .. m - 1)
        PROVE  S \in SUBSET (1 .. m) /\ h[S] = g[S]
    BY <2>1
  <2>6. ASSUME NEW S \in SUBSET (1 .. m)
        PROVE  h[S] = IF S = {} THEN b ELSE op[<<h[S \ {Max(S)}], Max(S)>>]
    <3>1. CASE m \in S
      <4>1. S \ {m} \in SUBSET (1 .. m - 1) /\ Max(S) = m
        BY <2>1, <2>3, <3>1, Greatest
      <4>2. h[S \ {m}] = g[S \ {m}]
        BY <2>5, <4>1
      <4>3. h[S] = op[<<g[S \ {m}], m>>]
        BY <3>1
      <4> HIDE DEF h
      <4> QED
        BY <3>1, <4>1, <4>2, <4>3
    <3>2. CASE m \notin S
      <4>1. S \in SUBSET (1 .. m - 1)
        BY <2>3, <3>2
      <4>2. h[S] = g[S] /\ g[S] = IF S = {} THEN b ELSE op[<<g[S \ {Max(S)}], Max(S)>>]
        BY <2>2, <2>5, <4>1 DEF Folds
      <4>3. S \ {Max(S)} \in SUBSET (1 .. m - 1)
        BY <4>1
      <4>4. h[S \ {Max(S)}] = g[S \ {Max(S)}]
        BY <2>5, <4>3
      <4> HIDE DEF h
      <4> QED
        BY <4>2, <4>4
    <3> QED
      BY <3>1, <3>2
  <2> HIDE DEF h
  <2>7. Folds(X, b, m, op, h)
    BY <2>4, <2>6 DEF Folds
  <2> QED
    BY <1>1, <2>7
<1> QED
  BY <1>2, <1>3

\* The same for the positions up to k.
Steps(X, b, n, op, f) ==
    /\ f[1 .. 0] = b
    /\ \A k \in 0 .. n : f[1 .. k] \in X
    /\ \A k \in 1 .. n : f[1 .. k] = op[<<f[1 .. k - 1], k>>]

LEMMA StepsExist ==
    ASSUME NEW X, NEW b \in X, NEW n \in Nat, NEW op \in [X \X (1 .. n) -> X]
    PROVE  \E f : Folds(X, b, n, op, f) /\ Steps(X, b, n, op, f)
<1>0. PICK f : Folds(X, b, n, op, f)
  BY FoldsExist
<1>1. f[1 .. 0] = b
  <2>1. 1 .. 0 = {} /\ 1 .. 0 \in SUBSET (1 .. n)
    OBVIOUS
  <2> QED
    BY <1>0, <2>1 DEF Folds
<1>2. ASSUME NEW k \in 0 .. n PROVE f[1 .. k] \in X
  <2>1. 1 .. k \in SUBSET (1 .. n)
    OBVIOUS
  <2> QED
    BY <1>0, <2>1 DEF Folds
<1>3. ASSUME NEW k \in 1 .. n PROVE f[1 .. k] = op[<<f[1 .. k - 1], k>>]
  <2>1. /\ 1 .. k \in SUBSET (1 .. n) /\ 1 .. k # {} /\ (1 .. k) \ {k} = 1 .. k - 1
        /\ Max(1 .. k) = k
    BY FirstPositions
  <2> QED
    BY <1>0, <2>1 DEF Folds
<1> QED
  BY <1>0, <1>1, <1>2, <1>3 DEF Steps

\* How often a sequence has an element.
Count(s, e) == Cardinality({k \in DOMAIN s : s[k] = e})

LEMMA CountIs ==
    ASSUME NEW S, NEW s \in Seq(S), NEW e
    PROVE  /\ IsFiniteSet({k \in DOMAIN s : s[k] = e})
           /\ Count(s, e) \in Nat
           /\ Count(s, e) = 0 <=> \A k \in DOMAIN s : s[k] # e
<1> DEFINE K == {k \in DOMAIN s : s[k] = e}
<1>1. K \in SUBSET (1 .. Len(s)) /\ Len(s) \in Nat /\ DOMAIN s = 1 .. Len(s)
  BY LenProperties
<1>2. IsFiniteSet(K)
  <2>1. IsFiniteSet(1 .. Len(s))
    BY <1>1, FS_Interval
  <2> HIDE DEF K
  <2> QED
    BY <1>1, <2>1, FS_Subset
<1>3. K = {} <=> \A k \in DOMAIN s : s[k] # e
  OBVIOUS
<1> HIDE DEF K
<1>4. Cardinality(K) \in Nat /\ (Cardinality(K) = 0 <=> K = {})
  BY <1>2, FS_CardinalityType, FS_EmptySet
<1> QED
  BY <1>2, <1>3, <1>4 DEF Count, K

LEMMA CountEmpty == \A e : Count(<<>>, e) = 0
<1> TAKE e
<1>1. <<>> \in Seq({}) /\ \A k \in DOMAIN <<>> : <<>>[k] # e
  OBVIOUS
<1> QED
  BY <1>1, CountIs

LEMMA CountOne ==
    ASSUME NEW w, NEW e
    PROVE  Count(<<w>>, e) = IF w = e THEN 1 ELSE 0
<1>1. {k \in DOMAIN <<w>> : <<w>>[k] = e} = IF w = e THEN {1} ELSE {}
  OBVIOUS
<1> QED
  BY <1>1, FS_Singleton, FS_EmptySet DEF Count

LEMMA CountConcat ==
    ASSUME NEW S, NEW s \in Seq(S), NEW t \in Seq(S), NEW e
    PROVE  Count(s \o t, e) = Count(s, e) + Count(t, e)
<1> DEFINE m == Len(s)
           n == Len(t)
           K == {k \in DOMAIN s : s[k] = e}
           L == {k \in DOMAIN t : t[k] = e}
           M == {k \in DOMAIN (s \o t) : (s \o t)[k] = e}
           Shifted == {k \in m + 1 .. m + n : (s \o t)[k] = e}
           f == [k \in L |-> m + k]
<1>1. /\ m \in Nat /\ n \in Nat
      /\ DOMAIN s = 1 .. m /\ DOMAIN t = 1 .. n /\ DOMAIN (s \o t) = 1 .. m + n
      /\ \A k \in 1 .. m : (s \o t)[k] = s[k]
      /\ \A k \in 1 .. n : (s \o t)[m + k] = t[k]
  BY ConcatProperties, LenProperties
<1>2. IsFiniteSet(K) /\ IsFiniteSet(L) /\ Cardinality(K) \in Nat /\ Cardinality(L) \in Nat
  BY CountIs DEF Count
<1>3. M = K \union Shifted
  BY <1>1
<1>4. K \intersect Shifted = {}
  BY <1>1
<1>5. f \in Bijection(L, Shifted)
  <2>1. f \in [L -> Shifted]
    BY <1>1
  <2>2. \A j, k \in L : f[j] = f[k] => j = k
    BY <1>1
  <2>3. \A x \in Shifted : \E k \in L : f[k] = x
    <3> SUFFICES ASSUME NEW x \in Shifted PROVE \E k \in L : f[k] = x
      OBVIOUS
    <3>1. x - m \in L /\ m + (x - m) = x
      <4>1. x - m \in 1 .. n /\ m + (x - m) = x
        BY <1>1
      <4>2. (s \o t)[m + (x - m)] = t[x - m]
        BY <1>1, <4>1
      <4> QED
        BY <1>1, <4>1, <4>2
    <3> QED
      BY <3>1
  <2> QED
    BY <2>1, <2>2, <2>3 DEF Bijection, Injection, Surjection, IsInjective
<1> HIDE DEF f, K, L, M, Shifted
<1>6. IsFiniteSet(Shifted) /\ Cardinality(Shifted) = Cardinality(L)
  BY <1>2, <1>5, FS_Bijection DEF ExistsBijection
<1>7. Cardinality(M) = Cardinality(K) + Cardinality(Shifted) - Cardinality(K \intersect Shifted)
  BY <1>2, <1>3, <1>6, FS_Union
<1>8. Cardinality(M) = Cardinality(K) + Cardinality(L)
  <2>1. Cardinality(K \intersect Shifted) = 0
    BY <1>4, FS_EmptySet
  <2> QED
    BY <1>2, <1>6, <1>7, <2>1
<1> QED
  BY <1>8 DEF K, L, M, Count

\* Sequences that have everything equally often.
LEMMA SameBag ==
    ASSUME NEW S, NEW s \in Seq(S), NEW t \in Seq(S), \A e \in S : Count(s, e) = Count(t, e)
    PROVE  ToBag(s) = ToBag(t)
<1>1. /\ \A e \in Range(s) : e \in S /\ Count(s, e) # 0
      /\ \A e \in Range(t) : e \in S /\ Count(t, e) # 0
      /\ \A e \in S : Count(s, e) # 0 => e \in Range(s)
      /\ \A e \in S : Count(t, e) # 0 => e \in Range(t)
  <2>1. ASSUME NEW u \in Seq(S)
        PROVE  /\ \A e \in Range(u) : e \in S /\ Count(u, e) # 0
               /\ \A e \in S : Count(u, e) # 0 => e \in Range(u)
    <3>1. DOMAIN u = 1 .. Len(u) /\ \A k \in DOMAIN u : u[k] \in S
      BY ElementOfSeq, LenProperties
    <3>2. \A e : Count(u, e) = 0 <=> \A k \in DOMAIN u : u[k] # e
      BY CountIs
    <3> QED
      BY <3>1, <3>2 DEF Range
  <2> QED
    BY <2>1
<1>2. Range(s) = Range(t)
  BY <1>1
<1>3. \A e \in Range(s) : Count(s, e) = Count(t, e)
  BY <1>1
<1> QED
  BY <1>2, <1>3 DEF ToBag, Count

\* A finite set as a sequence: each element once.
LEMMA SetAsSeq ==
    ASSUME NEW S, IsFiniteSet(S)
    PROVE  /\ SetToSeq(S) \in Seq(S)
           /\ \A e : Count(SetToSeq(S), e) = IF e \in S THEN 1 ELSE 0
<1> DEFINE n == Cardinality(S)
           f == SetToSeq(S)
<1>1. n \in Nat /\ \E g : g \in Bijection(1 .. n, S)
  BY FS_CardinalityType DEF ExistsBijection
<1>2. f \in [1 .. n -> S] /\ IsInjective(f)
  <2>1. \E g \in [1 .. n -> S] : IsInjective(g)
    BY <1>1 DEF Bijection, Injection
  <2> QED
    BY <2>1 DEF SetToSeq
<1> HIDE DEF f
<1>3. f \in Seq(S) /\ DOMAIN f = 1 .. n
  BY <1>1, <1>2
<1>4. f \in Injection(1 .. n, S)
  BY <1>2 DEF Injection
<1>5. f \in Surjection(1 .. n, S)
  <2>1. IsFiniteSet(1 .. n) /\ Cardinality(1 .. n) = n
    <3>1. 0 <= n /\ 1 \in Int /\ n \in Int
      BY <1>1
    <3>2. IsFiniteSet(1 .. n) /\ Cardinality(1 .. n) = IF 1 > n THEN 0 ELSE n - 1 + 1
      BY <3>1, FS_Interval
    <3> HIDE DEF n
    <3> QED
      BY <1>1, <3>2
  <2> QED
    BY <1>4, <2>1, FS_Injection
<1>6. ASSUME NEW e
      PROVE  Count(f, e) = IF e \in S THEN 1 ELSE 0
  <2>1. CASE e \in S
    <3>1. PICK k \in 1 .. n : f[k] = e
      BY <1>5, <2>1 DEF Surjection
    <3>2. {j \in DOMAIN f : f[j] = e} = {k}
      BY <1>2, <1>3, <3>1 DEF IsInjective
    <3> QED
      BY <2>1, <3>2, FS_Singleton DEF Count
  <2>2. CASE e \notin S
    <3>1. {j \in DOMAIN f : f[j] = e} = {}
      BY <1>2, <2>2
    <3> QED
      BY <2>2, <3>1, FS_EmptySet DEF Count
  <2> QED
    BY <2>1, <2>2
<1> QED
  BY <1>3, <1>6 DEF f

-----------------------------------------------------------------------------

LEMMA FrontAndLast ==
    ASSUME NEW S, NEW s \in Seq(S), s # <<>>
    PROVE  \E t \in Seq(S), w \in S : s = Append(t, w) /\ Len(s) = Len(t) + 1 /\ Len(t) \in Nat
<1>1. Len(s) \in Nat \ {0} /\ \A k \in 1 .. Len(s) : s[k] \in S
  BY EmptySeq, LenProperties, ElementOfSeq
<1>2. s = SubSeq(s, 1, Len(s) - 1) \o <<s[Len(s)]>>
  <2>1. 1 \in 1 .. Len(s) /\ Len(s) \in 1 .. Len(s)
    BY <1>1
  <2>2. SubSeq(s, 1, Len(s)) = SubSeq(s, 1, Len(s) - 1) \o <<s[Len(s)]>>
    BY <2>1, SubSeqRecursiveSecond
  <2> QED
    BY <2>2, SubSeqFull
<1> DEFINE t == SubSeq(s, 1, Len(s) - 1)
<1>3. t \in Seq(S) /\ Len(t) = Len(s) - 1
  <2>1. 1 \in Int /\ Len(s) - 1 \in Int /\ \A k \in 1 .. Len(s) - 1 : s[k] \in S
    BY <1>1
  <2>2. t \in Seq(S) /\ Len(t) = IF 1 <= Len(s) - 1 THEN Len(s) - 1 - 1 + 1 ELSE 0
    BY <2>1, SubSeqProperties
  <2>3. Len(s) \in Nat \ {0}
    BY <1>1
  <2>4. \A n \in Nat : n # 0 => (IF 1 <= n - 1 THEN n - 1 - 1 + 1 ELSE 0) = n - 1
    OBVIOUS
  <2> QED
    BY <2>2, <2>3, <2>4
<1>4. s[Len(s)] \in S
  BY <1>1
<1>5. s = t \o <<s[Len(s)]>>
  BY <1>2
<1> HIDE DEF t
<1>6. t \o <<s[Len(s)]>> = Append(t, s[Len(s)])
  BY <1>3, <1>4
<1>7. s = Append(t, s[Len(s)])
  BY <1>5, <1>6
<1>8. Len(s) = Len(t) + 1 /\ Len(t) \in Nat
  <2>1. Len(s) \in Nat \ {0}
    BY <1>1
  <2> QED
    BY <1>3, <2>1
<1> QED
  BY <1>3, <1>4, <1>7, <1>8

\* The sequences of L up to n, one behind the other.
Joined(L, n, acc) ==
    /\ acc[0] = <<>>
    /\ \A k \in 1 .. n : acc[k] = acc[k - 1] \o L[k]

LEMMA FlattenIs ==
    ASSUME NEW S, NEW L \in Seq(Seq(S))
    PROVE  /\ FlattenSeq(L) \in Seq(S)
           /\ \E acc : Joined(L, Len(L), acc) /\ FlattenSeq(L) = acc[Len(L)]
<1> DEFINE n == Len(L)
           op == [x \in Seq(S) \X (1 .. n) |-> x[1] \o L[x[2]]]
<1>1. n \in Nat /\ \A k \in 1 .. n : L[k] \in Seq(S)
  BY LenProperties, ElementOfSeq
<1>2. op \in [Seq(S) \X (1 .. n) -> Seq(S)]
  BY <1>1, ConcatProperties
<1>3. \A u \in Seq(S), k \in 1 .. n : op[<<u, k>>] = u \o L[k]
  OBVIOUS
<1> HIDE DEF op, n
<1>0. <<>> \in Seq(S)
  BY EmptySeq
<1> DEFINE X == Seq(S)
<1>4. \E f : Folds(X, <<>>, n, op, f) /\ Steps(X, <<>>, n, op, f)
  <2>1. n \in Nat /\ <<>> \in X /\ op \in [X \X (1 .. n) -> X]
    BY <1>0, <1>1, <1>2
  <2> HIDE DEF X
  <2> QED
    BY <2>1, StepsExist
<1>5. PICK f : Steps(X, <<>>, n, op, f)
  BY <1>4
<1> DEFINE acc == [k \in 0 .. n |-> f[1 .. k]]
<1>6. /\ acc[0] = <<>>
      /\ \A k \in 0 .. n : acc[k] \in Seq(S)
      /\ \A k \in 1 .. n : acc[k] = acc[k - 1] \o L[k]
  <2>1. 0 \in 0 .. n /\ \A k \in 1 .. n : k \in 0 .. n /\ k - 1 \in 0 .. n
    BY <1>1
  <2> QED
    BY <1>3, <1>5, <2>1 DEF Steps
<1> HIDE DEF acc
<1>7. CASE n = 0
  <2>1. L = <<>> /\ FlattenSeq(L) = L
    BY <1>7, EmptySeq DEF n, FlattenSeq
  <2>2. Joined(L, n, acc) /\ FlattenSeq(L) = acc[n]
    BY <1>6, <1>7, <2>1 DEF Joined
  <2> QED
    BY <1>0, <2>1, <2>2 DEF n
<1>8. CASE n # 0
  <2> DEFINE Rec(g) == g = [i_1 \in 1 .. n |-> IF i_1 = 1 THEN L[i_1] ELSE g[i_1 - 1] \o L[i_1]]
             g == CHOOSE g : Rec(g)
             h == [k \in 1 .. n |-> acc[k]]
  <2>1. acc[1] = L[1]
    <3>1. acc[1] = <<>> \o L[1] /\ L[1] \in Seq(S)
      <4>1. 1 \in 1 .. n /\ 1 - 1 = 0
        BY <1>1, <1>8
      <4> QED
        BY <1>1, <1>6, <4>1
    <3> QED
      BY <3>1, ConcatEmptySeq
  <2>2. Rec(h)
    <3>1. ASSUME NEW k \in 1 .. n
          PROVE  h[k] = IF k = 1 THEN L[k] ELSE h[k - 1] \o L[k]
      <4>1. CASE k = 1
        BY <2>1, <4>1
      <4>2. CASE k # 1
        <5>1. k - 1 \in 1 .. n
          BY <1>1, <4>2
        <5>2. h[k] = acc[k] /\ h[k - 1] = acc[k - 1]
          BY <5>1
        <5> QED
          BY <1>6, <4>2, <5>2
      <4> QED
        BY <4>1, <4>2
    <3> QED
      BY <3>1
  <2>3. Rec(g)
    <3> HIDE DEF h, Rec
    <3> QED
      BY <2>2
  <2>4. FlattenSeq(L) = g[n]
    BY <1>8 DEF FlattenSeq, n
  <2> HIDE DEF g
  <2> DEFINE T == {k \in 1 .. n : g[k] # acc[k]}
  <2>5. T = {}
    <3> SUFFICES ASSUME T # {} PROVE FALSE
      OBVIOUS
    <3>1. PICK m \in T : \A k \in T : m <= k
      <4>1. T \subseteq Nat
        OBVIOUS
      <4> HIDE DEF T
      <4> QED
        BY <4>1, Least
    <3>2. m \in 1 .. n
      OBVIOUS
    <3>3. g[m] = IF m = 1 THEN L[m] ELSE g[m - 1] \o L[m]
      BY <2>3, <3>2
    <3>4. m # 1
      BY <2>1, <3>2, <3>3
    <3>5. m - 1 \in 1 .. n /\ m - 1 \notin T
      <4>1. m - 1 \in 1 .. n
        BY <1>1, <3>2, <3>4
      <4> HIDE DEF T
      <4> QED
        BY <3>1, <3>2, <4>1
    <3>6. g[m - 1] = acc[m - 1]
      BY <3>5
    <3> QED
      BY <1>6, <3>2, <3>3, <3>4, <3>6
  <2>6. g[n] = acc[n]
    BY <1>1, <1>8, <2>5
  <2> HIDE DEF T, Rec, h
  <2>7. Joined(L, n, acc) /\ FlattenSeq(L) = acc[n]
    BY <1>6, <2>4, <2>6 DEF Joined
  <2>8. acc[n] \in Seq(S)
    BY <1>1, <1>6
  <2> QED
    BY <2>7, <2>8 DEF n
<1> QED
  BY <1>7, <1>8

LEMMA JoinedAgree ==
    ASSUME NEW L, NEW M, NEW n \in Nat, NEW f, NEW g, \A k \in 1 .. n : L[k] = M[k],
           Joined(L, n, f), Joined(M, n, g)
    PROVE  f[n] = g[n]
<1> DEFINE T == {k \in 0 .. n : f[k] # g[k]}
<1>1. T = {}
  <2> SUFFICES ASSUME T # {} PROVE FALSE
    OBVIOUS
  <2>1. PICK m \in T : \A k \in T : m <= k
    <3>1. T \subseteq Nat
      OBVIOUS
    <3> HIDE DEF T
    <3> QED
      BY <3>1, Least
  <2>2. m # 0
    BY DEF Joined
  <2>3. m \in 1 .. n /\ m - 1 \in 0 .. n /\ m - 1 \notin T
    BY <2>1, <2>2
  <2>4. f[m - 1] = g[m - 1]
    BY <2>3
  <2> QED
    BY <2>3, <2>4 DEF Joined
<1> QED
  BY <1>1

LEMMA JoinedStep ==
    ASSUME NEW L, NEW n \in Nat, NEW f, Joined(L, n + 1, f)
    PROVE  Joined(L, n, f) /\ f[n + 1] = f[n] \o L[n + 1]
<1> DEFINE m == n + 1
<1>1. m \in 1 .. m /\ m - 1 = n /\ \A k \in 1 .. n : k \in 1 .. m
  OBVIOUS
<1>2. Joined(L, m, f)
  OBVIOUS
<1> HIDE DEF m
<1>3. f[m] = f[m - 1] \o L[m]
  BY <1>1, <1>2 DEF Joined
<1>4. f[m] = f[n] \o L[m]
  BY <1>1, <1>3
<1>5. Joined(L, n, f)
  BY <1>1, <1>2 DEF Joined
<1> QED
  BY <1>4, <1>5 DEF m

LEMMA FlattenAppend ==
    ASSUME NEW S, NEW L \in Seq(Seq(S)), NEW w \in Seq(S)
    PROVE  FlattenSeq(Append(L, w)) = FlattenSeq(L) \o w
<1> DEFINE M == Append(L, w)
           n == Len(L)
<1>1. n \in Nat /\ M \in Seq(Seq(S)) /\ Len(M) = n + 1 /\ M[n + 1] = w /\ \A k \in 1 .. n : M[k] = L[k]
  BY LenProperties
<1> HIDE DEF M, n
<1>2. PICK f : Joined(L, n, f) /\ FlattenSeq(L) = f[n]
  BY FlattenIs DEF n
<1>3. PICK g : Joined(M, n + 1, g) /\ FlattenSeq(M) = g[n + 1]
  BY <1>1, FlattenIs
<1>4. Joined(M, n, g) /\ g[n + 1] = g[n] \o M[n + 1]
  BY <1>1, <1>3, JoinedStep
<1>5. f[n] = g[n]
  BY <1>1, <1>2, <1>4, JoinedAgree
<1> QED
  BY <1>1, <1>2, <1>3, <1>4, <1>5 DEF M

\* How often the sequences of L have an element.
CountIn(L, e) == Count(FlattenSeq(L), e)


LEMMA ConcatAppend ==
    ASSUME NEW S, NEW s \in Seq(S), NEW t \in Seq(S), NEW w \in S
    PROVE  s \o t \in Seq(S) /\ s \o Append(t, w) = Append(s \o t, w)
<1>1. s \o t \in Seq(S) /\ <<w>> \in Seq(S)
  BY ConcatProperties
<1>2. Append(t, w) = t \o <<w>> /\ Append(s \o t, w) = (s \o t) \o <<w>>
  BY <1>1
<1>3. (s \o t) \o <<w>> = s \o (t \o <<w>>)
  BY <1>1, ConcatAssociative
<1> QED
  BY <1>1, <1>2, <1>3

LEMMA CountInIs ==
    ASSUME NEW S, NEW e
    PROVE  /\ CountIn(<<>>, e) = 0
           /\ \A w \in Seq(S) : CountIn(<<w>>, e) = Count(w, e)
           /\ \A L \in Seq(Seq(S)) : CountIn(L, e) \in Nat
           /\ \A L \in Seq(Seq(S)), w \in Seq(S) : CountIn(Append(L, w), e) = CountIn(L, e) + Count(w, e)
<1>1. FlattenSeq(<<>>) = <<>> /\ <<>> \in Seq(Seq(S))
  BY EmptySeq DEF FlattenSeq
<1>2. CountIn(<<>>, e) = 0
  BY <1>1, CountEmpty DEF CountIn
<1>3. ASSUME NEW L \in Seq(Seq(S)), NEW w \in Seq(S)
      PROVE  CountIn(Append(L, w), e) = CountIn(L, e) + Count(w, e)
  <2>1. FlattenSeq(Append(L, w)) = FlattenSeq(L) \o w /\ FlattenSeq(L) \in Seq(S)
    BY FlattenAppend, FlattenIs
  <2>2. Count(FlattenSeq(L) \o w, e) = Count(FlattenSeq(L), e) + Count(w, e)
    BY <2>1, CountConcat
  <2> QED
    BY <2>1, <2>2 DEF CountIn
<1>4. ASSUME NEW w \in Seq(S)
      PROVE  CountIn(<<w>>, e) = Count(w, e)
  <2>1. <<w>> = Append(<<>>, w)
    OBVIOUS
  <2>2. Count(w, e) \in Nat
    BY CountIs
  <2>3. CountIn(<<w>>, e) = 0 + Count(w, e)
    BY <1>1, <1>2, <1>3, <2>1
  <2> QED
    BY <2>2, <2>3
<1>5. \A L \in Seq(Seq(S)) : CountIn(L, e) \in Nat
  BY FlattenIs, CountIs DEF CountIn
<1> QED
  BY <1>2, <1>3, <1>4, <1>5

LEMMA CountInConcat ==
    ASSUME NEW S, NEW e, NEW L \in Seq(Seq(S)), NEW M \in Seq(Seq(S))
    PROVE  CountIn(L \o M, e) = CountIn(L, e) + CountIn(M, e)
<1> DEFINE T == {n \in Nat : \E N \in Seq(Seq(S)) : Len(N) = n /\ CountIn(L \o N, e) # CountIn(L, e) + CountIn(N, e)}
<1>1. ASSUME T # {} PROVE FALSE
  <2>1. PICK n \in T : \A k \in T : n <= k
    BY <1>1, Least
  <2>2. PICK N \in Seq(Seq(S)) : Len(N) = n /\ CountIn(L \o N, e) # CountIn(L, e) + CountIn(N, e)
    OBVIOUS
  <2>3. N # <<>>
    <3>1. L \o <<>> = L /\ CountIn(<<>>, e) = 0 /\ CountIn(L, e) \in Nat
      BY CountInIs, ConcatEmptySeq
    <3> HIDE DEF T
    <3> SUFFICES ASSUME N = <<>> PROVE FALSE
      OBVIOUS
    <3>2. CountIn(L \o N, e) = CountIn(L, e) /\ CountIn(N, e) = 0
      BY <3>1
    <3> QED
      BY <2>2, <3>1, <3>2
  <2>4. PICK P \in Seq(Seq(S)), w \in Seq(S) : N = Append(P, w) /\ Len(N) = Len(P) + 1 /\ Len(P) \in Nat
    BY <2>3, FrontAndLast
  <2>5. CountIn(L \o P, e) = CountIn(L, e) + CountIn(P, e)
    <3>1. Len(P) \notin T
      BY <2>1, <2>2, <2>4
    <3> QED
      BY <2>4, <3>1
  <2> HIDE DEF T
  <2>6. L \o N = Append(L \o P, w) /\ L \o P \in Seq(Seq(S))
    BY <2>4, ConcatAppend
  <2>7. /\ CountIn(L \o N, e) = CountIn(L \o P, e) + Count(w, e)
        /\ CountIn(N, e) = CountIn(P, e) + Count(w, e)
    BY <2>4, <2>6, CountInIs
  <2>8. CountIn(L, e) \in Nat /\ CountIn(P, e) \in Nat /\ Count(w, e) \in Nat
    BY CountInIs, CountIs
  <2> QED
    BY <2>2, <2>5, <2>7, <2>8
<1>2. T = {}
  BY <1>1
<1>3. Len(M) \in Nat
  BY LenProperties
<1> QED
  BY <1>2, <1>3

LEMMA CountAppend ==
    ASSUME NEW S, NEW s \in Seq(S), NEW w \in S, NEW e
    PROVE  Count(Append(s, w), e) = Count(s, e) + IF w = e THEN 1 ELSE 0
<1>1. Append(s, w) = s \o <<w>> /\ <<w>> \in Seq(S)
  OBVIOUS
<1>2. Count(s \o <<w>>, e) = Count(s, e) + Count(<<w>>, e)
  BY <1>1, CountConcat
<1> QED
  BY <1>1, <1>2, CountOne

\* Lists whose lists have an element equally often, one by one, have it equally often.
LEMMA SameCounts ==
    ASSUME NEW S, NEW e, NEW A \in Seq(Seq(Seq(S))), NEW B \in Seq(Seq(S)), Len(A) = Len(B),
           \A k \in 1 .. Len(A) : CountIn(A[k], e) = Count(B[k], e)
    PROVE  FlattenSeq(A) \in Seq(Seq(S)) /\ CountIn(FlattenSeq(A), e) = CountIn(B, e)
<1> DEFINE Agree(C, D) == Len(C) = Len(D) /\ \A k \in 1 .. Len(C) : CountIn(C[k], e) = Count(D[k], e)
           Differs(C, D) == Agree(C, D) /\ CountIn(FlattenSeq(C), e) # CountIn(D, e)
           T == {n \in Nat : \E C \in Seq(Seq(Seq(S))), D \in Seq(Seq(S)) : Len(C) = n /\ Differs(C, D)}
<1>1. ASSUME T # {} PROVE FALSE
  <2>1. PICK n \in T : \A k \in T : n <= k
    BY <1>1, Least
  <2>2. PICK C \in Seq(Seq(Seq(S))), D \in Seq(Seq(S)) : Len(C) = n /\ Differs(C, D)
    OBVIOUS
  <2> HIDE DEF T
  <2>3. C # <<>> /\ D # <<>>
    <3>1. ASSUME C = <<>> PROVE FALSE
      <4>1. Len(D) = 0
        BY <2>2, <3>1
      <4>2. D = <<>> /\ FlattenSeq(C) = <<>>
        BY <3>1, <4>1, EmptySeq DEF FlattenSeq
      <4> QED
        BY <2>2, <4>2
    <3>2. ASSUME D = <<>> PROVE FALSE
      <4>1. Len(C) = 0
        BY <2>2, <3>2
      <4>2. C = <<>>
        BY <4>1, EmptySeq
      <4> QED
        BY <3>1, <4>2
    <3> QED
      BY <3>1, <3>2
  <2>4. PICK P \in Seq(Seq(Seq(S))), c \in Seq(Seq(S)) : C = Append(P, c) /\ Len(C) = Len(P) + 1 /\ Len(P) \in Nat
    BY <2>3, FrontAndLast
  <2>5. PICK Q \in Seq(Seq(S)), w \in Seq(S) : D = Append(Q, w) /\ Len(D) = Len(Q) + 1 /\ Len(Q) \in Nat
    BY <2>3, FrontAndLast
  <2>6. Agree(P, Q) /\ CountIn(c, e) = Count(w, e)
    <3> DEFINE m == Len(P)
    <3>1. m \in Nat /\ Len(Q) = m /\ Len(C) = m + 1 /\ Len(D) = m + 1
      BY <2>2, <2>4, <2>5
    <3>2. /\ C[m + 1] = c /\ D[m + 1] = w
          /\ \A k \in 1 .. m : C[k] = P[k] /\ D[k] = Q[k]
      BY <2>4, <2>5, <3>1
    <3>3. m + 1 \in 1 .. m + 1 /\ \A k \in 1 .. m : k \in 1 .. m + 1
      BY <3>1
    <3>4. \A k \in 1 .. m + 1 : CountIn(C[k], e) = Count(D[k], e)
      BY <2>2, <3>1
    <3> HIDE DEF m
    <3>5. CountIn(C[m + 1], e) = Count(D[m + 1], e)
      BY <3>3, <3>4
    <3>6. \A k \in 1 .. m : CountIn(P[k], e) = Count(Q[k], e)
      BY <3>2, <3>3, <3>4
    <3> QED
      BY <3>1, <3>2, <3>5, <3>6 DEF m
  <2>7. CountIn(FlattenSeq(P), e) = CountIn(Q, e)
    <3>1. Len(P) \notin T
      BY <2>1, <2>2, <2>4
    <3> QED
      BY <2>4, <2>6, <3>1 DEF T
  <2>8. FlattenSeq(C) = FlattenSeq(P) \o c /\ FlattenSeq(P) \in Seq(Seq(S))
    BY <2>4, FlattenAppend, FlattenIs
  <2>9. CountIn(FlattenSeq(C), e) = CountIn(FlattenSeq(P), e) + CountIn(c, e)
    BY <2>8, CountInConcat
  <2>10. CountIn(D, e) = CountIn(Q, e) + Count(w, e)
    BY <2>5, CountInIs
  <2> QED
    BY <2>2, <2>6, <2>7, <2>9, <2>10
<1>2. Len(A) \in Nat /\ FlattenSeq(A) \in Seq(Seq(S))
  BY LenProperties, FlattenIs
<1>3. Agree(A, B)
  OBVIOUS
<1> HIDE DEF Agree
<1> QED
  BY <1>1, <1>2, <1>3

\* Each word a string of its own.
LEMMA Singles ==
    ASSUME NEW S, NEW e, NEW s \in Seq(S)
    PROVE  /\ [n \in DOMAIN s |-> <<s[n]>>] \in Seq(Seq(S))
           /\ CountIn([n \in DOMAIN s |-> <<s[n]>>], e) = Count(s, e)
<1> DEFINE Single(t) == [n \in DOMAIN t |-> <<t[n]>>]
           T == {n \in Nat : \E t \in Seq(S) : Len(t) = n /\ CountIn(Single(t), e) # Count(t, e)}
<1>0. ASSUME NEW t \in Seq(S)
      PROVE  Single(t) \in Seq(Seq(S)) /\ Len(Single(t)) = Len(t) /\ \A k \in 1 .. Len(t) : Single(t)[k] = <<t[k]>>
  <2>1. Len(t) \in Nat /\ DOMAIN t = 1 .. Len(t) /\ \A k \in 1 .. Len(t) : <<t[k]>> \in Seq(S)
    BY LenProperties, ElementOfSeq
  <2> QED
    BY <2>1
<1>1. ASSUME T # {} PROVE FALSE
  <2>1. PICK n \in T : \A k \in T : n <= k
    BY <1>1, Least
  <2>2. PICK t \in Seq(S) : Len(t) = n /\ CountIn(Single(t), e) # Count(t, e)
    OBVIOUS
  <2> HIDE DEF T
  <2>3. t # <<>>
    <3>1. ASSUME t = <<>> PROVE FALSE
      <4>1. Single(<<>>) = <<>>
        OBVIOUS
      <4> HIDE DEF Single
      <4> QED
        BY <2>2, <3>1, <4>1, CountInIs, CountEmpty
    <3> QED
      BY <3>1
  <2>4. PICK u \in Seq(S), w \in S : t = Append(u, w) /\ Len(t) = Len(u) + 1 /\ Len(u) \in Nat
    BY <2>3, FrontAndLast
  <2>5. CountIn(Single(u), e) = Count(u, e)
    <3>1. Len(u) \notin T
      BY <2>1, <2>2, <2>4
    <3> QED
      BY <2>4, <3>1 DEF T
  <2>6. Single(t) = Append(Single(u), <<w>>)
    <3> DEFINE m == Len(u)
               x == Single(t)
               y == Append(Single(u), <<w>>)
    <3>1. m \in Nat /\ Len(t) = m + 1 /\ t[m + 1] = w /\ (\A k \in 1 .. m : t[k] = u[k]) /\ <<w>> \in Seq(S)
      BY <2>4
    <3>2. x \in Seq(Seq(S)) /\ Len(x) = m + 1 /\ \A k \in 1 .. m + 1 : x[k] = <<t[k]>>
      BY <1>0, <3>1
    <3>3. Single(u) \in Seq(Seq(S)) /\ Len(Single(u)) = m /\ \A k \in 1 .. m : Single(u)[k] = <<u[k]>>
      BY <1>0
    <3> HIDE DEF Single, m, x
    <3>4. y \in Seq(Seq(S)) /\ Len(y) = m + 1 /\ y[m + 1] = <<w>> /\ \A k \in 1 .. m : y[k] = <<u[k]>>
      BY <3>1, <3>3
    <3> HIDE DEF y
    <3>5. \A k \in 1 .. m + 1 : x[k] = y[k]
      <4>1. \A k \in 1 .. m + 1 : k \in 1 .. m \/ k = m + 1
        BY <3>1
      <4> QED
        BY <3>1, <3>2, <3>4, <4>1
    <3>6. x = y
      BY <3>2, <3>4, <3>5, SeqEqual
    <3> QED
      BY <3>6 DEF x, y
  <2>7. Single(u) \in Seq(Seq(S)) /\ <<w>> \in Seq(S)
    BY <1>0, <2>4
  <2> HIDE DEF Single
  <2>8. CountIn(Single(t), e) = CountIn(Single(u), e) + Count(<<w>>, e)
    BY <2>6, <2>7, CountInIs
  <2>9. Count(t, e) = Count(u, e) + Count(<<w>>, e)
    BY <2>4, CountAppend, CountOne
  <2> QED
    BY <2>2, <2>5, <2>8, <2>9
<1>2. Len(s) \in Nat /\ Single(s) \in Seq(Seq(S))
  BY <1>0, LenProperties
<1> HIDE DEF Single
<1>3. CountIn(Single(s), e) = Count(s, e)
  BY <1>1, <1>2
<1> QED
  BY <1>2, <1>3 DEF Single

-----------------------------------------------------------------------------

\* A word is put behind those that it does not come before, in front of one that it does.
LEMMA InsertParts ==
    ASSUME NEW R, NEW L \in Seq(R), NEW w \in R
    PROVE  \E u, v \in Seq(R) :
             /\ u \o v = L /\ Insert(L, w) = Append(u, w) \o v
             /\ \A k \in 1 .. Len(u) : ~Before(w, L[k])
             /\ v # <<>> => Before(w, L[Len(u) + 1])
<1> DEFINE I == {k \in 1 .. Len(L) : Before(w, L[k])}
           n == IF I # {} THEN Min(I) ELSE 0
<1>1. /\ n = 0 => I = {}
      /\ n # 0 => n \in I /\ \A k \in I : n <= k
  <2>1. Len(L) \in Nat /\ I \subseteq Nat /\ 0 \notin I
    BY LenProperties
  <2>2. CASE I # {}
    <3> HIDE DEF I
    <3>1. PICK m \in I : \A k \in I : m <= k
      BY <2>1, <2>2, Least
    <3>2. Min(I) \in I /\ \A k \in I : Min(I) <= k
      BY <3>1 DEF Min
    <3> QED
      BY <2>1, <2>2, <3>2
  <2>3. CASE I = {}
    BY <2>1, <2>3
  <2> QED
    BY <2>2, <2>3
<1>2. Insert(L, w) = IF n = 0 THEN Append(L, w) ELSE InsertAt(L, n, w)
  BY DEF Insert, SelectInSeq
<1> HIDE DEF n
<1>3. CASE n = 0
  <2>1. Insert(L, w) = Append(L, w) /\ Append(L, w) \in Seq(R) /\ \A k \in 1 .. Len(L) : ~Before(w, L[k])
    <3>1. \A k \in 1 .. Len(L) : ~Before(w, L[k])
      BY <1>1, <1>3
    <3>2. Insert(L, w) = Append(L, w)
      BY <1>2, <1>3
    <3> QED
      BY <3>1, <3>2
  <2>2. L \o <<>> = L /\ Append(L, w) \o <<>> = Append(L, w) /\ <<>> \in Seq(R)
    BY <2>1, ConcatEmptySeq, EmptySeq
  <2> QED
    BY <2>1, <2>2
<1>4. CASE n # 0
  <2> DEFINE u == SubSeq(L, 1, n - 1)
             v == SubSeq(L, n, Len(L))
  <2>1. Len(L) \in Nat /\ n \in 1 .. Len(L) /\ \A k \in 1 .. Len(L) : L[k] \in R
    BY <1>1, <1>4, LenProperties, ElementOfSeq
  <2>2. u \in Seq(R) /\ v \in Seq(R) /\ Len(u) = n - 1
    <3>1. /\ 1 \in Int /\ n - 1 \in Int /\ n \in Int /\ Len(L) \in Int
          /\ \A k \in 1 .. n - 1 : L[k] \in R
          /\ \A k \in n .. Len(L) : L[k] \in R
      BY <2>1
    <3>2. /\ u \in Seq(R) /\ v \in Seq(R)
          /\ Len(u) = IF 1 <= n - 1 THEN n - 1 - 1 + 1 ELSE 0
      BY <3>1, SubSeqProperties
    <3>3. n \in Nat \ {0}
      BY <2>1
    <3>4. (IF 1 <= n - 1 THEN n - 1 - 1 + 1 ELSE 0) = n - 1
      BY <3>3
    <3> QED
      BY <3>2, <3>4
  <2>3. u \o v = L
    <3>1. /\ 1 \in 1 .. Len(L) + 1 /\ n - 1 \in 1 - 1 .. Len(L) /\ Len(L) \in n - 1 .. Len(L)
          /\ n - 1 + 1 = n
      BY <2>1
    <3>2. SubSeq(L, 1, n - 1) \o SubSeq(L, n - 1 + 1, Len(L)) = SubSeq(L, 1, Len(L))
      BY <3>1, ConcatAdjacentSubSeq
    <3> QED
      BY <3>1, <3>2, SubSeqFull
  <2>4. Insert(L, w) = Append(u, w) \o v
    <3>1. Insert(L, w) = u \o <<w>> \o v
      BY <1>2, <1>4 DEF InsertAt
    <3>2. u \o <<w>> = Append(u, w)
      <4> HIDE DEF u
      <4> QED
        BY <2>2
    <3> HIDE DEF u, v
    <3> QED
      BY <3>1, <3>2
  <2> HIDE DEF u, v
  <2>5. \A k \in 1 .. Len(u) : ~Before(w, L[k])
    <3>1. ASSUME NEW k \in 1 .. Len(u) PROVE k \in 1 .. Len(L) /\ k \notin I
      <4>1. k \in 1 .. Len(L) /\ ~(n <= k)
        BY <2>1, <2>2
      <4> QED
        BY <1>1, <1>4, <4>1
    <3> QED
      BY <3>1
  <2>6. Len(u) + 1 = n /\ Before(w, L[n])
    BY <1>1, <1>4, <2>1, <2>2
  <2> QED
    BY <2>2, <2>3, <2>4, <2>5, <2>6
<1> QED
  BY <1>3, <1>4

LEMMA InsertType ==
    ASSUME NEW R, NEW L \in Seq(R), NEW w \in R
    PROVE  Insert(L, w) \in Seq(R)
<1>1. PICK u, v \in Seq(R) :
          /\ u \o v = L /\ Insert(L, w) = Append(u, w) \o v
          /\ \A k \in 1 .. Len(u) : ~Before(w, L[k])
          /\ v # <<>> => Before(w, L[Len(u) + 1])
  BY InsertParts, Zenon
<1> QED
  BY <1>1

LEMMA InsertIs ==
    ASSUME NEW S, NEW e, NEW L \in Seq(Seq(S)), NEW w \in Seq(S)
    PROVE  /\ Insert(L, w) \in Seq(Seq(S))
           /\ CountIn(Insert(L, w), e) = CountIn(L, e) + Count(w, e)
<1>1. PICK u, v \in Seq(Seq(S)) :
          /\ u \o v = L /\ Insert(L, w) = Append(u, w) \o v
          /\ \A k \in 1 .. Len(u) : ~Before(w, L[k])
          /\ v # <<>> => Before(w, L[Len(u) + 1])
  BY InsertParts, Zenon
<1>2. Append(u, w) \in Seq(Seq(S)) /\ Append(u, w) \o v \in Seq(Seq(S))
  OBVIOUS
<1>3. CountIn(Append(u, w) \o v, e) = CountIn(Append(u, w), e) + CountIn(v, e)
  BY <1>2, CountInConcat
<1>4. CountIn(L, e) = CountIn(u, e) + CountIn(v, e)
  BY <1>1, CountInConcat
<1>5. CountIn(Append(u, w), e) = CountIn(u, e) + Count(w, e)
  BY CountInIs
<1>6. CountIn(u, e) \in Nat /\ CountIn(v, e) \in Nat /\ Count(w, e) \in Nat
  BY CountInIs, CountIs
<1> QED
  BY <1>1, <1>2, <1>3, <1>4, <1>5, <1>6

LEMMA FoldInserts ==
    ASSUME NEW R, NEW s \in Seq(R)
    PROVE  \E acc : /\ acc[0] = <<>>
                    /\ \A k \in 1 .. Len(s) : acc[k] = Insert(acc[k - 1], s[k])
                    /\ FoldLeft(Insert, <<>>, s) = acc[Len(s)]
<1> DEFINE n == Len(s)
           X == Seq(R)
           op == [x \in X \X (1 .. n) |-> Insert(x[1], s[x[2]])]
           Rec(g) == g = [P \in SUBSET (1 .. n) |-> IF P = {} THEN <<>> ELSE Insert(g[P \ {Max(P)}], s[Max(P)])]
<1>1. n \in Nat /\ DOMAIN s = 1 .. n /\ (\A k \in 1 .. n : s[k] \in R) /\ <<>> \in X
  BY LenProperties, ElementOfSeq, EmptySeq
<1>2. op \in [X \X (1 .. n) -> X] /\ \A u \in X, k \in 1 .. n : op[<<u, k>>] = Insert(u, s[k])
  BY <1>1, InsertType
<1>3. FoldLeft(Insert, <<>>, s) = (CHOOSE g : Rec(g))[1 .. n]
  BY <1>1 DEF FoldLeft, MapThenFoldSet
<1>4. \A P \in SUBSET (1 .. n) : P # {} => Max(P) \in 1 .. n
  BY <1>1, LastPosition
<1> HIDE DEF op, X
<1>5. PICK f : Folds(X, <<>>, n, op, f)
  BY <1>1, <1>2, FoldsExist
<1>6. Rec(f)
  <2>1. ASSUME NEW P \in SUBSET (1 .. n), P # {}
        PROVE  f[P] = Insert(f[P \ {Max(P)}], s[Max(P)])
    <3>1. P \ {Max(P)} \in SUBSET (1 .. n) /\ Max(P) \in 1 .. n
      BY <1>4, <2>1
    <3>2. f[P] = op[<<f[P \ {Max(P)}], Max(P)>>] /\ f[P \ {Max(P)}] \in X
      BY <1>5, <2>1, <3>1 DEF Folds
    <3> QED
      BY <1>2, <3>1, <3>2
  <2> QED
    BY <1>5, <2>1 DEF Folds
<1>7. PICK g : Rec(g) /\ FoldLeft(Insert, <<>>, s) = g[1 .. n]
  <2> HIDE DEF Rec
  <2> QED
    BY <1>3, <1>6
<1> DEFINE acc == [k \in 0 .. n |-> g[1 .. k]]
<1>8. acc[0] = <<>>
  <2>1. 1 .. 0 = {} /\ 1 .. 0 \in SUBSET (1 .. n) /\ acc[0] = g[1 .. 0]
    BY <1>1
  <2> QED
    BY <1>7, <2>1
<1>9. ASSUME NEW k \in 1 .. n
      PROVE  acc[k] = Insert(acc[k - 1], s[k])
  <2>1. /\ 1 .. k \in SUBSET (1 .. n) /\ 1 .. k # {} /\ (1 .. k) \ {k} = 1 .. k - 1
        /\ Max(1 .. k) = k
    BY <1>1, FirstPositions
  <2>3. acc[k] = g[1 .. k] /\ acc[k - 1] = g[1 .. k - 1]
    BY <1>1
  <2> HIDE DEF acc
  <2>4. g[1 .. k] = Insert(g[(1 .. k) \ {Max(1 .. k)}], s[Max(1 .. k)])
    BY <1>7, <2>1
  <2>5. g[1 .. k] = Insert(g[1 .. k - 1], s[k])
    BY <2>1, <2>4
  <2> QED
    BY <2>3, <2>5
<1>10. acc[n] = g[1 .. n]
  BY <1>1
<1> HIDE DEF acc
<1> QED
  BY <1>7, <1>8, <1>9, <1>10

LEMMA Sorted ==
    ASSUME NEW S, NEW s \in Seq(Seq(S)), NEW e
    PROVE  /\ FoldLeft(Insert, <<>>, s) \in Seq(Seq(S))
           /\ CountIn(FoldLeft(Insert, <<>>, s), e) = CountIn(s, e)
<1>1. PICK acc : /\ acc[0] = <<>>
                 /\ \A k \in 1 .. Len(s) : acc[k] = Insert(acc[k - 1], s[k])
                 /\ FoldLeft(Insert, <<>>, s) = acc[Len(s)]
  BY FoldInserts
<1> DEFINE n == Len(s)
           Good(k) == acc[k] \in Seq(Seq(S)) /\ CountIn(acc[k], e) = CountIn(SubSeq(s, 1, k), e)
           T == {k \in 0 .. n : ~Good(k)}
<1>2. n \in Nat /\ \A k \in 1 .. n : s[k] \in Seq(S)
  BY LenProperties, ElementOfSeq
<1>3. ASSUME T # {} PROVE FALSE
  <2>1. PICK m \in T : \A k \in T : m <= k
    <3>1. T \subseteq Nat
      OBVIOUS
    <3> HIDE DEF T
    <3> QED
      BY <1>3, <3>1, Least
  <2>2. Good(0)
    <3>1. SubSeq(s, 1, 0) = <<>>
      BY SubSeqEmpty
    <3> QED
      BY <1>1, <3>1, EmptySeq
  <2>3. m \in 1 .. n /\ Good(m - 1)
    <3>1. m \in 0 .. n /\ m # 0 /\ ~Good(m)
      BY <2>2
    <3>2. m \in 1 .. n /\ m - 1 \in 0 .. n
      BY <1>2, <3>1
    <3> HIDE DEF Good
    <3> QED
      BY <2>1, <3>2
  <2>4. acc[m] \in Seq(Seq(S)) /\ CountIn(acc[m], e) = CountIn(acc[m - 1], e) + Count(s[m], e)
    <3>1. acc[m] = Insert(acc[m - 1], s[m]) /\ acc[m - 1] \in Seq(Seq(S)) /\ s[m] \in Seq(S)
      BY <1>1, <1>2, <2>3
    <3> QED
      BY <3>1, InsertIs
  <2> DEFINE u == SubSeq(s, 1, m - 1)
  <2>5. u \in Seq(Seq(S))
    <3>1. 1 \in Int /\ m - 1 \in Int /\ \A k \in 1 .. m - 1 : s[k] \in Seq(S)
      BY <1>2, <2>3
    <3> QED
      BY <3>1, SubSeqProperties
  <2>6. SubSeq(s, 1, m) = u \o <<s[m]>>
    <3>1. 1 \in 1 .. Len(s) /\ m \in 1 .. Len(s)
      BY <1>2, <2>3
    <3> QED
      BY <3>1, SubSeqRecursiveSecond
  <2>7. CountIn(SubSeq(s, 1, m), e) = CountIn(u, e) + Count(s[m], e)
    <3>1. u \o <<s[m]>> = Append(u, s[m]) /\ s[m] \in Seq(S)
      BY <1>2, <2>3, <2>5
    <3> HIDE DEF u
    <3> QED
      BY <2>5, <2>6, <3>1, CountInIs
  <2>8. Good(m)
    BY <2>3, <2>4, <2>7
  <2> QED
    BY <2>8
<1>4. Good(n)
  BY <1>2, <1>3
<1>5. SubSeq(s, 1, n) = s
  BY SubSeqFull
<1> QED
  BY <1>1, <1>4, <1>5

-----------------------------------------------------------------------------

\* The words of a map, those of each map of an attribute.
WordsOf(map) == SetToSeq(map.args) \o map.keyless

WordLists(maps) == [n \in DOMAIN maps |-> WordsOf(maps[n])]

LEMMA MapWords ==
    ASSUME NEW map \in CmdlineMaps, NEW e
    PROVE  /\ SetToSeq(map.args) \in Seq(DOMAIN Key) /\ map.keyless \in Seq(DOMAIN Key)
           /\ WordsOf(map) \in Seq(DOMAIN Key)
           /\ Count(WordsOf(map), e) = Count(SetToSeq(map.args), e) + Count(map.keyless, e)
           /\ Count(WordsOf(map), e) = (IF e \in map.args THEN 1 ELSE 0) + Count(map.keyless, e)
<1> DEFINE K == DOMAIN Key
           s == SetToSeq(map.args)
<1>1. map.args \in SUBSET K /\ IsFiniteSet(map.args) /\ map.keyless \in Seq(K)
  <2>1. map.args \in SUBSET Keyed /\ IsFiniteSet(map.args) /\ map.keyless \in Seq(Keyless)
    BY DEF CmdlineMaps
  <2>2. Keyed \subseteq K /\ Keyless \subseteq K
    BY DEF Keyed, Keyless
  <2> QED
    BY <2>1, <2>2, SeqMonotonic
<1> HIDE DEF K, s
<1>2. s \in Seq(map.args) /\ Count(s, e) = IF e \in map.args THEN 1 ELSE 0
  BY <1>1, SetAsSeq DEF s
<1>3. s \in Seq(K)
  BY <1>1, <1>2, SeqMonotonic
<1>4. s \o map.keyless \in Seq(K) /\ Count(s \o map.keyless, e) = Count(s, e) + Count(map.keyless, e)
  BY <1>1, <1>3, ConcatProperties, CountConcat
<1> QED
  BY <1>1, <1>2, <1>3, <1>4 DEF WordsOf, K, s

LEMMA WordsAre ==
    ASSUME NEW maps \in Seq(CmdlineMaps), NEW e
    PROVE  /\ WordLists(maps) \in Seq(Seq(DOMAIN Key)) /\ Len(WordLists(maps)) = Len(maps)
           /\ \A k \in 1 .. Len(maps) : WordLists(maps)[k] = WordsOf(maps[k])
           /\ Words(maps) \in Seq(DOMAIN Key)
           /\ Count(Words(maps), e) = CountIn(WordLists(maps), e)
           /\ Count(Words(maps), e) \in Nat
<1>1. DOMAIN maps = 1 .. Len(maps) /\ Len(maps) \in Nat /\ \A k \in 1 .. Len(maps) : maps[k] \in CmdlineMaps
  BY LenProperties, ElementOfSeq
<1>2. \A k \in 1 .. Len(maps) : WordsOf(maps[k]) \in Seq(DOMAIN Key)
  BY <1>1, MapWords
<1>3. /\ WordLists(maps) \in Seq(Seq(DOMAIN Key)) /\ Len(WordLists(maps)) = Len(maps)
      /\ \A k \in 1 .. Len(maps) : WordLists(maps)[k] = WordsOf(maps[k])
  BY <1>1, <1>2 DEF WordLists
<1>4. Words(maps) = FlattenSeq(WordLists(maps))
  BY DEF Words, WordLists, WordsOf
<1>5. Words(maps) \in Seq(DOMAIN Key)
  BY <1>3, <1>4, FlattenIs
<1> QED
  BY <1>3, <1>4, <1>5, CountIs DEF CountIn

LEMMA WordsAppend ==
    ASSUME NEW maps \in Seq(CmdlineMaps), NEW map \in CmdlineMaps, NEW e
    PROVE  /\ Append(maps, map) \in Seq(CmdlineMaps)
           /\ Count(Words(Append(maps, map)), e) =
                 Count(Words(maps), e) + (IF e \in map.args THEN 1 ELSE 0) + Count(map.keyless, e)
<1> DEFINE n == Len(maps)
           more == Append(maps, map)
           x == WordLists(more)
           y == Append(WordLists(maps), WordsOf(map))
<1>1. /\ n \in Nat /\ more \in Seq(CmdlineMaps) /\ Len(more) = n + 1 /\ more[n + 1] = map
      /\ \A k \in 1 .. n : more[k] = maps[k]
  BY LenProperties
<1>2. WordLists(maps) \in Seq(Seq(DOMAIN Key)) /\ Len(WordLists(maps)) = n
      /\ \A k \in 1 .. n : WordLists(maps)[k] = WordsOf(maps[k])
  BY WordsAre
<1>3. WordsOf(map) \in Seq(DOMAIN Key)
  BY MapWords
<1> HIDE DEF more, n
<1>4. x \in Seq(Seq(DOMAIN Key)) /\ Len(x) = n + 1 /\ \A k \in 1 .. n + 1 : x[k] = WordsOf(more[k])
  BY <1>1, WordsAre
<1> HIDE DEF x
<1>5. /\ y \in Seq(Seq(DOMAIN Key)) /\ Len(y) = n + 1 /\ y[n + 1] = WordsOf(map)
      /\ \A k \in 1 .. n : y[k] = WordsOf(maps[k])
  BY <1>1, <1>2, <1>3
<1> HIDE DEF y
<1>6. x = y
  <2>1. \A k \in 1 .. n + 1 : k \in 1 .. n \/ k = n + 1
    BY <1>1
  <2>2. \A k \in 1 .. n + 1 : x[k] = y[k]
    BY <1>1, <1>4, <1>5, <2>1
  <2> QED
    BY <1>4, <1>5, <2>2, SeqEqual
<1>7. CountIn(y, e) = CountIn(WordLists(maps), e) + Count(WordsOf(map), e)
  BY <1>2, <1>3, CountInIs DEF y
<1>8. Count(Words(more), e) = CountIn(x, e)
  BY <1>1, WordsAre DEF x
<1>9. Count(Words(maps), e) = CountIn(WordLists(maps), e) /\ Count(Words(maps), e) \in Nat
  BY WordsAre
<1>10. Count(WordsOf(map), e) = (IF e \in map.args THEN 1 ELSE 0) + Count(map.keyless, e)
  BY MapWords
<1>11. Count(map.keyless, e) \in Nat
  BY MapWords, CountIs
<1> QED
  BY <1>1, <1>6, <1>7, <1>8, <1>9, <1>10, <1>11 DEF more

LEMMA StringsAre ==
    ASSUME NEW map \in CmdlineMaps, NEW e
    PROVE  StringsOf(map) \in Seq(Seq(DOMAIN Key)) /\ CountIn(StringsOf(map), e) = Count(WordsOf(map), e)
<1> DEFINE s == SetToSeq(map.args)
           singles == [n \in DOMAIN s |-> <<s[n]>>]
           last == IF map.keyless = <<>> THEN <<>> ELSE <<map.keyless>>
<1>1. s \in Seq(DOMAIN Key) /\ map.keyless \in Seq(DOMAIN Key) /\ Count(WordsOf(map), e) = Count(s, e) + Count(map.keyless, e)
  BY MapWords
<1>2. StringsOf(map) = singles \o last
  BY DEF StringsOf
<1> HIDE DEF s
<1>3. singles \in Seq(Seq(DOMAIN Key)) /\ CountIn(singles, e) = Count(s, e)
  BY <1>1, Singles
<1>4. last \in Seq(Seq(DOMAIN Key)) /\ CountIn(last, e) = Count(map.keyless, e)
  <2>1. CASE map.keyless = <<>>
    <3>1. CountIn(<<>>, e) = 0 /\ Count(<<>>, e) = 0
      BY CountInIs, CountEmpty
    <3> QED
      BY <2>1, <3>1
  <2>2. CASE map.keyless # <<>>
    <3>1. CountIn(<<map.keyless>>, e) = Count(map.keyless, e)
      BY <1>1, CountInIs
    <3> QED
      BY <1>1, <2>2, <3>1
  <2> QED
    BY <2>1, <2>2
<1> HIDE DEF singles, last
<1>5. CountIn(singles \o last, e) = CountIn(singles, e) + CountIn(last, e)
  BY <1>3, <1>4, CountInConcat
<1>6. singles \o last \in Seq(Seq(DOMAIN Key))
  BY <1>3, <1>4
<1> QED
  BY <1>1, <1>2, <1>3, <1>4, <1>5, <1>6

\* The command line has every word as often as the attribute.
LEMMA CmdlineIs ==
    ASSUME NEW maps \in Seq(CmdlineMaps), NEW e
    PROVE  CmdlineArgs(maps) \in Seq(DOMAIN Key) /\ Count(CmdlineArgs(maps), e) = Count(Words(maps), e)
<1> DEFINE A == [n \in DOMAIN maps |-> StringsOf(maps[n])]
           B == WordLists(maps)
           K == DOMAIN Key
<1>1. DOMAIN maps = 1 .. Len(maps) /\ Len(maps) \in Nat /\ \A k \in 1 .. Len(maps) : maps[k] \in CmdlineMaps
  BY LenProperties, ElementOfSeq
<1>2. \A k \in 1 .. Len(maps) : StringsOf(maps[k]) \in Seq(Seq(K)) /\ CountIn(StringsOf(maps[k]), e) = Count(WordsOf(maps[k]), e)
  BY <1>1, StringsAre
<1>3. A \in Seq(Seq(Seq(K))) /\ Len(A) = Len(maps) /\ \A k \in 1 .. Len(maps) : A[k] = StringsOf(maps[k])
  BY <1>1, <1>2
<1>4. /\ B \in Seq(Seq(K)) /\ Len(B) = Len(maps) /\ \A k \in 1 .. Len(maps) : B[k] = WordsOf(maps[k])
      /\ Count(Words(maps), e) = CountIn(B, e)
  BY WordsAre
<1>5. CmdlineArgs(maps) = FlattenSeq(FoldLeft(Insert, <<>>, FlattenSeq(A)))
  BY DEF CmdlineArgs
<1> HIDE DEF A, B, K
<1>6. FlattenSeq(A) \in Seq(Seq(K)) /\ CountIn(FlattenSeq(A), e) = CountIn(B, e)
  <2>1. Len(A) = Len(B) /\ \A k \in 1 .. Len(A) : CountIn(A[k], e) = Count(B[k], e)
    BY <1>2, <1>3, <1>4
  <2> QED
    BY <1>3, <1>4, <2>1, SameCounts
<1> DEFINE sorted == FoldLeft(Insert, <<>>, FlattenSeq(A))
<1>7. sorted \in Seq(Seq(K)) /\ CountIn(sorted, e) = CountIn(FlattenSeq(A), e)
  BY <1>6, Sorted
<1>8. CmdlineArgs(maps) = FlattenSeq(sorted)
  BY <1>5
<1> HIDE DEF sorted
<1>9. FlattenSeq(sorted) \in Seq(K)
  BY <1>7, FlattenIs
<1> QED
  BY <1>4, <1>6, <1>7, <1>8, <1>9 DEF CountIn, K

-----------------------------------------------------------------------------

NoSplit == [maps |-> <<>>, curr |-> {}, keyless |-> <<>>]

\* The maps of arguments with keys.
KeyedMaps == {map \in CmdlineMaps : map.keyless = <<>>}

Splits == {cl \in [maps : Seq(KeyedMaps), curr : SUBSET Keyed, keyless : Seq(Keyless)] :
              IsFiniteSet(cl.curr)}

\* How often a word occurs in what the loop of splitKernelCmdLine has.
Tally(cl, e) == Count(Words(cl.maps), e) + (IF e \in cl.curr THEN 1 ELSE 0) + Count(cl.keyless, e)

LEMMA NoSplitIs == NoSplit \in Splits /\ \A e : Tally(NoSplit, e) = 0
<1>1. <<>> \in Seq(KeyedMaps) /\ <<>> \in Seq(Keyless)
  BY EmptySeq
<1>2. NoSplit \in Splits
  BY <1>1, FS_EmptySet DEF NoSplit, Splits
<1>3. Words(<<>>) = <<>>
  <2>1. [n \in DOMAIN <<>> |-> SetToSeq(<<>>[n].args) \o <<>>[n].keyless] = <<>>
    OBVIOUS
  <2> QED
    BY <2>1 DEF Words, FlattenSeq
<1> QED
  BY <1>2, <1>3, CountEmpty DEF Tally, NoSplit

LEMMA SplitIs ==
    ASSUME NEW cl \in Splits, NEW arg \in DOMAIN Key
    PROVE  /\ SplitArg(cl, arg) \in Splits
           /\ \A e : Tally(SplitArg(cl, arg), e) = Tally(cl, e) + IF arg = e THEN 1 ELSE 0
<1> DEFINE next == SplitArg(cl, arg)
           map == Map(cl.curr, <<>>)
<1>1. /\ cl = [maps |-> cl.maps, curr |-> cl.curr, keyless |-> cl.keyless]
      /\ cl.maps \in Seq(KeyedMaps) /\ cl.curr \in SUBSET Keyed /\ IsFiniteSet(cl.curr)
      /\ cl.keyless \in Seq(Keyless)
  BY DEF Splits
<1>9. cl.maps \in Seq(CmdlineMaps) /\ cl.keyless \in Seq(DOMAIN Key)
  BY <1>1, SeqMonotonic DEF KeyedMaps, Keyless
<1>2. \A e : Count(Words(cl.maps), e) \in Nat /\ Count(cl.keyless, e) \in Nat /\ Count(<<>>, e) = 0
  BY <1>9, WordsAre, CountIs, CountEmpty
<1>3. map \in CmdlineMaps /\ map.args = cl.curr /\ map.keyless = <<>> /\ map \in KeyedMaps
  BY <1>1, EmptySeq DEF Map, CmdlineMaps, KeyedMaps
<1>4. IsFiniteSet({arg}) /\ IsFiniteSet(cl.curr \union {arg})
  BY <1>1, FS_Singleton, FS_AddElement
<1>0. Key[arg] # None => arg \in Keyed
  BY DEF Keyed
<1>5. CASE Key[arg] = None
  <2>1. next = [maps |-> cl.maps, curr |-> cl.curr, keyless |-> Append(cl.keyless, arg)]
    BY <1>1, <1>5 DEF SplitArg
  <2> HIDE DEF next
  <2>2. next \in Splits
    <3>1. arg \in Keyless
      BY <1>5 DEF Keyless
    <3> QED
      BY <1>1, <2>1, <3>1 DEF Splits
  <2>3. ASSUME NEW e
        PROVE  Tally(next, e) = Tally(cl, e) + IF arg = e THEN 1 ELSE 0
    <3>1. Count(Append(cl.keyless, arg), e) = Count(cl.keyless, e) + IF arg = e THEN 1 ELSE 0
      BY <1>9, CountAppend
    <3> QED
      BY <1>2, <2>1, <3>1 DEF Tally
  <2> QED
    BY <2>2, <2>3 DEF next
<1>6. CASE Key[arg] # None /\ \E other \in cl.curr : Key[other] = Key[arg]
  <2>1. next = [maps |-> Append(cl.maps, map), curr |-> {arg}, keyless |-> cl.keyless]
    BY <1>1, <1>6 DEF SplitArg
  <2> HIDE DEF next, map
  <2>2. Append(cl.maps, map) \in Seq(KeyedMaps)
    BY <1>1, <1>3
  <2>3. next \in Splits
    BY <1>0, <1>1, <1>4, <1>6, <2>1, <2>2 DEF Splits
  <2>4. ASSUME NEW e
        PROVE  Tally(next, e) = Tally(cl, e) + IF arg = e THEN 1 ELSE 0
    <3>1. Count(Words(Append(cl.maps, map)), e) =
            Count(Words(cl.maps), e) + (IF e \in map.args THEN 1 ELSE 0) + Count(map.keyless, e)
      BY <1>9, <1>3, WordsAppend
    <3>2. Count(map.keyless, e) = 0
      BY <1>2, <1>3
    <3> QED
      BY <1>2, <1>3, <2>1, <3>1, <3>2 DEF Tally
  <2> QED
    BY <2>3, <2>4 DEF next
<1>7. CASE Key[arg] # None /\ ~\E other \in cl.curr : Key[other] = Key[arg]
  <2>1. next = [maps |-> cl.maps, curr |-> cl.curr \union {arg}, keyless |-> cl.keyless]
    BY <1>1, <1>7 DEF SplitArg
  <2> HIDE DEF next
  <2>2. next \in Splits
    BY <1>0, <1>1, <1>4, <1>7, <2>1 DEF Splits
  <2>3. arg \notin cl.curr
    BY <1>7
  <2>4. ASSUME NEW e
        PROVE  Tally(next, e) = Tally(cl, e) + IF arg = e THEN 1 ELSE 0
    <3>1. (IF e \in cl.curr \union {arg} THEN 1 ELSE 0) = (IF e \in cl.curr THEN 1 ELSE 0) + IF arg = e THEN 1 ELSE 0
      BY <2>3
    <3> QED
      BY <1>2, <2>1, <3>1 DEF Tally
  <2> QED
    BY <2>2, <2>4 DEF next
<1> QED
  BY <1>5, <1>6, <1>7

LEMMA FoldSplits ==
    ASSUME NEW s \in Seq(DOMAIN Key)
    PROVE  \E acc : /\ acc[0] = NoSplit
                    /\ \A k \in 1 .. Len(s) : acc[k] = SplitArg(acc[k - 1], s[k])
                    /\ FoldLeft(SplitArg, NoSplit, s) = acc[Len(s)]
<1> DEFINE n == Len(s)
           X == Splits
           op == [x \in X \X (1 .. n) |-> SplitArg(x[1], s[x[2]])]
           Rec(g) == g = [P \in SUBSET (1 .. n) |-> IF P = {} THEN NoSplit ELSE SplitArg(g[P \ {Max(P)}], s[Max(P)])]
<1>1. n \in Nat /\ DOMAIN s = 1 .. n /\ (\A k \in 1 .. n : s[k] \in DOMAIN Key) /\ NoSplit \in X
  BY LenProperties, ElementOfSeq, NoSplitIs
<1>2. op \in [X \X (1 .. n) -> X] /\ \A u \in X, k \in 1 .. n : op[<<u, k>>] = SplitArg(u, s[k])
  BY <1>1, SplitIs
<1>3. FoldLeft(SplitArg, NoSplit, s) = (CHOOSE g : Rec(g))[1 .. n]
  BY <1>1 DEF FoldLeft, MapThenFoldSet
<1>4. \A P \in SUBSET (1 .. n) : P # {} => Max(P) \in 1 .. n
  BY <1>1, LastPosition
<1> HIDE DEF op, X
<1>5. PICK f : Folds(X, NoSplit, n, op, f)
  BY <1>1, <1>2, FoldsExist
<1>6. Rec(f)
  <2>1. ASSUME NEW P \in SUBSET (1 .. n), P # {}
        PROVE  f[P] = SplitArg(f[P \ {Max(P)}], s[Max(P)])
    <3>1. P \ {Max(P)} \in SUBSET (1 .. n) /\ Max(P) \in 1 .. n
      BY <1>4, <2>1
    <3>2. f[P] = op[<<f[P \ {Max(P)}], Max(P)>>] /\ f[P \ {Max(P)}] \in X
      BY <1>5, <2>1, <3>1 DEF Folds
    <3> QED
      BY <1>2, <3>1, <3>2
  <2> QED
    BY <1>5, <2>1 DEF Folds
<1>7. PICK g : Rec(g) /\ FoldLeft(SplitArg, NoSplit, s) = g[1 .. n]
  <2> HIDE DEF Rec
  <2> QED
    BY <1>3, <1>6
<1> DEFINE acc == [k \in 0 .. n |-> g[1 .. k]]
<1>8. acc[0] = NoSplit
  <2>1. 1 .. 0 = {} /\ 1 .. 0 \in SUBSET (1 .. n) /\ acc[0] = g[1 .. 0]
    BY <1>1
  <2> QED
    BY <1>7, <2>1
<1>9. ASSUME NEW k \in 1 .. n
      PROVE  acc[k] = SplitArg(acc[k - 1], s[k])
  <2>1. /\ 1 .. k \in SUBSET (1 .. n) /\ 1 .. k # {} /\ (1 .. k) \ {k} = 1 .. k - 1
        /\ Max(1 .. k) = k
    BY <1>1, FirstPositions
  <2>3. acc[k] = g[1 .. k] /\ acc[k - 1] = g[1 .. k - 1]
    BY <1>1
  <2> HIDE DEF acc
  <2>4. g[1 .. k] = SplitArg(g[(1 .. k) \ {Max(1 .. k)}], s[Max(1 .. k)])
    BY <1>7, <2>1
  <2>5. g[1 .. k] = SplitArg(g[1 .. k - 1], s[k])
    BY <2>1, <2>4
  <2> QED
    BY <2>3, <2>5
<1>10. acc[n] = g[1 .. n]
  BY <1>1
<1> HIDE DEF acc
<1> QED
  BY <1>7, <1>8, <1>9, <1>10


LEMMA SplitAll ==
    ASSUME NEW s \in Seq(DOMAIN Key)
    PROVE  LET cl == FoldLeft(SplitArg, NoSplit, s)
           IN  cl \in Splits /\ \A e : Tally(cl, e) = Count(s, e)
<1>1. PICK acc : /\ acc[0] = NoSplit
                 /\ \A k \in 1 .. Len(s) : acc[k] = SplitArg(acc[k - 1], s[k])
                 /\ FoldLeft(SplitArg, NoSplit, s) = acc[Len(s)]
  BY FoldSplits
<1> DEFINE n == Len(s)
           Good(k) == acc[k] \in Splits /\ \A e : Tally(acc[k], e) = Count(SubSeq(s, 1, k), e)
           T == {k \in 0 .. n : ~Good(k)}
<1>2. n \in Nat /\ \A k \in 1 .. n : s[k] \in DOMAIN Key
  BY LenProperties, ElementOfSeq
<1>3. ASSUME T # {} PROVE FALSE
  <2>1. PICK m \in T : \A k \in T : m <= k
    <3>1. T \subseteq Nat
      OBVIOUS
    <3> HIDE DEF T
    <3> QED
      BY <1>3, <3>1, Least
  <2>2. Good(0)
    <3>1. SubSeq(s, 1, 0) = <<>>
      BY SubSeqEmpty
    <3> QED
      BY <1>1, <3>1, CountEmpty, NoSplitIs
  <2>3. m \in 1 .. n /\ Good(m - 1)
    <3>1. m \in 0 .. n /\ m # 0 /\ ~Good(m)
      BY <2>2
    <3>2. m \in 1 .. n /\ m - 1 \in 0 .. n
      BY <1>2, <3>1
    <3> HIDE DEF Good
    <3> QED
      BY <2>1, <3>2
  <2>4. acc[m] \in Splits /\ \A e : Tally(acc[m], e) = Tally(acc[m - 1], e) + IF s[m] = e THEN 1 ELSE 0
    <3>1. acc[m] = SplitArg(acc[m - 1], s[m]) /\ acc[m - 1] \in Splits /\ s[m] \in DOMAIN Key
      BY <1>1, <1>2, <2>3
    <3> QED
      BY <3>1, SplitIs
  <2> DEFINE u == SubSeq(s, 1, m - 1)
  <2>5. u \in Seq(DOMAIN Key)
    <3>1. 1 \in Int /\ m - 1 \in Int /\ \A k \in 1 .. m - 1 : s[k] \in DOMAIN Key
      BY <1>2, <2>3
    <3> QED
      BY <3>1, SubSeqProperties
  <2>6. SubSeq(s, 1, m) = u \o <<s[m]>>
    <3>1. 1 \in 1 .. Len(s) /\ m \in 1 .. Len(s)
      BY <1>2, <2>3
    <3> QED
      BY <3>1, SubSeqRecursiveSecond
  <2>7. \A e : Count(SubSeq(s, 1, m), e) = Count(u, e) + IF s[m] = e THEN 1 ELSE 0
    <3> HIDE DEF u
    <3>0. s[m] \in DOMAIN Key
      BY <1>2, <2>3
    <3>1. u \o <<s[m]>> = Append(u, s[m]) /\ s[m] \in DOMAIN Key
      BY <2>5, <3>0
    <3>2. \A e : Count(Append(u, s[m]), e) = Count(u, e) + IF s[m] = e THEN 1 ELSE 0
      BY <2>5, <3>1, CountAppend
    <3>3. SubSeq(s, 1, m) = Append(u, s[m])
      BY <2>6, <3>1
    <3> QED
      BY <3>2, <3>3
  <2>8. Good(m)
    BY <2>3, <2>4, <2>7
  <2> QED
    BY <2>8
<1>4. Good(n)
  BY <1>2, <1>3
<1>5. SubSeq(s, 1, n) = s
  BY SubSeqFull
<1> QED
  BY <1>1, <1>4, <1>5

\* The read has every word as often as the command line.
LEMMA SplitKernelCmdLineIs ==
    ASSUME NEW s \in Seq(DOMAIN Key)
    PROVE  /\ splitKernelCmdLine(s) \in Seq(CmdlineMaps)
           /\ \A e : Count(Words(splitKernelCmdLine(s)), e) = Count(s, e)
<1> DEFINE cl == FoldLeft(SplitArg, NoSplit, s)
           maps == cl.maps \o (IF cl.curr # {} THEN <<Map(cl.curr, <<>>)>> ELSE <<>>)
<1>1. cl \in Splits /\ \A e : Tally(cl, e) = Count(s, e)
  BY SplitAll
<1>2. splitKernelCmdLine(s) = maps \o (IF cl.keyless # <<>> THEN <<Map({}, cl.keyless)>> ELSE <<>>)
  BY DEF splitKernelCmdLine, NoSplit
<1> HIDE DEF cl
<1>3. /\ cl.maps \in Seq(CmdlineMaps) /\ cl.curr \in SUBSET Keyed /\ IsFiniteSet(cl.curr)
      /\ cl.keyless \in Seq(Keyless)
  BY <1>1, SeqMonotonic DEF Splits, KeyedMaps
<1>4. \A e : Count(Words(cl.maps), e) \in Nat /\ Count(cl.keyless, e) \in Nat /\ Count(<<>>, e) = 0
  BY <1>3, WordsAre, CountIs, CountEmpty
<1>5. /\ maps \in Seq(CmdlineMaps)
      /\ \A e : Count(Words(maps), e) = Count(Words(cl.maps), e) + IF e \in cl.curr THEN 1 ELSE 0
  <2> DEFINE map == Map(cl.curr, <<>>)
  <2>1. map \in CmdlineMaps /\ map.args = cl.curr /\ map.keyless = <<>>
    BY <1>3, EmptySeq DEF Map, CmdlineMaps
  <2>2. CASE cl.curr # {}
    <3>1. maps = Append(cl.maps, map)
      <4>1. maps = cl.maps \o <<map>>
        BY <2>2
      <4> HIDE DEF maps, map
      <4> QED
        BY <1>3, <2>1, <4>1
    <3> HIDE DEF maps, map
    <3>2. maps \in Seq(CmdlineMaps)
      BY <1>3, <2>1, <3>1
    <3>3. ASSUME NEW e
          PROVE  Count(Words(maps), e) = Count(Words(cl.maps), e) + IF e \in cl.curr THEN 1 ELSE 0
      <4>1. Count(Words(Append(cl.maps, map)), e) =
              Count(Words(cl.maps), e) + (IF e \in map.args THEN 1 ELSE 0) + Count(map.keyless, e)
        BY <1>3, <2>1, WordsAppend
      <4>2. Count(map.keyless, e) = 0
        BY <1>4, <2>1
      <4> QED
        BY <1>4, <2>1, <3>1, <4>1, <4>2
    <3> QED
      BY <3>2, <3>3
  <2>3. CASE cl.curr = {}
    <3>1. maps = cl.maps
      BY <1>3, <2>3, ConcatEmptySeq
    <3> HIDE DEF maps
    <3> QED
      BY <1>3, <1>4, <2>3, <3>1
  <2> QED
    BY <2>2, <2>3
<1> HIDE DEF maps
<1>6. \A e : Count(Words(maps), e) + Count(cl.keyless, e) = Count(s, e) /\ Count(Words(maps), e) \in Nat
  BY <1>1, <1>4, <1>5, WordsAre DEF Tally
<1>7. CASE cl.keyless # <<>>
  <2> DEFINE map == Map({}, cl.keyless)
  <2>1. map \in CmdlineMaps /\ map.args = {} /\ map.keyless = cl.keyless
    BY <1>3, FS_EmptySet DEF Map, CmdlineMaps
  <2>2. splitKernelCmdLine(s) = maps \o <<map>>
    BY <1>2, <1>7
  <2> HIDE DEF map
  <2>3. maps \o <<map>> = Append(maps, map)
    BY <1>5, <2>1
  <2>4. Append(maps, map) \in Seq(CmdlineMaps)
    BY <1>5, <2>1
  <2>5. ASSUME NEW e
        PROVE  Count(Words(Append(maps, map)), e) = Count(s, e)
    <3>1. Count(Words(Append(maps, map)), e) =
            Count(Words(maps), e) + (IF e \in map.args THEN 1 ELSE 0) + Count(map.keyless, e)
      BY <1>5, <2>1, WordsAppend
    <3> QED
      BY <1>6, <2>1, <3>1
  <2> QED
    BY <2>2, <2>3, <2>4, <2>5
<1>8. CASE cl.keyless = <<>>
  <2>1. splitKernelCmdLine(s) = maps
    BY <1>2, <1>5, <1>8, ConcatEmptySeq
  <2>2. \A e : Count(Words(maps), e) = Count(s, e)
    BY <1>4, <1>6, <1>8
  <2> QED
    BY <1>5, <2>1, <2>2
<1> QED
  BY <1>7, <1>8

-----------------------------------------------------------------------------

\* A set that holds the empty sequence, and with each sequence those that are longer by
\* one, holds all.
LEMMA AllSequences ==
    ASSUME NEW S, NEW G, <<>> \in G, \A s \in Seq(S), w \in S : s \in G => Append(s, w) \in G
    PROVE  Seq(S) \subseteq G
<1> DEFINE T == {n \in Nat : \E s \in Seq(S) : Len(s) = n /\ s \notin G}
<1>1. ASSUME T # {} PROVE FALSE
  <2>1. PICK n \in T : \A k \in T : n <= k
    BY <1>1, Least
  <2>2. PICK s \in Seq(S) : Len(s) = n /\ s \notin G
    OBVIOUS
  <2>3. s # <<>>
    BY <2>2
  <2> HIDE DEF T
  <2>4. PICK u \in Seq(S), w \in S : s = Append(u, w) /\ Len(s) = Len(u) + 1 /\ Len(u) \in Nat
    BY <2>3, FrontAndLast
  <2>5. Len(u) \notin T
    BY <2>1, <2>2, <2>4
  <2>6. u \in G
    BY <2>4, <2>5 DEF T
  <2> QED
    BY <2>2, <2>4, <2>6
<1> QED
  BY <1>1, LenProperties

\* What concatenation does to the sequences over one set.
Associates(S) == \A s, t, u \in Seq(S) : (s \o t) \o u = s \o (t \o u)
Concatenates(S) ==
    \A s, t \in Seq(S) : /\ Len(s \o t) = Len(s) + Len(t)
                         /\ \A k \in 1 .. Len(s) + Len(t) :
                              (s \o t)[k] = IF k <= Len(s) THEN s[k] ELSE t[k - Len(s)]

LEMMA ConcatOver ==
    ASSUME NEW S
    PROVE  Associates(S) /\ Concatenates(S)
<1>1. Associates(S)
  BY ConcatAssociative DEF Associates
<1>2. Concatenates(S)
  BY ConcatProperties DEF Concatenates
<1> QED
  BY <1>1, <1>2

LEMMA FlattenConcat ==
    ASSUME NEW S, NEW L \in Seq(Seq(S)), NEW M \in Seq(Seq(S))
    PROVE  FlattenSeq(L \o M) = FlattenSeq(L) \o FlattenSeq(M)
<1> DEFINE G == {N \in Seq(Seq(S)) : FlattenSeq(L \o N) = FlattenSeq(L) \o FlattenSeq(N)}
<1>1. <<>> \in G
  <2>1. L \o <<>> = L /\ FlattenSeq(<<>>) = <<>> /\ FlattenSeq(L) \in Seq(S) /\ <<>> \in Seq(Seq(S))
    BY EmptySeq, ConcatEmptySeq, FlattenIs DEF FlattenSeq
  <2>2. FlattenSeq(L) \o <<>> = FlattenSeq(L)
    BY <2>1, ConcatEmptySeq
  <2> QED
    BY <2>1, <2>2
<1>2. ASSUME NEW N \in Seq(Seq(S)), NEW w \in Seq(S), N \in G
      PROVE  Append(N, w) \in G
  <2>1. L \o Append(N, w) = Append(L \o N, w) /\ L \o N \in Seq(Seq(S)) /\ Append(N, w) \in Seq(Seq(S))
    <3> DEFINE W == Seq(S)
    <3>1. L \in Seq(W) /\ N \in Seq(W) /\ w \in W
      OBVIOUS
    <3>2. Append(N, w) \in Seq(W)
      OBVIOUS
    <3> HIDE DEF W
    <3>3. \A s, t \in Seq(W) : \A e \in W : s \o t \in Seq(W) /\ s \o Append(t, e) = Append(s \o t, e)
      BY ConcatAppend
    <3>4. L \o N \in Seq(W) /\ L \o Append(N, w) = Append(L \o N, w)
      BY <3>1, <3>3
    <3> QED
      BY <3>2, <3>4 DEF W
  <2>2. /\ FlattenSeq(Append(L \o N, w)) = FlattenSeq(L \o N) \o w
        /\ FlattenSeq(Append(N, w)) = FlattenSeq(N) \o w
    BY <2>1, FlattenAppend
  <2>3. (FlattenSeq(L) \o FlattenSeq(N)) \o w = FlattenSeq(L) \o (FlattenSeq(N) \o w)
    <3> DEFINE x == FlattenSeq(L)
               y == FlattenSeq(N)
    <3>1. x \in Seq(S) /\ y \in Seq(S)
      BY FlattenIs
    <3> HIDE DEF x, y
    <3>2. Associates(S)
      BY ConcatOver, Zenon
    <3>3. (x \o y) \o w = x \o (y \o w)
      BY <3>1, <3>2 DEF Associates
    <3> QED
      BY <3>3 DEF x, y
  <2> QED
    BY <1>2, <2>1, <2>2, <2>3
<1> HIDE DEF G
<1>3. Seq(Seq(S)) \subseteq G
  BY <1>1, <1>2, AllSequences
<1> QED
  BY <1>3 DEF G

\* The elements of a sequence that are in P, in their order.
Part(s, P) == FlattenSeq([n \in DOMAIN s |-> IF s[n] \in P THEN <<s[n]>> ELSE <<>>])

LEMMA PartIs ==
    ASSUME NEW S, NEW P
    PROVE  /\ Part(<<>>, P) = <<>>
           /\ \A s \in Seq(S) : Part(s, P) \in Seq(S) /\ Part(s, P) \in Seq(P)
           /\ \A s \in Seq(S), w \in S : Part(Append(s, w), P) = IF w \in P THEN Append(Part(s, P), w) ELSE Part(s, P)
<1> DEFINE Pieces(s) == [n \in DOMAIN s |-> IF s[n] \in P THEN <<s[n]>> ELSE <<>>]
           R == S \intersect P
<1>1. ASSUME NEW s \in Seq(S)
      PROVE  /\ Pieces(s) \in Seq(Seq(R)) /\ Len(Pieces(s)) = Len(s)
             /\ \A k \in 1 .. Len(s) : Pieces(s)[k] = IF s[k] \in P THEN <<s[k]>> ELSE <<>>
  <2>1. Len(s) \in Nat /\ DOMAIN s = 1 .. Len(s) /\ \A k \in 1 .. Len(s) : s[k] \in S
    BY LenProperties, ElementOfSeq
  <2>2. \A k \in 1 .. Len(s) : (IF s[k] \in P THEN <<s[k]>> ELSE <<>>) \in Seq(R)
    <3>1. ASSUME NEW k \in 1 .. Len(s), s[k] \in P PROVE <<s[k]>> \in Seq(R)
      <4>1. s[k] \in R
        BY <2>1, <3>1
      <4> HIDE DEF R
      <4> QED
        BY <4>1
    <3>2. <<>> \in Seq(R)
      BY EmptySeq
    <3> QED
      BY <3>1, <3>2
  <2> HIDE DEF R
  <2> QED
    BY <2>1, <2>2
<1>2. Part(<<>>, P) = <<>>
  <2>1. Pieces(<<>>) = <<>>
    OBVIOUS
  <2> QED
    BY <2>1 DEF Part, FlattenSeq
<1>3. \A s \in Seq(S) : Part(s, P) \in Seq(R)
  BY <1>1, FlattenIs DEF Part
<1>4. ASSUME NEW s \in Seq(S)
      PROVE  Part(s, P) \in Seq(S) /\ Part(s, P) \in Seq(P)
  BY <1>3, SeqMonotonic
<1>5. ASSUME NEW s \in Seq(S), NEW w \in S
      PROVE  Part(Append(s, w), P) = IF w \in P THEN Append(Part(s, P), w) ELSE Part(s, P)
  <2> DEFINE m == Len(s)
             u == Append(s, w)
             e == IF w \in P THEN <<w>> ELSE <<>>
             x == Pieces(u)
             y == Append(Pieces(s), e)
  <2>1. m \in Nat /\ u \in Seq(S) /\ Len(u) = m + 1 /\ u[m + 1] = w /\ \A k \in 1 .. m : u[k] = s[k]
    BY LenProperties
  <2>2. e \in Seq(R)
    <3>1. ASSUME w \in P PROVE <<w>> \in Seq(R)
      <4>1. w \in R
        BY <3>1
      <4> HIDE DEF R
      <4> QED
        BY <4>1
    <3>2. <<>> \in Seq(R)
      BY EmptySeq
    <3> QED
      BY <3>1, <3>2
  <2>3. /\ Pieces(s) \in Seq(Seq(R)) /\ Len(Pieces(s)) = m
        /\ \A k \in 1 .. m : Pieces(s)[k] = IF s[k] \in P THEN <<s[k]>> ELSE <<>>
    BY <1>1
  <2> HIDE DEF u, m
  <2>4. /\ x \in Seq(Seq(R)) /\ Len(x) = m + 1
        /\ \A k \in 1 .. m + 1 : x[k] = IF u[k] \in P THEN <<u[k]>> ELSE <<>>
    BY <1>1, <2>1
  <2> HIDE DEF x, Pieces, R
  <2>5. y \in Seq(Seq(R)) /\ Len(y) = m + 1 /\ y[m + 1] = e /\ \A k \in 1 .. m : y[k] = Pieces(s)[k]
    <3> HIDE DEF e
    <3> QED
      BY <2>1, <2>2, <2>3
  <2> HIDE DEF y
  <2>6. \A k \in 1 .. m + 1 : x[k] = y[k]
    <3>1. \A k \in 1 .. m + 1 : k \in 1 .. m \/ k = m + 1
      BY <2>1
    <3>2. ASSUME NEW k \in 1 .. m PROVE x[k] = y[k]
      <4>1. k \in 1 .. m + 1 /\ u[k] = s[k]
        BY <2>1
      <4> QED
        BY <2>3, <2>4, <2>5, <4>1
    <3>3. x[m + 1] = y[m + 1]
      <4>1. m + 1 \in 1 .. m + 1
        BY <2>1
      <4> QED
        BY <2>1, <2>4, <2>5, <4>1
    <3> QED
      BY <3>1, <3>2, <3>3
  <2>7. x = y
    BY <2>4, <2>5, <2>6, SeqEqual
  <2>8. FlattenSeq(y) = FlattenSeq(Pieces(s)) \o e
    <3> HIDE DEF e
    <3> QED
      BY <2>2, <2>3, FlattenAppend DEF y
  <2>9. Part(u, P) = Part(s, P) \o e
    BY <2>7, <2>8 DEF Part, x, Pieces
  <2>10. Part(s, P) \in Seq(S)
    BY <1>4
  <2>11. Part(s, P) \o <<w>> = Append(Part(s, P), w) /\ Part(s, P) \o <<>> = Part(s, P)
    BY <2>10, ConcatEmptySeq
  <2> QED
    BY <2>9, <2>11 DEF u
<1> QED
  BY <1>2, <1>4, <1>5

LEMMA PartType ==
    ASSUME NEW S, NEW P, NEW s \in Seq(S)
    PROVE  Part(s, P) \in Seq(S) /\ Part(s, P) \in Seq(P)
  BY PartIs

LEMMA PartAppend ==
    ASSUME NEW S, NEW P, NEW s \in Seq(S), NEW w \in S
    PROVE  Part(Append(s, w), P) = IF w \in P THEN Append(Part(s, P), w) ELSE Part(s, P)
<1>1. \A u \in Seq(S), v \in S :
        Part(Append(u, v), P) = IF v \in P THEN Append(Part(u, P), v) ELSE Part(u, P)
  BY PartIs
<1> QED
  BY <1>1

LEMMA PartConcat ==
    ASSUME NEW S, NEW P, NEW s \in Seq(S), NEW t \in Seq(S)
    PROVE  Part(s \o t, P) = Part(s, P) \o Part(t, P)
<1> DEFINE G == {u \in Seq(S) : Part(s \o u, P) = Part(s, P) \o Part(u, P)}
<1>1. <<>> \in G
  <2>1. s \o <<>> = s /\ Part(<<>>, P) = <<>> /\ Part(s, P) \in Seq(S) /\ <<>> \in Seq(S)
    BY PartIs, EmptySeq, ConcatEmptySeq
  <2>2. Part(s, P) \o <<>> = Part(s, P)
    BY <2>1, ConcatEmptySeq
  <2> QED
    BY <2>1, <2>2
<1>2. ASSUME NEW u \in Seq(S), NEW w \in S, u \in G
      PROVE  Append(u, w) \in G
  <2>1. s \o Append(u, w) = Append(s \o u, w) /\ s \o u \in Seq(S) /\ Append(u, w) \in Seq(S)
    BY ConcatAppend
  <2>2. /\ Part(Append(s \o u, w), P) = IF w \in P THEN Append(Part(s \o u, P), w) ELSE Part(s \o u, P)
        /\ Part(Append(u, w), P) = IF w \in P THEN Append(Part(u, P), w) ELSE Part(u, P)
        /\ Part(s, P) \in Seq(S) /\ Part(u, P) \in Seq(S)
    <3>1. Part(Append(s \o u, w), P) = IF w \in P THEN Append(Part(s \o u, P), w) ELSE Part(s \o u, P)
      <4> DEFINE v == s \o u
      <4>1. v \in Seq(S)
        BY <2>1
      <4> HIDE DEF v
      <4>2. Part(Append(v, w), P) = IF w \in P THEN Append(Part(v, P), w) ELSE Part(v, P)
        BY <4>1, PartAppend
      <4> QED
        BY <4>2 DEF v
    <3>2. Part(Append(u, w), P) = IF w \in P THEN Append(Part(u, P), w) ELSE Part(u, P)
      BY PartAppend
    <3>3. Part(s, P) \in Seq(S) /\ Part(u, P) \in Seq(S)
      BY PartType
    <3> QED
      BY <3>1, <3>2, <3>3
  <2>3. Part(s, P) \o Append(Part(u, P), w) = Append(Part(s, P) \o Part(u, P), w)
    BY <2>2, ConcatAppend
  <2> QED
    BY <1>2, <2>1, <2>2, <2>3
<1> HIDE DEF G
<1>3. Seq(S) \subseteq G
  BY <1>1, <1>2, AllSequences
<1> QED
  BY <1>3 DEF G

LEMMA PartAll ==
    ASSUME NEW S, NEW P, NEW s \in Seq(S)
    PROVE  /\ S \subseteq P => Part(s, P) = s
           /\ S \intersect P = {} => Part(s, P) = <<>>
<1> DEFINE G == {u \in Seq(S) : (S \subseteq P => Part(u, P) = u) /\ (S \intersect P = {} => Part(u, P) = <<>>)}
<1>1. <<>> \in G
  BY PartIs, EmptySeq
<1>2. ASSUME NEW u \in Seq(S), NEW w \in S, u \in G
      PROVE  Append(u, w) \in G
  <2>1. Part(Append(u, w), P) = IF w \in P THEN Append(Part(u, P), w) ELSE Part(u, P)
    BY PartAppend
  <2>2. Append(u, w) \in Seq(S)
    OBVIOUS
  <2> QED
    BY <1>2, <2>1, <2>2
<1> HIDE DEF G
<1>3. Seq(S) \subseteq G
  BY <1>1, <1>2, AllSequences
<1> QED
  BY <1>3 DEF G

LEMMA PartCount ==
    ASSUME NEW S, NEW P, NEW s \in Seq(S), NEW e
    PROVE  Count(Part(s, P), e) = IF e \in P THEN Count(s, e) ELSE 0
<1> DEFINE G == {u \in Seq(S) : Count(Part(u, P), e) = IF e \in P THEN Count(u, e) ELSE 0}
<1>1. <<>> \in G
  BY PartIs, EmptySeq, CountEmpty
<1>2. ASSUME NEW u \in Seq(S), NEW w \in S, u \in G
      PROVE  Append(u, w) \in G
  <2>1. /\ Part(Append(u, w), P) = IF w \in P THEN Append(Part(u, P), w) ELSE Part(u, P)
        /\ Part(u, P) \in Seq(S) /\ Append(u, w) \in Seq(S)
    BY PartType, PartAppend
  <2>2. /\ Count(Append(u, w), e) = Count(u, e) + IF w = e THEN 1 ELSE 0
        /\ Count(Append(Part(u, P), w), e) = Count(Part(u, P), e) + IF w = e THEN 1 ELSE 0
    BY <2>1, CountAppend
  <2>3. Count(u, e) \in Nat
    BY CountIs
  <2>4. Count(Part(u, P), e) = IF e \in P THEN Count(u, e) ELSE 0
    BY <1>2
  <2> HIDE DEF G
  <2>5. Count(Part(Append(u, w), P), e) = IF e \in P THEN Count(Append(u, w), e) ELSE 0
    BY <2>1, <2>2, <2>3, <2>4
  <2> QED
    BY <2>1, <2>5 DEF G
<1> HIDE DEF G
<1>3. Seq(S) \subseteq G
  BY <1>1, <1>2, AllSequences
<1> QED
  BY <1>3 DEF G

-----------------------------------------------------------------------------

LEMMA BeforeOrder ==
    ASSUME NEW s \in Seq(DOMAIN Key), NEW t \in Seq(DOMAIN Key), NEW u \in Seq(DOMAIN Key)
    PROVE  /\ ~Before(s, s)
           /\ Before(s, t) /\ Before(t, u) => Before(s, u)
           /\ Before(s, t) => ~Before(t, s)
<1>1. ASSUME NEW x \in Seq(DOMAIN Key)
      PROVE  /\ DOMAIN x = 1 .. Len(x) /\ Len(x) \in Nat
             /\ \A k \in 1 .. Len(x) : Rank[x[k]] \in Int
  BY LenProperties, ElementOfSeq, RankAssumption
<1>2. ASSUME NEW x \in Seq(DOMAIN Key)
      PROVE  ~Before(x, x)
  BY <1>1 DEF Before
<1>3. ASSUME NEW x \in Seq(DOMAIN Key), NEW y \in Seq(DOMAIN Key), NEW z \in Seq(DOMAIN Key),
             Before(x, y), Before(y, z)
      PROVE  Before(x, z)
  <2>1. PICK m \in DOMAIN y : /\ \A k \in 1 .. m - 1 : k <= Len(x) /\ x[k] = y[k]
                              /\ m = Len(x) + 1 \/ (m <= Len(x) /\ Rank[x[m]] < Rank[y[m]])
    BY <1>3 DEF Before
  <2>2. PICK n \in DOMAIN z : /\ \A k \in 1 .. n - 1 : k <= Len(y) /\ y[k] = z[k]
                              /\ n = Len(y) + 1 \/ (n <= Len(y) /\ Rank[y[n]] < Rank[z[n]])
    BY <1>3 DEF Before
  <2>3. /\ m \in 1 .. Len(y) /\ n \in 1 .. Len(z)
        /\ Len(x) \in Nat /\ Len(y) \in Nat /\ Len(z) \in Nat
        /\ DOMAIN z = 1 .. Len(z)
    BY <1>1, <2>1, <2>2
  <2>4. CASE m < n
    <3>1. m \in 1 .. n - 1 /\ m \in DOMAIN z /\ \A k \in 1 .. m - 1 : k \in 1 .. n - 1
      BY <2>3, <2>4
    <3>2. y[m] = z[m] /\ \A k \in 1 .. m - 1 : k <= Len(x) /\ x[k] = z[k]
      BY <2>1, <2>2, <3>1
    <3>3. m = Len(x) + 1 \/ (m <= Len(x) /\ Rank[x[m]] < Rank[z[m]])
      BY <2>1, <3>2
    <3> QED
      BY <3>1, <3>2, <3>3 DEF Before
  <2>5. CASE m > n
    <3>1. n \in 1 .. m - 1 /\ n \in DOMAIN z /\ \A k \in 1 .. n - 1 : k \in 1 .. m - 1
      BY <2>3, <2>5
    <3>2. n <= Len(x) /\ x[n] = y[n] /\ \A k \in 1 .. n - 1 : k <= Len(x) /\ x[k] = z[k]
      BY <2>1, <2>2, <3>1
    <3>3. n <= Len(y) /\ n # Len(y) + 1
      BY <2>3, <2>5
    <3>4. n <= Len(x) /\ Rank[x[n]] < Rank[z[n]]
      BY <2>2, <3>2, <3>3
    <3> QED
      BY <3>1, <3>2, <3>4 DEF Before
  <2>6. CASE m = n
    <3>1. n \in DOMAIN z /\ n # Len(y) + 1 /\ n <= Len(y)
      BY <2>3, <2>6
    <3>2. \A k \in 1 .. n - 1 : k <= Len(x) /\ x[k] = z[k]
      BY <2>1, <2>2, <2>6
    <3>3. Rank[y[n]] < Rank[z[n]]
      BY <2>2, <3>1
    <3>4. n = Len(x) + 1 \/ (n <= Len(x) /\ Rank[x[n]] < Rank[z[n]])
      <4>1. CASE n = Len(x) + 1
        BY <4>1
      <4>2. CASE n <= Len(x)
        <5>1. n \in 1 .. Len(x) /\ n \in 1 .. Len(y) /\ n \in 1 .. Len(z)
          BY <2>3, <3>1, <4>2
        <5>2. Rank[x[n]] \in Int /\ Rank[y[n]] \in Int /\ Rank[z[n]] \in Int
          BY <1>1, <5>1
        <5>3. Rank[x[n]] < Rank[y[n]]
          BY <2>1, <2>3, <2>6, <4>2
        <5> QED
          BY <3>3, <4>2, <5>2, <5>3
      <4> QED
        BY <2>1, <2>6, <4>1, <4>2
    <3> QED
      BY <3>1, <3>2, <3>4 DEF Before
  <2> QED
    BY <2>3, <2>4, <2>5, <2>6
<1> QED
  BY <1>2, <1>3

-----------------------------------------------------------------------------

\* What the loop of splitKernelCmdLine has at the end.
SplitOf(s) == FoldLeft(SplitArg, NoSplit, s)

LEMMA SplitOfAppend ==
    ASSUME NEW s \in Seq(DOMAIN Key), NEW w \in DOMAIN Key
    PROVE  SplitOf(Append(s, w)) = SplitArg(SplitOf(s), w)
<1> DEFINE u == Append(s, w)
           n == Len(s)
<1>1. u \in Seq(DOMAIN Key) /\ n \in Nat /\ Len(u) = n + 1 /\ u[n + 1] = w /\ \A k \in 1 .. n : u[k] = s[k]
  BY LenProperties
<1>2. PICK f : /\ f[0] = NoSplit
               /\ \A k \in 1 .. Len(s) : f[k] = SplitArg(f[k - 1], s[k])
               /\ FoldLeft(SplitArg, NoSplit, s) = f[Len(s)]
  BY FoldSplits
<1> HIDE DEF u
<1>3. PICK g : /\ g[0] = NoSplit
               /\ \A k \in 1 .. Len(u) : g[k] = SplitArg(g[k - 1], u[k])
               /\ FoldLeft(SplitArg, NoSplit, u) = g[Len(u)]
  BY <1>1, FoldSplits
<1> DEFINE T == {k \in 0 .. n : f[k] # g[k]}
<1>4. ASSUME T # {} PROVE FALSE
  <2>1. PICK m \in T : \A k \in T : m <= k
    <3>1. T \subseteq Nat
      OBVIOUS
    <3> HIDE DEF T
    <3> QED
      BY <1>4, <3>1, Least
  <2>2. m \in 1 .. n /\ m \in 1 .. Len(u) /\ m - 1 \in 0 .. n /\ m - 1 \notin T
    BY <1>1, <1>2, <1>3, <2>1
  <2>3. f[m - 1] = g[m - 1] /\ u[m] = s[m]
    BY <1>1, <2>2
  <2> QED
    BY <1>2, <1>3, <2>1, <2>2, <2>3
<1>5. f[n] = g[n]
  BY <1>1, <1>4
<1>6. g[n + 1] = SplitArg(g[n], w)
  <2>1. n + 1 \in 1 .. Len(u) /\ n + 1 - 1 = n
    BY <1>1
  <2> QED
    BY <1>1, <1>3, <2>1
<1> QED
  BY <1>1, <1>2, <1>3, <1>5, <1>6 DEF SplitOf, u

LEMMA SplitOfEmpty == SplitOf(<<>>) = NoSplit
<1>1. <<>> \in Seq(DOMAIN Key) /\ Len(<<>>) = 0
  BY EmptySeq
<1>2. PICK f : f[0] = NoSplit /\ FoldLeft(SplitArg, NoSplit, <<>>) = f[Len(<<>>)]
  BY <1>1, FoldSplits
<1> QED
  BY <1>1, <1>2 DEF SplitOf

\* The arguments without a key are kept in their order, and the maps of the others do
\* not depend on where those are.
LEMMA SplitParts ==
    ASSUME NEW s \in Seq(DOMAIN Key)
    PROVE  /\ SplitOf(s).maps = SplitOf(Part(s, Keyed)).maps
           /\ SplitOf(s).curr = SplitOf(Part(s, Keyed)).curr
           /\ SplitOf(s).keyless = Part(s, Keyless)
<1> DEFINE Good(u) == /\ SplitOf(u).maps = SplitOf(Part(u, Keyed)).maps
                      /\ SplitOf(u).curr = SplitOf(Part(u, Keyed)).curr
                      /\ SplitOf(u).keyless = Part(u, Keyless)
           G == {u \in Seq(DOMAIN Key) : Good(u)}
<1>1. <<>> \in G
  <2>1. Part(<<>>, Keyed) = <<>> /\ Part(<<>>, Keyless) = <<>> /\ <<>> \in Seq(DOMAIN Key)
    BY PartIs, EmptySeq
  <2> QED
    BY <2>1, SplitOfEmpty DEF NoSplit
<1>2. ASSUME NEW u \in Seq(DOMAIN Key), NEW w \in DOMAIN Key, u \in G
      PROVE  Append(u, w) \in G
  <2> DEFINE v == Append(u, w)
             cl == SplitOf(u)
             k == SplitOf(Part(u, Keyed))
  <2>1. v \in Seq(DOMAIN Key) /\ SplitOf(v) = SplitArg(cl, w)
    BY SplitOfAppend
  <2>2. cl \in Splits
    BY SplitAll DEF SplitOf
  <2>3. cl = [maps |-> cl.maps, curr |-> cl.curr, keyless |-> cl.keyless]
    BY <2>2 DEF Splits
  <2>4. Part(u, Keyed) \in Seq(DOMAIN Key)
    BY PartType
  <2>5. k \in Splits
    BY <2>4, SplitAll DEF SplitOf
  <2>6. k = [maps |-> k.maps, curr |-> k.curr, keyless |-> k.keyless]
    BY <2>5 DEF Splits
  <2>7. cl.maps = k.maps /\ cl.curr = k.curr /\ cl.keyless = Part(u, Keyless)
    BY <1>2
  <2>8. /\ Part(v, Keyed) = IF w \in Keyed THEN Append(Part(u, Keyed), w) ELSE Part(u, Keyed)
        /\ Part(v, Keyless) = IF w \in Keyless THEN Append(Part(u, Keyless), w) ELSE Part(u, Keyless)
    BY PartAppend
  <2> HIDE DEF v, cl
  <2>9. CASE Key[w] = None
    <3>1. w \in Keyless /\ w \notin Keyed
      BY <2>9 DEF Keyed, Keyless
    <3>2. SplitOf(v) = [maps |-> cl.maps, curr |-> cl.curr, keyless |-> Append(cl.keyless, w)]
      BY <2>1, <2>3, <2>9 DEF SplitArg
    <3>3. Part(v, Keyed) = Part(u, Keyed) /\ Part(v, Keyless) = Append(Part(u, Keyless), w)
      BY <2>8, <3>1
    <3>4. v \in Seq(DOMAIN Key)
      BY <2>1
    <3>5. SplitOf(v).maps = cl.maps /\ SplitOf(v).curr = cl.curr /\ SplitOf(v).keyless = Append(cl.keyless, w)
      BY <3>2
    <3>6. Good(v)
      BY <2>7, <3>3, <3>5
    <3> QED
      BY <3>4, <3>6 DEF v
  <2>10. CASE Key[w] # None
    <3>1. w \in Keyed /\ w \notin Keyless
      BY <2>10 DEF Keyed, Keyless
    <3>2. Part(v, Keyed) = Append(Part(u, Keyed), w) /\ Part(v, Keyless) = Part(u, Keyless)
      BY <2>8, <3>1
    <3>3. SplitOf(Part(v, Keyed)) = SplitArg(k, w)
      BY <2>4, <3>2, SplitOfAppend
    <3> HIDE DEF k
    <3>4. /\ SplitArg(cl, w).maps = SplitArg(k, w).maps
          /\ SplitArg(cl, w).curr = SplitArg(k, w).curr
          /\ SplitArg(cl, w).keyless = cl.keyless
      <4>1. CASE \E other \in cl.curr : Key[other] = Key[w]
        <5>1. SplitArg(cl, w) = [maps |-> Append(cl.maps, Map(cl.curr, <<>>)), curr |-> {w}, keyless |-> cl.keyless]
          BY <2>3, <2>10, <4>1 DEF SplitArg
        <5>2. SplitArg(k, w) = [maps |-> Append(k.maps, Map(k.curr, <<>>)), curr |-> {w}, keyless |-> k.keyless]
          BY <2>6, <2>7, <2>10, <4>1 DEF SplitArg
        <5> QED
          BY <2>7, <5>1, <5>2
      <4>2. CASE ~\E other \in cl.curr : Key[other] = Key[w]
        <5>1. SplitArg(cl, w) = [maps |-> cl.maps, curr |-> cl.curr \union {w}, keyless |-> cl.keyless]
          BY <2>3, <2>10, <4>2 DEF SplitArg
        <5>2. SplitArg(k, w) = [maps |-> k.maps, curr |-> k.curr \union {w}, keyless |-> k.keyless]
          BY <2>6, <2>7, <2>10, <4>2 DEF SplitArg
        <5> QED
          BY <2>7, <5>1, <5>2
      <4> QED
        BY <4>1, <4>2
    <3> QED
      BY <2>1, <2>7, <3>2, <3>3, <3>4 DEF v
  <2> QED
    BY <2>9, <2>10 DEF v
<1> HIDE DEF G
<1>3. Seq(DOMAIN Key) \subseteq G
  BY <1>1, <1>2, AllSequences
<1> QED
  BY <1>3 DEF G

LEMMA SameSplit ==
    ASSUME NEW s \in Seq(DOMAIN Key), NEW t \in Seq(DOMAIN Key),
           Part(s, Keyed) = Part(t, Keyed), Part(s, Keyless) = Part(t, Keyless)
    PROVE  splitKernelCmdLine(s) = splitKernelCmdLine(t)
<1>1. /\ SplitOf(s).maps = SplitOf(t).maps /\ SplitOf(s).curr = SplitOf(t).curr
      /\ SplitOf(s).keyless = SplitOf(t).keyless
  BY SplitParts
<1>2. ASSUME NEW u
      PROVE  splitKernelCmdLine(u) =
               SplitOf(u).maps \o (IF SplitOf(u).curr # {} THEN <<Map(SplitOf(u).curr, <<>>)>> ELSE <<>>)
                               \o (IF SplitOf(u).keyless # <<>> THEN <<Map({}, SplitOf(u).keyless)>> ELSE <<>>)
  BY DEF splitKernelCmdLine, SplitOf, NoSplit
<1> QED
  BY <1>1, <1>2

-----------------------------------------------------------------------------

\* No word comes before one that is in front of it.
Ordered(L) == \A j, k \in 1 .. Len(L) : j < k => ~Before(L[k], L[j])

LEMMA InsertSorted ==
    ASSUME NEW L \in Seq(Seq(DOMAIN Key)), Ordered(L), NEW w \in Seq(DOMAIN Key)
    PROVE  Ordered(Insert(L, w))
<1> DEFINE W == Seq(DOMAIN Key)
<1>1. PICK u, v \in Seq(W) :
          /\ u \o v = L /\ Insert(L, w) = Append(u, w) \o v
          /\ \A k \in 1 .. Len(u) : ~Before(w, L[k])
          /\ v # <<>> => Before(w, L[Len(u) + 1])
  BY InsertParts, Zenon
<1> DEFINE x == Append(u, w) \o v
           p == Len(u) + 1
<1> HIDE DEF W
<1>2. /\ p \in 1 .. Len(L) + 1 /\ Len(L) \in Nat /\ Len(x) = Len(L) + 1
      /\ \A k \in 1 .. p - 1 : x[k] = L[k]
      /\ x[p] = w
      /\ \A k \in p + 1 .. Len(L) + 1 : x[k] = L[k - 1]
      /\ Len(v) = 0 => p = Len(L) + 1
  <2>0. w \in W
    BY DEF W
  <2>1. /\ Len(u) \in Nat /\ Len(v) \in Nat /\ Len(Append(u, w)) = Len(u) + 1 /\ Append(u, w) \in Seq(W)
        /\ Append(u, w)[p] = w /\ \A k \in 1 .. p - 1 : Append(u, w)[k] = u[k]
    BY <2>0, LenProperties
  <2>2. /\ Len(L) = Len(u) + Len(v)
        /\ \A k \in 1 .. Len(L) : L[k] = IF k <= Len(u) THEN u[k] ELSE v[k - Len(u)]
    <3>1. Concatenates(W)
      BY ConcatOver, Zenon
    <3>2. u \o v = L /\ u \in Seq(W) /\ v \in Seq(W)
      BY <1>1
    <3> QED
      BY <3>1, <3>2 DEF Concatenates
  <2> DEFINE y == Append(u, w)
  <2> HIDE DEF y
  <2>3. /\ Len(x) = Len(y) + Len(v)
        /\ \A k \in 1 .. Len(y) + Len(v) : x[k] = IF k <= Len(y) THEN y[k] ELSE v[k - Len(y)]
    <3>1. Concatenates(W)
      BY ConcatOver, Zenon
    <3>2. x = y \o v /\ y \in Seq(W) /\ v \in Seq(W)
      BY <2>1 DEF y
    <3> QED
      BY <3>1, <3>2 DEF Concatenates
  <2> HIDE DEF x
  <2>4. /\ p \in 1 .. Len(L) + 1 /\ Len(L) \in Nat /\ Len(x) = Len(L) + 1
        /\ Len(v) = 0 => p = Len(L) + 1
    BY <2>1, <2>2, <2>3 DEF y
  <2>5. ASSUME NEW k \in 1 .. p - 1
        PROVE  x[k] = L[k]
    <3>1. k \in 1 .. Len(L) /\ k \in 1 .. Len(y) + Len(v) /\ k <= Len(u) /\ k <= Len(y)
      BY <2>1, <2>2 DEF y
    <3>2. x[k] = y[k] /\ L[k] = u[k]
      BY <2>2, <2>3, <3>1
    <3> QED
      BY <2>1, <3>2 DEF y
  <2>6. x[p] = w
    BY <2>1, <2>3 DEF y
  <2>7. ASSUME NEW k \in p + 1 .. Len(L) + 1
        PROVE  x[k] = L[k - 1]
    <3>1. /\ k - 1 \in 1 .. Len(L) /\ k \in 1 .. Len(y) + Len(v) /\ ~(k - 1 <= Len(u)) /\ ~(k <= Len(y))
          /\ k - 1 - Len(u) = k - Len(y)
      BY <2>1, <2>2 DEF y
    <3>2. x[k] = v[k - Len(y)] /\ L[k - 1] = v[k - 1 - Len(u)]
      BY <2>2, <2>3, <3>1
    <3> QED
      BY <3>1, <3>2
  <2> HIDE DEF p
  <2> QED
    BY <2>4, <2>5, <2>6, <2>7
<1>3. \A k \in 1 .. p - 1 : ~Before(w, L[k])
  BY <1>1, LenProperties
<1>4. p <= Len(L) => Before(w, L[p])
  BY <1>1, <1>2, EmptySeq
<1> HIDE DEF x, p
<1>5. \A k \in 1 .. Len(L) : L[k] \in W
  BY ElementOfSeq DEF W
<1>6. ASSUME NEW j \in 1 .. Len(L) + 1, NEW k \in 1 .. Len(L) + 1, j < k
      PROVE  ~Before(x[k], x[j])
  <2>1. CASE k < p
    <3>1. j \in 1 .. p - 1 /\ k \in 1 .. p - 1 /\ j \in 1 .. Len(L) /\ k \in 1 .. Len(L)
      BY <1>2, <1>6, <2>1
    <3> QED
      BY <1>2, <1>6, <3>1 DEF Ordered
  <2>2. CASE k = p
    <3>1. j \in 1 .. p - 1
      BY <1>2, <1>6, <2>2
    <3>2. x[j] = L[j] /\ x[k] = w
      BY <1>2, <2>2, <3>1
    <3>3. ~Before(w, L[j])
      BY <1>3, <3>1
    <3> QED
      BY <3>2, <3>3
  <2>3. CASE j < p /\ p < k
    <3>1. j \in 1 .. p - 1 /\ k \in p + 1 .. Len(L) + 1 /\ k - 1 \in 1 .. Len(L) /\ j \in 1 .. Len(L) /\ j < k - 1
      BY <1>2, <2>3
    <3> QED
      BY <1>2, <3>1 DEF Ordered
  <2>4. CASE j = p
    <3>1. k \in p + 1 .. Len(L) + 1 /\ k - 1 \in p .. Len(L) /\ p \in 1 .. Len(L)
      BY <1>2, <1>6, <2>4
    <3>2. x[k] = L[k - 1] /\ x[j] = w /\ Before(w, L[p]) /\ L[p] \in W /\ L[k - 1] \in W
      BY <1>2, <1>4, <1>5, <2>4, <3>1
    <3>3. CASE k - 1 = p
      <4>1. Before(w, L[p]) => ~Before(L[p], w)
        BY <3>2, BeforeOrder DEF W
      <4> QED
        BY <3>2, <3>3, <4>1
    <3>4. CASE k - 1 # p
      <4>1. p < k - 1
        BY <1>2, <3>1, <3>4
      <4>2. ~Before(L[k - 1], L[p])
        BY <3>1, <4>1 DEF Ordered
      <4>3. Before(L[k - 1], w) /\ Before(w, L[p]) => Before(L[k - 1], L[p])
        BY <3>2, BeforeOrder DEF W
      <4> QED
        BY <3>2, <4>2, <4>3
    <3> QED
      BY <3>3, <3>4
  <2>5. CASE p < j
    <3>1. j \in p + 1 .. Len(L) + 1 /\ k \in p + 1 .. Len(L) + 1 /\ j - 1 \in 1 .. Len(L) /\ k - 1 \in 1 .. Len(L) /\ j - 1 < k - 1
      BY <1>2, <1>6, <2>5
    <3> QED
      BY <1>2, <3>1 DEF Ordered
  <2> QED
    BY <1>2, <1>6, <2>1, <2>2, <2>3, <2>4, <2>5
<1>7. \A j, k \in 1 .. Len(x) : j < k => ~Before(x[k], x[j])
  BY <1>2, <1>6
<1> QED
  BY <1>1, <1>7 DEF Ordered, x

SortOf(L) == FoldLeft(Insert, <<>>, L)

LEMMA SortOfAppend ==
    ASSUME NEW R, NEW s \in Seq(R), NEW w \in R
    PROVE  SortOf(Append(s, w)) = Insert(SortOf(s), w)
<1> DEFINE u == Append(s, w)
           n == Len(s)
<1>1. u \in Seq(R) /\ n \in Nat /\ Len(u) = n + 1 /\ u[n + 1] = w /\ \A k \in 1 .. n : u[k] = s[k]
  BY LenProperties
<1>2. PICK f : /\ f[0] = <<>>
               /\ \A k \in 1 .. Len(s) : f[k] = Insert(f[k - 1], s[k])
               /\ FoldLeft(Insert, <<>>, s) = f[Len(s)]
  BY FoldInserts
<1> HIDE DEF u
<1>3. PICK g : /\ g[0] = <<>>
               /\ \A k \in 1 .. Len(u) : g[k] = Insert(g[k - 1], u[k])
               /\ FoldLeft(Insert, <<>>, u) = g[Len(u)]
  BY <1>1, FoldInserts
<1> DEFINE T == {k \in 0 .. n : f[k] # g[k]}
<1>4. ASSUME T # {} PROVE FALSE
  <2>1. PICK m \in T : \A k \in T : m <= k
    <3>1. T \subseteq Nat
      OBVIOUS
    <3> HIDE DEF T
    <3> QED
      BY <1>4, <3>1, Least
  <2>2. m \in 1 .. n /\ m \in 1 .. Len(u) /\ m - 1 \in 0 .. n /\ m - 1 \notin T
    BY <1>1, <1>2, <1>3, <2>1
  <2>3. f[m - 1] = g[m - 1] /\ u[m] = s[m]
    BY <1>1, <2>2
  <2> QED
    BY <1>2, <1>3, <2>1, <2>2, <2>3
<1>5. f[n] = g[n]
  BY <1>1, <1>4
<1>6. g[n + 1] = Insert(g[n], w)
  <2>1. n + 1 \in 1 .. Len(u) /\ n + 1 - 1 = n
    BY <1>1
  <2> QED
    BY <1>1, <1>3, <2>1
<1> QED
  BY <1>1, <1>2, <1>3, <1>5, <1>6 DEF SortOf, u

LEMMA SortOfEmpty == SortOf(<<>>) = <<>>
<1>1. <<>> \in Seq(Seq({})) /\ Len(<<>>) = 0
  BY EmptySeq
<1>2. PICK f : f[0] = <<>> /\ FoldLeft(Insert, <<>>, <<>>) = f[Len(<<>>)]
  BY <1>1, FoldInserts
<1> QED
  BY <1>1, <1>2 DEF SortOf

LEMMA SortOfSorted ==
    ASSUME NEW L \in Seq(Seq(DOMAIN Key))
    PROVE  SortOf(L) \in Seq(Seq(DOMAIN Key)) /\ Ordered(SortOf(L))
<1> DEFINE W == Seq(DOMAIN Key)
           G == {M \in Seq(W) : SortOf(M) \in Seq(W) /\ Ordered(SortOf(M))}
<1>1. <<>> \in G
  <2>1. <<>> \in Seq(W) /\ Len(<<>>) = 0
    BY EmptySeq
  <2>2. Ordered(<<>>)
    BY <2>1 DEF Ordered
  <2> HIDE DEF W
  <2> QED
    BY <2>1, <2>2, SortOfEmpty
<1>2. ASSUME NEW M \in Seq(W), NEW w \in W, M \in G
      PROVE  Append(M, w) \in G
  <2>1. SortOf(Append(M, w)) = Insert(SortOf(M), w)
    BY SortOfAppend
  <2>2. SortOf(M) \in Seq(W) /\ Ordered(SortOf(M))
    BY <1>2
  <2>3. Ordered(Insert(SortOf(M), w))
    BY <2>2, InsertSorted
  <2>4. Insert(SortOf(M), w) \in Seq(W)
    BY <2>2, InsertIs
  <2>5. Append(M, w) \in Seq(W)
    <3> HIDE DEF W
    <3> QED
      OBVIOUS
  <2> QED
    BY <2>1, <2>3, <2>4, <2>5
<1>3. Seq(W) \subseteq G
  <2> HIDE DEF W, G
  <2> QED
    BY <1>1, <1>2, AllSequences
<1> QED
  BY <1>3 DEF G

LEMMA SortOfType ==
    ASSUME NEW R, NEW L \in Seq(R)
    PROVE  SortOf(L) \in Seq(R)
<1> DEFINE G == {M \in Seq(R) : SortOf(M) \in Seq(R)}
<1>1. <<>> \in G
  BY EmptySeq, SortOfEmpty
<1>2. ASSUME NEW M \in Seq(R), NEW w \in R, M \in G
      PROVE  Append(M, w) \in G
  <2>1. SortOf(Append(M, w)) = Insert(SortOf(M), w)
    BY SortOfAppend
  <2>2. Insert(SortOf(M), w) \in Seq(R)
    BY <1>2, InsertType
  <2> QED
    BY <2>1, <2>2
<1> HIDE DEF G
<1>3. Seq(R) \subseteq G
  BY <1>1, <1>2, AllSequences
<1> QED
  BY <1>3 DEF G

\* The strings that are sorted: an argument with a key, and those without of a map.
Strings == {<<arg>> : arg \in Keyed} \union Seq(Keyless)

LEMMA StringsAreWords ==
    /\ Strings \subseteq Seq(DOMAIN Key)
    /\ \A arg \in Keyed : Part(<<arg>>, Keyed) = <<arg>> /\ Part(<<arg>>, Keyless) = <<>>
    /\ \A w \in Seq(Keyless) : Part(w, Keyed) = <<>> /\ Part(w, Keyless) = w
<1>1. Keyed \subseteq DOMAIN Key /\ Keyless \subseteq DOMAIN Key /\ Keyed \intersect Keyless = {}
  BY DEF Keyed, Keyless
<1>2. \A arg \in Keyed : <<arg>> \in Seq(Keyed)
  OBVIOUS
<1>3. Strings \subseteq Seq(DOMAIN Key)
  <2>1. \A s \in Seq(Keyed) : s \in Seq(DOMAIN Key)
    BY <1>1, SeqMonotonic
  <2>2. \A s \in Seq(Keyless) : s \in Seq(DOMAIN Key)
    BY <1>1, SeqMonotonic
  <2> QED
    BY <1>2, <2>1, <2>2, Zenon DEF Strings
<1>4. \A w \in Seq(Keyed) : Part(w, Keyed) = w /\ Part(w, Keyless) = <<>>
  BY <1>1, PartAll
<1>5. \A w \in Seq(Keyless) : Part(w, Keyed) = <<>> /\ Part(w, Keyless) = w
  BY <1>1, PartAll
<1> QED
  BY <1>2, <1>3, <1>4, <1>5

\* In the order of their ranks.
Ranked(s) == \A j, k \in 1 .. Len(s) : j < k => Rank[s[j]] <= Rank[s[k]]

LEMMA WordsRanked ==
    ASSUME NEW L \in Seq(Strings), Ordered(L)
    PROVE  Ranked(Part(FlattenSeq(L), Keyed))
<1> DEFINE P(M) == Part(FlattenSeq(M), Keyed)
           Good(M) == /\ Ranked(P(M))
                      /\ \A k \in 1 .. Len(P(M)) : \E n \in 1 .. Len(M) : M[n] = <<P(M)[k]>>
           G == {M \in Seq(Strings) : Ordered(M) => Good(M)}
<1>0. \A M \in Seq(Strings) : M \in Seq(Seq(DOMAIN Key)) /\ FlattenSeq(M) \in Seq(DOMAIN Key) /\ P(M) \in Seq(Keyed)
  <2>1. \A M \in Seq(Strings) : M \in Seq(Seq(DOMAIN Key))
    BY StringsAreWords, SeqMonotonic
  <2>2. \A M \in Seq(Strings) : FlattenSeq(M) \in Seq(DOMAIN Key)
    BY <2>1, FlattenIs
  <2> QED
    BY <2>1, <2>2, PartType
<1>1. <<>> \in G
  <2>1. FlattenSeq(<<>>) = <<>>
    BY DEF FlattenSeq
  <2>2. P(<<>>) = <<>>
    BY <2>1, PartIs
  <2>3. Good(<<>>)
    BY <2>2 DEF Ranked
  <2> HIDE DEF Good
  <2> QED
    BY <2>3, EmptySeq
<1>2. ASSUME NEW M \in Seq(Strings), NEW w \in Strings, M \in G
      PROVE  Append(M, w) \in G
  <2> DEFINE N == Append(M, w)
             m == Len(M)
             p == P(M)
             q == P(N)
  <2>0. N \in Seq(Strings)
    OBVIOUS
  <2> SUFFICES ASSUME Ordered(N) PROVE N \in Seq(Strings) /\ Good(N)
    <3> HIDE DEF Good
    <3> QED
      BY <2>0
  <2>1. N \in Seq(Strings) /\ m \in Nat /\ Len(N) = m + 1 /\ N[m + 1] = w /\ \A k \in 1 .. m : N[k] = M[k]
    BY LenProperties
  <2>2. /\ M \in Seq(Seq(DOMAIN Key)) /\ w \in Seq(DOMAIN Key) /\ FlattenSeq(M) \in Seq(DOMAIN Key)
        /\ p \in Seq(Keyed)
    BY <1>0, StringsAreWords
  <2>3. q = p \o Part(w, Keyed)
    <3>1. FlattenSeq(N) = FlattenSeq(M) \o w
      BY <2>2, FlattenAppend
    <3> QED
      BY <2>2, <3>1, PartConcat
  <2> HIDE DEF N, P
  <2>4. Ordered(M)
    BY <2>1 DEF Ordered
  <2>5. Ranked(p) /\ \A k \in 1 .. Len(p) : \E n \in 1 .. m : M[n] = <<p[k]>>
    BY <1>2, <2>4
  <2>6. CASE w \in Seq(Keyless)
    <3>1. Part(w, Keyed) = <<>>
      BY <2>6, StringsAreWords
    <3>2. q = p
      BY <2>2, <2>3, <3>1, ConcatEmptySeq
    <3>3. \A k \in 1 .. Len(q) : \E n \in 1 .. Len(N) : N[n] = <<q[k]>>
      <4>1. \A n \in 1 .. m : n \in 1 .. Len(N) /\ N[n] = M[n]
        BY <2>1
      <4> QED
        BY <2>5, <3>2, <4>1
    <3> QED
      BY <2>1, <2>5, <3>2, <3>3
  <2>7. CASE w \notin Seq(Keyless)
    <3>1. PICK a \in Keyed : w = <<a>>
      BY <2>7 DEF Strings
    <3>2. Part(w, Keyed) = <<a>>
      BY <3>1, StringsAreWords
    <3> HIDE DEF p
    <3>3. /\ q = Append(p, a) /\ Len(q) = Len(p) + 1 /\ Len(p) \in Nat /\ q[Len(p) + 1] = a
          /\ \A k \in 1 .. Len(p) : q[k] = p[k]
      <4>1. q = Append(p, a)
        BY <2>2, <2>3, <3>2
      <4> HIDE DEF q
      <4> QED
        BY <2>2, <4>1, LenProperties
    <3> HIDE DEF q
    <3>4. ASSUME NEW k \in 1 .. Len(q)
          PROVE  \E n \in 1 .. Len(N) : N[n] = <<q[k]>>
      <4>1. CASE k = Len(p) + 1
        <5>1. m + 1 \in 1 .. Len(N) /\ N[m + 1] = <<q[k]>>
          BY <2>1, <3>1, <3>3, <4>1
        <5> QED
          BY <5>1
      <4>2. CASE k # Len(p) + 1
        <5>1. k \in 1 .. Len(p)
          BY <3>3, <4>2
        <5>2. PICK n \in 1 .. m : M[n] = <<p[k]>>
          BY <2>5, <5>1 DEF p
        <5>3. n \in 1 .. Len(N) /\ N[n] = <<q[k]>>
          BY <2>1, <3>3, <5>1, <5>2
        <5> QED
          BY <5>3
      <4> QED
        BY <4>1, <4>2
    <3>5. ASSUME NEW k \in 1 .. Len(p)
          PROVE  Rank[p[k]] <= Rank[a]
      <4>1. PICK n \in 1 .. m : M[n] = <<p[k]>>
        BY <2>5 DEF p
      <4>2. n \in 1 .. Len(N) /\ m + 1 \in 1 .. Len(N) /\ n < m + 1
        BY <2>1
      <4>3. ~Before(<<a>>, <<p[k]>>)
        BY <2>1, <3>1, <4>1, <4>2 DEF Ordered
      <4>4. ~(Rank[a] < Rank[p[k]])
        BY <4>3 DEF Before
      <4>5. p[k] \in DOMAIN Key /\ a \in DOMAIN Key
        BY <2>2, ElementOfSeq DEF Keyed
      <4> QED
        BY <4>4, <4>5, RankAssumption
    <3>6. Ranked(q)
      <4>1. ASSUME NEW j \in 1 .. Len(q), NEW k \in 1 .. Len(q), j < k
            PROVE  Rank[q[j]] <= Rank[q[k]]
        <5>1. j \in 1 .. Len(p)
          BY <3>3, <4>1
        <5>2. CASE k = Len(p) + 1
          BY <3>3, <3>5, <5>1, <5>2
        <5>3. CASE k # Len(p) + 1
          <6>1. k \in 1 .. Len(p)
            BY <3>3, <5>3
          <6> QED
            BY <2>5, <3>3, <4>1, <5>1, <6>1 DEF Ranked, p
        <5> QED
          BY <5>2, <5>3
      <4> QED
        BY <4>1 DEF Ranked
    <3> QED
      BY <2>1, <3>4, <3>6 DEF q
  <2> QED
    BY <2>6, <2>7
<1> HIDE DEF G
<1>3. Seq(Strings) \subseteq G
  BY <1>1, <1>2, AllSequences
<1> QED
  BY <1>3 DEF G

LEMMA RankedFront ==
    ASSUME NEW u \in Seq(Keyed), NEW w \in Keyed, Ranked(Append(u, w))
    PROVE  /\ Ranked(u)
           /\ \A e \in Keyed : Count(Append(u, w), e) # 0 => Rank[e] <= Rank[w]
<1> DEFINE t == Append(u, w)
           n == Len(u)
<1>1. /\ t \in Seq(Keyed) /\ n \in Nat /\ Len(t) = n + 1 /\ t[n + 1] = w /\ DOMAIN t = 1 .. n + 1
      /\ \A k \in 1 .. n : t[k] = u[k]
  BY LenProperties
<1> HIDE DEF t
<1>2. Ranked(t)
  BY DEF t
<1>3. Ranked(u)
  BY <1>1, <1>2 DEF Ranked
<1>4. ASSUME NEW e \in Keyed, Count(t, e) # 0
      PROVE  Rank[e] <= Rank[w]
  <2>1. PICK k \in 1 .. n + 1 : t[k] = e
    BY <1>1, <1>4, CountIs
  <2>2. CASE k = n + 1
    <3>1. e = w /\ Rank[e] \in Int
      BY <1>1, <2>1, <2>2, RankAssumption DEF Keyed
    <3> QED
      BY <3>1
  <2>3. CASE k < n + 1
    <3>1. k \in 1 .. Len(t) /\ n + 1 \in 1 .. Len(t)
      BY <1>1, <2>3
    <3> QED
      BY <1>1, <1>2, <2>1, <2>3, <3>1 DEF Ranked
  <2> QED
    BY <1>1, <2>1, <2>2, <2>3
<1> QED
  BY <1>3, <1>4 DEF t

\* Arguments in the order of their ranks are told by how often each occurs.
LEMMA RankedUnique ==
    ASSUME NEW s \in Seq(Keyed), NEW t \in Seq(Keyed), Ranked(s), Ranked(t),
           \A e \in Keyed : Count(s, e) = Count(t, e)
    PROVE  s = t
<1> DEFINE Same(u, v) == \A e \in Keyed : Count(u, e) = Count(v, e)
           G == {u \in Seq(Keyed) : \A v \in Seq(Keyed) : Ranked(u) /\ Ranked(v) /\ Same(u, v) => u = v}
<1>1. <<>> \in G
  <2>1. ASSUME NEW v \in Seq(Keyed), Same(<<>>, v) PROVE v = <<>>
    <3>1. \A e \in Keyed : Count(v, e) = 0
      BY <2>1, CountEmpty
    <3>2. \A k \in 1 .. Len(v) : v[k] \in Keyed /\ Count(v, v[k]) # 0
      <4>1. ASSUME NEW k \in 1 .. Len(v) PROVE v[k] \in Keyed /\ Count(v, v[k]) # 0
        <5>1. v[k] \in Keyed /\ k \in DOMAIN v
          BY ElementOfSeq, LenProperties
        <5> QED
          BY <5>1, CountIs
      <4> QED
        BY <4>1
    <3>3. Len(v) = 0
      <4>1. Len(v) # 0 => 1 \in 1 .. Len(v)
        BY LenProperties
      <4> QED
        BY <3>1, <3>2, <4>1
    <3> QED
      BY <3>3, EmptySeq
  <2> HIDE DEF Same
  <2> QED
    BY <2>1, EmptySeq
<1>2. ASSUME NEW u \in Seq(Keyed), NEW w \in Keyed, u \in G
      PROVE  Append(u, w) \in G
  <2> DEFINE x == Append(u, w)
  <2>1. ASSUME NEW v \in Seq(Keyed), Ranked(x), Ranked(v), Same(x, v)
        PROVE  x = v
    <3>1. \A e \in Keyed : Count(x, e) = Count(u, e) + IF w = e THEN 1 ELSE 0
      BY CountAppend
    <3>2. \A e \in Keyed : Count(u, e) \in Nat
      BY CountIs
    <3>3. Count(v, w) # 0
      BY <2>1, <3>1, <3>2
    <3>4. v # <<>>
      BY <3>3, CountEmpty
    <3>5. PICK y \in Seq(Keyed), b \in Keyed : v = Append(y, b)
      BY <3>4, FrontAndLast
    <3>6. \A e \in Keyed : Count(v, e) = Count(y, e) + IF b = e THEN 1 ELSE 0
      BY <3>5, CountAppend
    <3>7. \A e \in Keyed : Count(y, e) \in Nat
      BY CountIs
    <3>8. Ranked(y) /\ Rank[w] <= Rank[b]
      <4>1. Ranked(Append(y, b)) /\ Count(Append(y, b), w) # 0
        BY <2>1, <3>3, <3>5
      <4> QED
        BY <4>1, RankedFront
    <3>9. Ranked(u) /\ Rank[b] <= Rank[w]
      <4>1. Count(x, b) # 0
        BY <2>1, <3>6, <3>7
      <4> QED
        BY <2>1, <4>1, RankedFront
    <3>10. w = b
      <4>1. Rank[w] \in Int /\ Rank[b] \in Int /\ w \in DOMAIN Key /\ b \in DOMAIN Key
        BY RankAssumption DEF Keyed
      <4> QED
        BY <3>8, <3>9, <4>1, RankAssumption
    <3>11. Same(u, y)
      <4>1. ASSUME NEW e \in Keyed PROVE Count(u, e) = Count(y, e)
        <5>1. Count(x, e) = Count(v, e)
          BY <2>1
        <5>2. Count(x, e) = Count(u, e) + (IF w = e THEN 1 ELSE 0) /\ Count(u, e) \in Nat
          BY <3>1, <3>2
        <5>3. Count(v, e) = Count(y, e) + (IF w = e THEN 1 ELSE 0) /\ Count(y, e) \in Nat
          BY <3>6, <3>7, <3>10
        <5> HIDE DEF x
        <5> DEFINE c == IF w = e THEN 1 ELSE 0
        <5>4. c \in Nat
          OBVIOUS
        <5>5. Count(x, e) = Count(u, e) + c /\ Count(v, e) = Count(y, e) + c
          BY <5>2, <5>3
        <5>6. Count(u, e) \in Nat /\ Count(y, e) \in Nat
          BY <5>2, <5>3
        <5> HIDE DEF c
        <5>7. Count(u, e) + c = Count(y, e) + c
          BY <5>1, <5>5
        <5>8. \A p, q, r \in Nat : p + r = q + r => p = q
          OBVIOUS
        <5> QED
          BY <5>4, <5>6, <5>7, <5>8
      <4> QED
        BY <4>1
    <3>12. u = y
      BY <1>2, <3>8, <3>9, <3>11
    <3> QED
      BY <3>5, <3>10, <3>12
  <2>2. x \in Seq(Keyed)
    OBVIOUS
  <2> HIDE DEF Same, x
  <2>3. x \in G
    BY <2>1, <2>2
  <2> QED
    BY <2>3 DEF x
<1> HIDE DEF G
<1>3. Seq(Keyed) \subseteq G
  BY <1>1, <1>2, AllSequences
<1>4. s \in G
  BY <1>3
<1> QED
  BY <1>4 DEF G

-----------------------------------------------------------------------------

\* What the sort does to the arguments of one kind, when all but one word have none.
LEMMA PartOfInsert ==
    ASSUME NEW L \in Seq(Strings), NEW w \in Strings, NEW P
    PROVE  /\ Part(w, P) = <<>> => Part(FlattenSeq(Insert(L, w)), P) = Part(FlattenSeq(L), P)
           /\ Part(FlattenSeq(L), P) = <<>> => Part(FlattenSeq(Insert(L, w)), P) = Part(w, P)
<1> DEFINE K == Seq(DOMAIN Key)
<1>1. PICK u, v \in Seq(Strings) :
          /\ u \o v = L /\ Insert(L, w) = Append(u, w) \o v
          /\ \A k \in 1 .. Len(u) : ~Before(w, L[k])
          /\ v # <<>> => Before(w, L[Len(u) + 1])
  BY InsertParts, Zenon
<1>2. u \in Seq(K) /\ v \in Seq(K) /\ w \in K
  BY StringsAreWords, SeqMonotonic
<1> HIDE DEF K
<1>3. Append(u, w) \in Seq(K)
  BY <1>2
<1> DEFINE a == FlattenSeq(u)
           b == FlattenSeq(v)
<1>4. a \in K /\ b \in K
  BY <1>2, FlattenIs DEF K
<1>5. FlattenSeq(L) = a \o b
  BY <1>1, <1>2, FlattenConcat DEF K
<1>6. FlattenSeq(Insert(L, w)) = a \o w \o b
  <2>1. FlattenSeq(Append(u, w) \o v) = FlattenSeq(Append(u, w)) \o b
    BY <1>2, <1>3, FlattenConcat DEF K
  <2>2. FlattenSeq(Append(u, w)) = a \o w
    BY <1>2, FlattenAppend DEF K
  <2> QED
    BY <1>1, <2>1, <2>2
<1> HIDE DEF a, b
<1> DEFINE x == Part(a, P)
           y == Part(b, P)
           z == Part(w, P)
<1>7. x \in K /\ y \in K /\ z \in K
  BY <1>2, <1>4, PartType DEF K
<1>8. Part(a \o b, P) = x \o y
  BY <1>4, PartConcat DEF K
<1>9. a \o w \in K /\ Part(a \o w, P) = x \o z
  BY <1>2, <1>4, PartConcat DEF K
<1>10. Part(a \o w \o b, P) = x \o z \o y
  <2> DEFINE c == a \o w
  <2>1. c \in K /\ Part(c, P) = x \o z
    BY <1>9
  <2> HIDE DEF c, x, y, z
  <2>2. Part(c \o b, P) = Part(c, P) \o Part(b, P)
    BY <1>4, <2>1, PartConcat DEF K
  <2> QED
    BY <2>1, <2>2 DEF c, y
<1> HIDE DEF x, y, z
<1>11. ASSUME z = <<>> PROVE x \o z \o y = x \o y
  BY <1>7, <1>11, ConcatEmptySeq DEF K
<1>12. ASSUME x \o y = <<>> PROVE x \o z \o y = z
  <2>1. Len(x) = 0 /\ Len(y) = 0
    <3>1. Len(x \o y) = Len(x) + Len(y) /\ Len(x) \in Nat /\ Len(y) \in Nat /\ Len(<<>>) = 0
      BY <1>7, LenProperties, EmptySeq DEF K
    <3> QED
      BY <1>12, <3>1
  <2>2. x = <<>> /\ y = <<>>
    BY <1>7, <2>1, EmptySeq DEF K
  <2> QED
    BY <1>7, <2>2, ConcatEmptySeq DEF K
<1> QED
  BY <1>5, <1>6, <1>8, <1>10, <1>11, <1>12 DEF z

\* The strings of arguments with a key.
KeyedStrings == {<<arg>> : arg \in Keyed}

LEMMA KeyedSorted ==
    ASSUME NEW L \in Seq(KeyedStrings)
    PROVE  Part(FlattenSeq(SortOf(L)), Keyless) = <<>>
<1> DEFINE G == {M \in Seq(KeyedStrings) : Part(FlattenSeq(SortOf(M)), Keyless) = <<>>}
<1>1. <<>> \in G
  <2>1. FlattenSeq(<<>>) = <<>>
    BY DEF FlattenSeq
  <2> QED
    BY <2>1, SortOfEmpty, PartIs, EmptySeq
<1>2. ASSUME NEW M \in Seq(KeyedStrings), NEW w \in KeyedStrings, M \in G
      PROVE  Append(M, w) \in G
  <2>1. SortOf(Append(M, w)) = Insert(SortOf(M), w)
    BY SortOfAppend
  <2>2. KeyedStrings \subseteq Strings
    BY DEF KeyedStrings, Strings
  <2>3. SortOf(M) \in Seq(Strings) /\ w \in Strings
    BY <2>2, SortOfType, SeqMonotonic
  <2>4. Part(w, Keyless) = <<>>
    BY StringsAreWords DEF KeyedStrings
  <2>5. Part(FlattenSeq(Insert(SortOf(M), w)), Keyless) = Part(FlattenSeq(SortOf(M)), Keyless)
    BY <2>3, <2>4, PartOfInsert
  <2> QED
    BY <1>2, <2>1, <2>5
<1> HIDE DEF G
<1>3. Seq(KeyedStrings) \subseteq G
  BY <1>1, <1>2, AllSequences
<1> QED
  BY <1>3 DEF G

LEMMA OneKeyless ==
    ASSUME NEW L \in Seq(KeyedStrings), NEW w \in Seq(Keyless)
    PROVE  Part(FlattenSeq(SortOf(Append(L, w))), Keyless) = w
<1>1. KeyedStrings \subseteq Strings /\ w \in Strings
  BY DEF KeyedStrings, Strings
<1>2. L \in Seq(Strings) /\ SortOf(L) \in Seq(Strings)
  BY <1>1, SeqMonotonic, SortOfType
<1>3. SortOf(Append(L, w)) = Insert(SortOf(L), w)
  BY <1>1, <1>2, SortOfAppend
<1>4. Part(FlattenSeq(SortOf(L)), Keyless) = <<>>
  BY KeyedSorted
<1>5. Part(FlattenSeq(Insert(SortOf(L), w)), Keyless) = Part(w, Keyless)
  BY <1>1, <1>2, <1>4, PartOfInsert
<1> QED
  BY <1>3, <1>5, StringsAreWords

\* The strings of an attribute.
StringLists(maps) == [n \in DOMAIN maps |-> StringsOf(maps[n])]

LEMMA StringsOfMap ==
    ASSUME NEW map \in CmdlineMaps
    PROVE  /\ StringsOf(map) \in Seq(Strings)
           /\ map.keyless = <<>> => StringsOf(map) \in Seq(KeyedStrings)
           /\ map.args = {} /\ map.keyless # <<>> => StringsOf(map) = <<map.keyless>>
<1> DEFINE s == SetToSeq(map.args)
           singles == [n \in DOMAIN s |-> <<s[n]>>]
           last == IF map.keyless = <<>> THEN <<>> ELSE <<map.keyless>>
<1>1. map.args \in SUBSET Keyed /\ IsFiniteSet(map.args) /\ map.keyless \in Seq(Keyless)
  BY DEF CmdlineMaps
<1>2. StringsOf(map) = singles \o last
  BY DEF StringsOf
<1>3. s \in Seq(map.args)
  BY <1>1, SetAsSeq
<1>4. DOMAIN s = 1 .. Len(s) /\ Len(s) \in Nat /\ \A n \in 1 .. Len(s) : s[n] \in map.args
  BY <1>3, LenProperties, ElementOfSeq
<1> HIDE DEF s
<1>5. singles \in Seq(KeyedStrings)
  <2>1. \A n \in 1 .. Len(s) : <<s[n]>> \in KeyedStrings
    BY <1>1, <1>4 DEF KeyedStrings
  <2> QED
    BY <1>4, <2>1
<1>6. map.args = {} => singles = <<>>
  <2>1. map.args = {} => Len(s) = 0
    <3>1. Len(s) # 0 => 1 \in 1 .. Len(s)
      BY <1>4
    <3> QED
      BY <1>4, <3>1
  <2>2. Len(singles) = Len(s)
    BY <1>4
  <2> HIDE DEF singles
  <2> QED
    BY <1>5, <2>1, <2>2, EmptySeq
<1> HIDE DEF singles
<1>7. KeyedStrings \subseteq Strings /\ map.keyless \in Strings
  BY <1>1 DEF KeyedStrings, Strings
<1>8. singles \in Seq(Strings)
  BY <1>5, <1>7, SeqMonotonic
<1>9. CASE map.keyless = <<>>
  <2>1. StringsOf(map) = singles
    BY <1>2, <1>5, <1>9, ConcatEmptySeq
  <2> QED
    BY <1>5, <1>8, <1>9, <2>1
<1>10. CASE map.keyless # <<>>
  <2>1. StringsOf(map) = singles \o <<map.keyless>> /\ <<map.keyless>> \in Seq(Strings)
    BY <1>2, <1>7, <1>10
  <2>2. singles \o <<map.keyless>> \in Seq(Strings)
    BY <1>8, <2>1
  <2>3. map.args = {} => StringsOf(map) = <<map.keyless>>
    BY <1>6, <2>1, ConcatEmptySeq
  <2> QED
    BY <1>10, <2>1, <2>2, <2>3
<1> QED
  BY <1>9, <1>10

LEMMA CmdlineSorts ==
    ASSUME NEW maps \in Seq(CmdlineMaps)
    PROVE  /\ CmdlineArgs(maps) = FlattenSeq(SortOf(FlattenSeq(StringLists(maps))))
           /\ StringLists(maps) \in Seq(Seq(Strings))
           /\ FlattenSeq(StringLists(maps)) \in Seq(Strings)
           /\ Ranked(Part(CmdlineArgs(maps), Keyed))
<1>1. DOMAIN maps = 1 .. Len(maps) /\ Len(maps) \in Nat /\ \A k \in 1 .. Len(maps) : maps[k] \in CmdlineMaps
  BY LenProperties, ElementOfSeq
<1>2. \A k \in 1 .. Len(maps) : StringsOf(maps[k]) \in Seq(Strings)
  BY <1>1, StringsOfMap
<1>3. StringLists(maps) \in Seq(Seq(Strings))
  BY <1>1, <1>2 DEF StringLists
<1>4. FlattenSeq(StringLists(maps)) \in Seq(Strings)
  BY <1>3, FlattenIs
<1>5. CmdlineArgs(maps) = FlattenSeq(SortOf(FlattenSeq(StringLists(maps))))
  BY DEF CmdlineArgs, SortOf, StringLists
<1>6. FlattenSeq(StringLists(maps)) \in Seq(Seq(DOMAIN Key))
  BY <1>4, StringsAreWords, SeqMonotonic
<1>7. Ordered(SortOf(FlattenSeq(StringLists(maps)))) /\ SortOf(FlattenSeq(StringLists(maps))) \in Seq(Strings)
  BY <1>4, <1>6, SortOfSorted, SortOfType
<1> QED
  BY <1>3, <1>4, <1>5, <1>7, WordsRanked

\* A map without keys behind maps of arguments with keys.
LEMMA StringListsAppend ==
    ASSUME NEW maps \in Seq(KeyedMaps)
    PROVE  /\ FlattenSeq(StringLists(maps)) \in Seq(KeyedStrings)
           /\ \A w \in Seq(Keyless) : w # <<>> =>
                FlattenSeq(StringLists(Append(maps, Map({}, w)))) = Append(FlattenSeq(StringLists(maps)), w)
<1>1. DOMAIN maps = 1 .. Len(maps) /\ Len(maps) \in Nat /\ \A k \in 1 .. Len(maps) : maps[k] \in KeyedMaps
  BY LenProperties, ElementOfSeq
<1>2. \A k \in 1 .. Len(maps) : StringsOf(maps[k]) \in Seq(KeyedStrings)
  BY <1>1, StringsOfMap DEF KeyedMaps
<1>3. StringLists(maps) \in Seq(Seq(KeyedStrings)) /\ Len(StringLists(maps)) = Len(maps)
      /\ \A k \in 1 .. Len(maps) : StringLists(maps)[k] = StringsOf(maps[k])
  BY <1>1, <1>2 DEF StringLists
<1>4. FlattenSeq(StringLists(maps)) \in Seq(KeyedStrings)
  BY <1>3, FlattenIs
<1>5. ASSUME NEW w \in Seq(Keyless), w # <<>>
      PROVE  FlattenSeq(StringLists(Append(maps, Map({}, w)))) = Append(FlattenSeq(StringLists(maps)), w)
  <2> DEFINE map == Map({}, w)
             new == Append(maps, map)
             n == Len(maps)
  <2>1. map \in CmdlineMaps /\ map.args = {} /\ map.keyless = w
    BY FS_EmptySet DEF Map, CmdlineMaps
  <2>2. StringsOf(map) = <<w>>
    BY <1>5, <2>1, StringsOfMap
  <2>3. maps \in Seq(CmdlineMaps)
    BY SeqMonotonic DEF KeyedMaps
  <2> HIDE DEF map
  <2>4. /\ DOMAIN new = 1 .. n + 1 /\ new[n + 1] = map /\ \A k \in 1 .. n : new[k] = maps[k]
    BY <2>1, <2>3, LenProperties
  <2> HIDE DEF new
  <2>5. w \in Strings /\ <<w>> \in Seq(Strings) /\ KeyedStrings \subseteq Strings
    BY DEF Strings, KeyedStrings
  <2>6. StringLists(maps) \in Seq(Seq(Strings))
    <3>1. Seq(KeyedStrings) \subseteq Seq(Strings)
      BY <2>5, SeqMonotonic
    <3> QED
      BY <1>3, <3>1, SeqMonotonic
  <2> DEFINE x == StringLists(new)
             y == Append(StringLists(maps), <<w>>)
  <2>7. /\ y \in Seq(Seq(Strings)) /\ Len(y) = n + 1 /\ y[n + 1] = <<w>>
        /\ \A k \in 1 .. n : y[k] = StringsOf(maps[k])
    <3>1. <<w>> \in Seq(Strings)
      BY <2>5
    <3> DEFINE z == <<w>>
    <3> HIDE DEF z
    <3>2. z \in Seq(Strings)
      BY <3>1 DEF z
    <3>3. /\ Append(StringLists(maps), z) \in Seq(Seq(Strings))
          /\ Len(Append(StringLists(maps), z)) = n + 1 /\ Append(StringLists(maps), z)[n + 1] = z
          /\ \A k \in 1 .. n : Append(StringLists(maps), z)[k] = StringLists(maps)[k]
      <4> DEFINE lists == StringLists(maps)
                 W == Seq(Strings)
      <4>1. lists \in Seq(W) /\ Len(lists) = n /\ z \in W /\ n \in Nat
        BY <1>1, <1>3, <2>6, <3>2
      <4> HIDE DEF lists, W
      <4>2. /\ Append(lists, z) \in Seq(W) /\ Len(Append(lists, z)) = n + 1 /\ Append(lists, z)[n + 1] = z
            /\ \A k \in 1 .. n : Append(lists, z)[k] = lists[k]
        BY <4>1, AppendProperties
      <4> QED
        BY <4>2 DEF lists, W
    <3> QED
      BY <1>3, <3>3 DEF z
  <2>8. x \in Seq(Seq(Strings)) /\ Len(x) = n + 1 /\ \A k \in 1 .. n + 1 : x[k] = StringsOf(new[k])
    <3>1. \A k \in 1 .. n + 1 : StringsOf(new[k]) \in Seq(Strings)
      <4>1. \A k \in 1 .. n + 1 : k \in 1 .. n \/ k = n + 1
        BY <1>1
      <4>2. \A k \in 1 .. n : maps[k] \in CmdlineMaps
        BY <1>1 DEF KeyedMaps
      <4> QED
        BY <2>1, <2>4, <4>1, <4>2, StringsOfMap
    <3> QED
      BY <1>1, <2>4, <3>1 DEF StringLists
  <2> HIDE DEF x, y
  <2>9. \A k \in 1 .. n + 1 : x[k] = y[k]
    <3>1. \A k \in 1 .. n + 1 : k \in 1 .. n \/ k = n + 1
      BY <1>1
    <3>2. n + 1 \in 1 .. n + 1 /\ \A k \in 1 .. n : k \in 1 .. n + 1
      BY <1>1
    <3> QED
      BY <2>2, <2>4, <2>7, <2>8, <3>1, <3>2
  <2>10. x = y
    BY <2>7, <2>8, <2>9, SeqEqual
  <2>11. FlattenSeq(y) = FlattenSeq(StringLists(maps)) \o <<w>>
    BY <2>5, <2>6, FlattenAppend DEF y
  <2>12. FlattenSeq(StringLists(maps)) \o <<w>> = Append(FlattenSeq(StringLists(maps)), w)
    <3>1. FlattenSeq(StringLists(maps)) \in Seq(Strings)
      BY <1>4, <2>5, SeqMonotonic
    <3> QED
      BY <2>5, <3>1
  <2> QED
    BY <2>10, <2>11, <2>12 DEF x, new, map
<1> QED
  BY <1>4, <1>5

\* The maps of arguments with keys at the end of the loop.
Whole(cl) == cl.maps \o (IF cl.curr # {} THEN <<Map(cl.curr, <<>>)>> ELSE <<>>)

LEMMA WholeIs ==
    ASSUME NEW cl \in Splits
    PROVE  /\ Whole(cl) \in Seq(KeyedMaps)
           /\ cl.curr # {} => Map(cl.curr, <<>>) \in KeyedMaps /\ Whole(cl) = Append(cl.maps, Map(cl.curr, <<>>))
           /\ cl.curr = {} => Whole(cl) = cl.maps
<1>1. cl.maps \in Seq(KeyedMaps) /\ cl.curr \in SUBSET Keyed /\ IsFiniteSet(cl.curr)
  BY DEF Splits
<1> DEFINE map == Map(cl.curr, <<>>)
<1>2. map \in KeyedMaps
  BY <1>1, EmptySeq DEF Map, CmdlineMaps, KeyedMaps
<1>3. Whole(cl) = cl.maps \o (IF cl.curr # {} THEN <<map>> ELSE <<>>)
  BY DEF Whole
<1> HIDE DEF map
<1>4. cl.maps \o <<map>> = Append(cl.maps, map) /\ Append(cl.maps, map) \in Seq(KeyedMaps)
  BY <1>1, <1>2
<1>5. cl.maps \o <<>> = cl.maps
  BY <1>1, ConcatEmptySeq
<1> QED
  BY <1>1, <1>2, <1>3, <1>4, <1>5 DEF map

\* The maps that a read makes of a command line, and its arguments without a key.
LEMMA ReadMaps ==
    ASSUME NEW s \in Seq(DOMAIN Key)
    PROVE  /\ Whole(SplitOf(s)) \in Seq(KeyedMaps)
           /\ Whole(SplitOf(s)) = Whole(SplitOf(Part(s, Keyed)))
           /\ splitKernelCmdLine(s) = IF Part(s, Keyless) = <<>> THEN Whole(SplitOf(s))
                                      ELSE Append(Whole(SplitOf(s)), Map({}, Part(s, Keyless)))
<1> DEFINE cl == SplitOf(s)
           maps == Whole(cl)
<1>1. cl \in Splits /\ cl.keyless = Part(s, Keyless)
  BY SplitAll, SplitParts DEF SplitOf
<1>2. splitKernelCmdLine(s) = maps \o (IF cl.keyless # <<>> THEN <<Map({}, cl.keyless)>> ELSE <<>>)
  BY DEF splitKernelCmdLine, NoSplit, SplitOf, Whole
<1>3. maps = Whole(SplitOf(Part(s, Keyed)))
  BY SplitParts DEF Whole
<1> HIDE DEF cl
<1>4. maps \in Seq(KeyedMaps) /\ cl.keyless \in Seq(Keyless)
  BY <1>1, WholeIs DEF Splits
<1> HIDE DEF maps
<1>5. CASE cl.keyless = <<>>
  BY <1>1, <1>2, <1>3, <1>4, <1>5, ConcatEmptySeq DEF maps, cl
<1>6. CASE cl.keyless # <<>>
  <2> DEFINE map == Map({}, cl.keyless)
  <2>1. map \in CmdlineMaps
    BY <1>4, FS_EmptySet DEF Map, CmdlineMaps
  <2>2. maps \in Seq(CmdlineMaps)
    BY <1>4, SeqMonotonic DEF KeyedMaps
  <2>3. splitKernelCmdLine(s) = maps \o <<map>>
    BY <1>2, <1>6
  <2> HIDE DEF map
  <2>4. maps \o <<map>> = Append(maps, map)
    BY <2>1, <2>2
  <2> QED
    BY <1>1, <1>3, <1>4, <1>6, <2>3, <2>4 DEF map, maps, cl
<1> QED
  BY <1>5, <1>6

\* What is read of a line whose arguments with a key are in the order of their ranks
\* makes a line that is read the same.
LEMMA SecondRead ==
    ASSUME NEW s \in Seq(DOMAIN Key), Ranked(Part(s, Keyed))
    PROVE  LET read == splitKernelCmdLine(s)
           IN  splitKernelCmdLine(CmdlineArgs(read)) = read
<1> DEFINE read == splitKernelCmdLine(s)
           t == CmdlineArgs(read)
<1>1. s \in Seq(DOMAIN Key)
  OBVIOUS
<1>2. Ranked(Part(s, Keyed))
  OBVIOUS
<1>3. read \in Seq(CmdlineMaps) /\ \A e : Count(Words(read), e) = Count(s, e)
  BY <1>1, SplitKernelCmdLineIs
<1>4. PICK keyed \in Seq(KeyedMaps) :
          read = IF Part(s, Keyless) = <<>> THEN keyed ELSE Append(keyed, Map({}, Part(s, Keyless)))
  BY <1>1, ReadMaps
<1> HIDE DEF read
<1>5. t \in Seq(DOMAIN Key) /\ \A e : Count(t, e) = Count(s, e)
  BY <1>3, CmdlineIs
<1>6. /\ t = FlattenSeq(SortOf(FlattenSeq(StringLists(read))))
      /\ Ranked(Part(t, Keyed))
  BY <1>3, CmdlineSorts
<1> HIDE DEF t
<1>7. Part(s, Keyed) \in Seq(Keyed) /\ Part(t, Keyed) \in Seq(Keyed) /\ Part(s, Keyless) \in Seq(Keyless)
  BY <1>1, <1>5, PartType
<1>8. Part(t, Keyed) = Part(s, Keyed)
  <2>1. \A e \in Keyed : Count(Part(t, Keyed), e) = Count(Part(s, Keyed), e)
    <3>1. \A e \in Keyed : Count(Part(t, Keyed), e) = Count(t, e) /\ Count(Part(s, Keyed), e) = Count(s, e)
      BY <1>1, <1>5, PartCount
    <3> QED
      BY <1>5, <3>1
  <2> QED
    BY <1>2, <1>6, <1>7, <2>1, RankedUnique
<1>9. Part(t, Keyless) = Part(s, Keyless)
  <2>1. CASE Part(s, Keyless) = <<>>
    <3>1. FlattenSeq(StringLists(read)) \in Seq(KeyedStrings)
      BY <1>4, <2>1, StringListsAppend
    <3> QED
      BY <1>6, <2>1, <3>1, KeyedSorted
  <2>2. CASE Part(s, Keyless) # <<>>
    <3> DEFINE w == Part(s, Keyless)
               L == FlattenSeq(StringLists(keyed))
    <3>1. read = Append(keyed, Map({}, w))
      BY <1>4, <2>2
    <3>2. w \in Seq(Keyless) /\ w # <<>>
      BY <1>7, <2>2
    <3> HIDE DEF w
    <3>3. L \in Seq(KeyedStrings) /\ FlattenSeq(StringLists(read)) = Append(L, w)
      BY <3>1, <3>2, StringListsAppend
    <3> HIDE DEF L
    <3>4. Part(FlattenSeq(SortOf(Append(L, w))), Keyless) = w
      BY <3>2, <3>3, OneKeyless
    <3>5. Part(t, Keyless) = w
      BY <1>6, <3>3, <3>4
    <3> QED
      BY <3>5 DEF w
  <2> QED
    BY <2>1, <2>2
<1>10. splitKernelCmdLine(t) = splitKernelCmdLine(s)
  BY <1>1, <1>5, <1>8, <1>9, SameSplit
<1> QED
  BY <1>10 DEF t, read

-----------------------------------------------------------------------------
(* The attributes that a read leaves as they are.                           *)

\* A map, and one behind another, as a read makes them.
Apart(map) == map.args # {} /\ \A a, b \in map.args : Key[a] = Key[b] => a = b

Follows(map, next) ==
    /\ \A a \in map.args, b \in next.args : Rank[a] <= Rank[b]
    /\ \E b \in next.args :
          /\ \A other \in next.args : Rank[b] <= Rank[other]
          /\ \E a \in map.args : Key[a] = Key[b]

TidyKeyed(maps) ==
    \A n \in 1 .. Len(maps) : Apart(maps[n]) /\ (n > 1 => Follows(maps[n - 1], maps[n]))

LEMMA TidyAppend ==
    ASSUME NEW S, NEW maps \in Seq(S), NEW map \in S
    PROVE  TidyKeyed(Append(maps, map)) <=>
             /\ TidyKeyed(maps)
             /\ Apart(map)
             /\ Len(maps) # 0 => Follows(maps[Len(maps)], map)
<1> DEFINE n == Len(maps)
           new == Append(maps, map)
<1>1. n \in Nat /\ Len(new) = n + 1 /\ new[n + 1] = map /\ \A k \in 1 .. n : new[k] = maps[k]
  BY LenProperties
<1> HIDE DEF new
<1>2. ASSUME TidyKeyed(new)
      PROVE  TidyKeyed(maps) /\ Apart(map) /\ (n # 0 => Follows(maps[n], map))
  <2>1. ASSUME NEW k \in 1 .. n
        PROVE  Apart(maps[k]) /\ (k > 1 => Follows(maps[k - 1], maps[k]))
    <3>1. k \in 1 .. Len(new) /\ (k > 1 => k - 1 \in 1 .. n)
      BY <1>1
    <3> QED
      BY <1>1, <1>2, <3>1 DEF TidyKeyed
  <2>2. n + 1 \in 1 .. Len(new) /\ n + 1 - 1 = n /\ (n # 0 => n + 1 > 1 /\ n \in 1 .. n)
    BY <1>1
  <2>3. Apart(map) /\ (n # 0 => Follows(maps[n], map))
    BY <1>1, <1>2, <2>2 DEF TidyKeyed
  <2> QED
    BY <2>1, <2>3 DEF TidyKeyed
<1>3. ASSUME TidyKeyed(maps), Apart(map), n # 0 => Follows(maps[n], map)
      PROVE  TidyKeyed(new)
  <2>1. ASSUME NEW k \in 1 .. Len(new)
        PROVE  Apart(new[k]) /\ (k > 1 => Follows(new[k - 1], new[k]))
    <3>1. CASE k = n + 1
      <4>1. k > 1 => k - 1 = n /\ n # 0 /\ n \in 1 .. n
        BY <1>1, <3>1
      <4> QED
        BY <1>1, <1>3, <3>1, <4>1
    <3>2. CASE k # n + 1
      <4>1. k \in 1 .. n /\ (k > 1 => k - 1 \in 1 .. n)
        BY <1>1, <3>2
      <4> QED
        BY <1>1, <1>3, <4>1 DEF TidyKeyed
    <3> QED
      BY <3>1, <3>2
  <2> QED
    BY <2>1 DEF TidyKeyed
<1> QED
  BY <1>2, <1>3 DEF new

\* What a read makes of arguments in the order of their ranks.
LEMMA SplitIsTidy ==
    ASSUME NEW v \in Seq(Keyed), Ranked(v)
    PROVE  TidyKeyed(Whole(SplitOf(v)))
<1> DEFINE Good(u) == /\ TidyKeyed(Whole(SplitOf(u)))
                      /\ SplitOf(u).curr = {} => SplitOf(u).maps = <<>>
                      /\ \A a \in SplitOf(u).curr : \E k \in 1 .. Len(u) : u[k] = a
           G == {u \in Seq(Keyed) : Ranked(u) => Good(u)}
<1>1. <<>> \in G
  <2>1. SplitOf(<<>>).curr = {} /\ SplitOf(<<>>).maps = <<>>
    BY SplitOfEmpty DEF NoSplit
  <2>2. Whole(SplitOf(<<>>)) = <<>>
    BY NoSplitIs, SplitOfEmpty, WholeIs, <2>1
  <2>3. TidyKeyed(<<>>)
    BY DEF TidyKeyed
  <2> QED
    BY <2>1, <2>2, <2>3, EmptySeq
<1>2. ASSUME NEW u \in Seq(Keyed), NEW x \in Keyed, u \in G
      PROVE  Append(u, x) \in G
  <2> DEFINE t == Append(u, x)
             cl == SplitOf(u)
             m == Len(u)
  <2>1. Keyed \subseteq DOMAIN Key /\ u \in Seq(DOMAIN Key) /\ x \in DOMAIN Key /\ Key[x] # None
    BY SeqMonotonic DEF Keyed
  <2>2. t \in Seq(Keyed) /\ m \in Nat /\ Len(t) = m + 1 /\ t[m + 1] = x /\ \A k \in 1 .. m : t[k] = u[k]
    BY LenProperties
  <2>3. cl \in Splits /\ SplitOf(t) = SplitArg(cl, x) /\ SplitArg(cl, x) \in Splits
    BY <2>1, SplitAll, SplitOfAppend, SplitIs DEF SplitOf
  <2>4. /\ cl = [maps |-> cl.maps, curr |-> cl.curr, keyless |-> cl.keyless]
        /\ cl.maps \in Seq(KeyedMaps) /\ cl.curr \in SUBSET Keyed /\ IsFiniteSet(cl.curr)
    BY <2>3 DEF Splits
  <2> SUFFICES ASSUME Ranked(t) PROVE Good(t)
    BY <2>2
  <2>5. Ranked(u) /\ \A k \in 1 .. m : Rank[u[k]] <= Rank[x]
    <3>1. \A k \in 1 .. m : k \in 1 .. Len(t) /\ m + 1 \in 1 .. Len(t) /\ k < m + 1
      BY <2>2
    <3> HIDE DEF t
    <3>2. \A k \in 1 .. m : Rank[u[k]] <= Rank[x]
      BY <2>2, <3>1 DEF Ranked
    <3>3. Ranked(u)
      BY <2>2, <3>1 DEF Ranked
    <3> QED
      BY <3>2, <3>3
  <2>6. Good(u)
    BY <1>2, <2>5
  <2>7. \A a \in cl.curr : Rank[a] \in Int /\ Rank[a] <= Rank[x]
    BY <2>1, <2>4, <2>5, <2>6, RankAssumption
  <2>8. Rank[x] \in Int
    BY <2>1, RankAssumption
  <2> HIDE DEF t, cl
  <2>9. CASE \E other \in cl.curr : Key[other] = Key[x]
    <3> DEFINE map == Map({x}, <<>>)
    <3>1. SplitOf(t) = [maps |-> Append(cl.maps, Map(cl.curr, <<>>)), curr |-> {x}, keyless |-> cl.keyless]
      BY <2>1, <2>3, <2>4, <2>9 DEF SplitArg
    <3>2. cl.curr # {} /\ SplitOf(t).curr = {x} /\ SplitOf(t).maps = Append(cl.maps, Map(cl.curr, <<>>))
      BY <2>9, <3>1
    <3>3. /\ Whole(cl) = Append(cl.maps, Map(cl.curr, <<>>)) /\ Whole(cl) \in Seq(KeyedMaps)
          /\ Map(cl.curr, <<>>) \in KeyedMaps
      BY <2>3, <3>2, WholeIs
    <3>4. Whole(SplitOf(t)) = Append(Whole(cl), map) /\ map \in KeyedMaps
      BY <2>3, <3>2, <3>3, WholeIs
    <3>5. map.args = {x} /\ Map(cl.curr, <<>>).args = cl.curr
      BY DEF Map
    <3> HIDE DEF map
    <3>6. Apart(map)
      BY <3>5 DEF Apart
    <3>7. Len(Whole(cl)) # 0 /\ Whole(cl)[Len(Whole(cl))] = Map(cl.curr, <<>>)
      BY <2>4, <3>3, LenProperties
    <3>8. Follows(Map(cl.curr, <<>>), map)
      BY <2>7, <2>8, <2>9, <3>5 DEF Follows
    <3>9. TidyKeyed(Whole(cl))
      BY <2>6 DEF cl
    <3>10. TidyKeyed(Whole(SplitOf(t)))
      BY <3>3, <3>4, <3>6, <3>7, <3>8, <3>9, TidyAppend
    <3>11. m + 1 \in 1 .. Len(t)
      BY <2>2
    <3> QED
      BY <2>2, <3>2, <3>10, <3>11
  <2>10. CASE ~\E other \in cl.curr : Key[other] = Key[x]
    <3> DEFINE map == Map(cl.curr \union {x}, <<>>)
               n == Len(cl.maps)
    <3>1. SplitOf(t) = [maps |-> cl.maps, curr |-> cl.curr \union {x}, keyless |-> cl.keyless]
      BY <2>1, <2>3, <2>4, <2>10 DEF SplitArg
    <3>2. SplitOf(t).curr = cl.curr \union {x} /\ SplitOf(t).maps = cl.maps
      BY <3>1
    <3>3. Whole(SplitOf(t)) = Append(cl.maps, map) /\ map \in KeyedMaps
      BY <2>3, <3>2, WholeIs
    <3>4. map.args = cl.curr \union {x}
      BY DEF Map
    <3> HIDE DEF map
    <3>5. TidyKeyed(Append(cl.maps, map))
      <4>1. CASE cl.curr = {}
        <5>1. cl.maps = <<>> /\ n = 0
          BY <2>6, <4>1 DEF cl
        <5>2. Apart(map) /\ TidyKeyed(cl.maps)
          BY <3>4, <4>1, <5>1 DEF Apart, TidyKeyed
        <5> QED
          BY <2>4, <3>3, <5>1, <5>2, TidyAppend
      <4>2. CASE cl.curr # {}
        <5> DEFINE old == Map(cl.curr, <<>>)
        <5>1. old.args = cl.curr
          BY DEF Map
        <5>2. Whole(cl) = Append(cl.maps, old) /\ old \in KeyedMaps
          BY <2>3, <4>2, WholeIs
        <5> HIDE DEF old
        <5>3. TidyKeyed(Append(cl.maps, old))
          BY <2>6, <5>2 DEF cl
        <5>4. TidyKeyed(cl.maps) /\ Apart(old) /\ (n # 0 => Follows(cl.maps[n], old))
          BY <2>4, <5>2, <5>3, TidyAppend
        <5>5. Apart(map)
          BY <2>10, <3>4, <5>1, <5>4 DEF Apart
        <5>6. ASSUME n # 0
              PROVE  Follows(cl.maps[n], map)
          <6>1. n \in 1 .. n
            BY <2>4, <5>6, LenProperties
          <6>2. cl.maps[n] \in CmdlineMaps
            BY <2>4, <6>1, ElementOfSeq DEF KeyedMaps
          <6>3. \A a \in cl.maps[n].args : Rank[a] \in Int
            BY <6>2, RankAssumption DEF CmdlineMaps, Keyed
          <6>4. PICK c \in cl.curr : /\ \A other \in cl.curr : Rank[c] <= Rank[other]
                                     /\ \E a \in cl.maps[n].args : Key[a] = Key[c]
            BY <5>1, <5>4, <5>6 DEF Follows
          <6>5. \A a \in cl.maps[n].args, b \in cl.curr : Rank[a] <= Rank[b]
            BY <5>1, <5>4, <5>6 DEF Follows
          <6>6. \A a \in cl.maps[n].args : Rank[a] <= Rank[x]
            BY <2>7, <2>8, <6>3, <6>4, <6>5
          <6> QED
            BY <2>7, <3>4, <6>4, <6>5, <6>6 DEF Follows
        <5> QED
          BY <2>4, <3>3, <5>4, <5>5, <5>6, TidyAppend
      <4> QED
        BY <4>1, <4>2
    <3>6. \A a \in SplitOf(t).curr : \E k \in 1 .. Len(t) : t[k] = a
      <4>1. m + 1 \in 1 .. Len(t) /\ \A k \in 1 .. m : k \in 1 .. Len(t)
        BY <2>2
      <4> QED
        BY <2>2, <2>6, <3>2, <4>1 DEF cl
    <3> QED
      BY <3>2, <3>3, <3>5, <3>6
  <2> QED
    BY <2>9, <2>10
<1> HIDE DEF G
<1>3. Seq(Keyed) \subseteq G
  BY <1>1, <1>2, AllSequences
<1> QED
  BY <1>3 DEF G

\* A set of arguments in the order of their ranks.
LEMMA RankedSet ==
    ASSUME NEW A \in SUBSET Keyed, IsFiniteSet(A)
    PROVE  \E w \in Seq(Keyed) : /\ Ranked(w)
                                 /\ \A j, k \in 1 .. Len(w) : w[j] = w[k] => j = k
                                 /\ {w[k] : k \in 1 .. Len(w)} = A
<1> DEFINE map == Map(A, <<>>)
           s == CmdlineArgs(<<map>>)
           w == Part(s, Keyed)
<1>1. map \in CmdlineMaps /\ map.args = A /\ map.keyless = <<>>
  BY EmptySeq DEF Map, CmdlineMaps
<1> HIDE DEF map
<1>2. <<map>> \in Seq(CmdlineMaps)
  BY <1>1
<1>3. s \in Seq(DOMAIN Key) /\ Ranked(w) /\ \A e : Count(s, e) = Count(Words(<<map>>), e)
  BY <1>2, CmdlineIs, CmdlineSorts
<1>4. \A e : Count(Words(<<map>>), e) = IF e \in A THEN 1 ELSE 0
  <2> TAKE e
  <2>1. WordLists(<<map>>) = <<WordsOf(map)>>
    BY DEF WordLists
  <2>2. Count(Words(<<map>>), e) = CountIn(<<WordsOf(map)>>, e)
    BY <1>2, <2>1, WordsAre
  <2>3. WordsOf(map) \in Seq(DOMAIN Key) /\ Count(WordsOf(map), e) = (IF e \in A THEN 1 ELSE 0) + Count(<<>>, e)
    BY <1>1, MapWords
  <2>4. CountIn(<<WordsOf(map)>>, e) = Count(WordsOf(map), e)
    BY <2>3, CountInIs
  <2> QED
    BY <2>2, <2>3, <2>4, CountEmpty
<1> HIDE DEF s
<1>5. w \in Seq(Keyed) /\ \A e \in Keyed : Count(w, e) = IF e \in A THEN 1 ELSE 0
  BY <1>3, <1>4, PartType, PartCount
<1> HIDE DEF w
<1>6. DOMAIN w = 1 .. Len(w) /\ Len(w) \in Nat /\ \A k \in 1 .. Len(w) : w[k] \in Keyed
  BY <1>5, LenProperties, ElementOfSeq
<1>7. \A e \in Keyed : e \in A <=> \E k \in 1 .. Len(w) : w[k] = e
  <2> SUFFICES ASSUME NEW e \in Keyed PROVE e \in A <=> \E k \in 1 .. Len(w) : w[k] = e
    OBVIOUS
  <2>1. Count(w, e) = 0 <=> \A k \in DOMAIN w : w[k] # e
    BY <1>5, CountIs
  <2>2. Count(w, e) = IF e \in A THEN 1 ELSE 0
    BY <1>5
  <2> QED
    BY <1>6, <2>1, <2>2
<1>8. ASSUME NEW j \in 1 .. Len(w), NEW k \in 1 .. Len(w), w[j] = w[k]
      PROVE  j = k
  <2> DEFINE e == w[j]
             P == {m \in DOMAIN w : w[m] = e}
  <2>1. e \in Keyed /\ e \in A
    BY <1>6, <1>7
  <2>2. Count(w, e) = 1 /\ IsFiniteSet(P)
    BY <1>5, <2>1, CountIs
  <2>3. Cardinality(P) = 1 /\ j \in P /\ k \in P
    BY <1>6, <1>8, <2>2 DEF Count
  <2> HIDE DEF P
  <2>4. \E m : P = {m}
    BY <2>2, <2>3, FS_Singleton
  <2> QED
    BY <2>3, <2>4
<1>9. {w[k] : k \in 1 .. Len(w)} = A
  BY <1>6, <1>7
<1> QED
  BY <1>3, <1>5, <1>8, <1>9 DEF w

\* Arguments whose keys differ, the first of which starts a new map, make that map.
LEMMA NextMap ==
    ASSUME NEW v \in Seq(Keyed), NEW w \in Seq(Keyed),
           \A j, k \in 1 .. Len(w) : Key[w[j]] = Key[w[k]] => j = k,
           Len(w) # 0,
           SplitOf(v).curr # {} => \E a \in SplitOf(v).curr : Key[a] = Key[w[1]]
    PROVE  SplitOf(v \o w) = [maps |-> Whole(SplitOf(v)), curr |-> {w[k] : k \in 1 .. Len(w)},
                              keyless |-> SplitOf(v).keyless]
<1> DEFINE cl == SplitOf(v)
           Fits(u) == /\ \A j, k \in 1 .. Len(u) : Key[u[j]] = Key[u[k]] => j = k
                      /\ Len(u) # 0
                      /\ cl.curr # {} => \E a \in cl.curr : Key[a] = Key[u[1]]
           Is(u) == SplitOf(v \o u) = [maps |-> Whole(cl), curr |-> {u[k] : k \in 1 .. Len(u)}, keyless |-> cl.keyless]
           G == {u \in Seq(Keyed) : Fits(u) => Is(u)}
<1>1. Keyed \subseteq DOMAIN Key /\ Seq(Keyed) \subseteq Seq(DOMAIN Key)
  <2>1. Keyed \subseteq DOMAIN Key
    BY DEF Keyed
  <2> QED
    BY <2>1, SeqMonotonic
<1>2. cl \in Splits /\ cl = [maps |-> cl.maps, curr |-> cl.curr, keyless |-> cl.keyless]
  <2>1. cl \in Splits
    BY <1>1, SplitAll DEF SplitOf
  <2> QED
    BY <2>1 DEF Splits
<1>3. <<>> \in G
  BY EmptySeq
<1>4. ASSUME NEW u \in Seq(Keyed), NEW x \in Keyed, u \in G
      PROVE  Append(u, x) \in G
  <2> DEFINE t == Append(u, x)
             m == Len(u)
  <2>1. t \in Seq(Keyed) /\ m \in Nat /\ Len(t) = m + 1 /\ t[m + 1] = x /\ \A k \in 1 .. m : t[k] = u[k]
    BY LenProperties
  <2>2. v \o u \in Seq(Keyed) /\ v \o t = Append(v \o u, x)
    BY ConcatAppend
  <2>3. SplitOf(v \o t) = SplitArg(SplitOf(v \o u), x) /\ x \in DOMAIN Key /\ Key[x] # None
    <3>1. v \o u \in Seq(DOMAIN Key) /\ x \in DOMAIN Key /\ Key[x] # None
      BY <1>1, <2>2 DEF Keyed
    <3> QED
      BY <2>2, <3>1, SplitOfAppend
  <2> HIDE DEF t, cl
  <2> SUFFICES ASSUME Fits(t) PROVE Is(t)
    BY <2>1 DEF t
  <2>4. {t[k] : k \in 1 .. Len(t)} = {u[k] : k \in 1 .. m} \union {x}
    <3>1. 1 .. Len(t) = (1 .. m) \union {m + 1}
      BY <2>1
    <3>2. \A k \in 1 .. m : k \in 1 .. Len(t) /\ t[k] = u[k]
      BY <2>1, <3>1
    <3>3. m + 1 \in 1 .. Len(t) /\ t[m + 1] = x
      BY <2>1, <3>1
    <3> DEFINE A == {t[k] : k \in 1 .. Len(t)}
               B == {u[k] : k \in 1 .. m}
    <3>4. \A k \in 1 .. Len(t) : t[k] \in B \union {x}
      <4>1. \A k \in 1 .. Len(t) : k \in 1 .. m \/ k = m + 1
        BY <3>1
      <4>2. \A k \in 1 .. m : u[k] \in B
        OBVIOUS
      <4> HIDE DEF B
      <4> QED
        BY <3>2, <3>3, <4>1, <4>2
    <3>5. A \subseteq B \union {x}
      BY <3>4
    <3>6. \A k \in 1 .. Len(t) : t[k] \in A
      OBVIOUS
    <3>7. B \subseteq A
      BY <3>2
    <3> HIDE DEF A, B
    <3>8. x \in A
      BY <3>3, <3>6
    <3>9. A = B \union {x}
      BY <3>5, <3>7, <3>8
    <3> QED
      BY <3>9 DEF A, B
  <2>5. CASE m = 0
    <3>1. u = <<>> /\ v \o u = v /\ t[1] = x
      BY <2>1, <2>5, EmptySeq, ConcatEmptySeq
    <3>2. SplitOf(v \o t) = SplitArg(cl, x)
      BY <2>3, <3>1 DEF cl
    <3>3. {u[k] : k \in 1 .. m} = {}
      BY <2>5
    <3>4. CASE cl.curr = {}
      <4>1. SplitArg(cl, x) = [maps |-> cl.maps, curr |-> {x}, keyless |-> cl.keyless]
        BY <1>2, <2>3, <3>4 DEF SplitArg
      <4>2. Whole(cl) = cl.maps
        BY <1>2, <3>4, WholeIs
      <4> QED
        BY <2>4, <3>2, <3>3, <4>1, <4>2
    <3>5. CASE cl.curr # {}
      <4>1. \E other \in cl.curr : Key[other] = Key[x]
        BY <3>1, <3>5
      <4>2. SplitArg(cl, x) = [maps |-> Append(cl.maps, Map(cl.curr, <<>>)), curr |-> {x}, keyless |-> cl.keyless]
        BY <1>2, <2>3, <4>1 DEF SplitArg
      <4>3. Whole(cl) = Append(cl.maps, Map(cl.curr, <<>>))
        BY <1>2, <3>5, WholeIs
      <4> QED
        BY <2>4, <3>2, <3>3, <4>2, <4>3
    <3> QED
      BY <3>4, <3>5
  <2>6. CASE m # 0
    <3>1. Fits(u)
      <4>1. \A k \in 1 .. m : k \in 1 .. Len(t)
        BY <2>1
      <4>2. 1 \in 1 .. m
        BY <2>1, <2>6
      <4> QED
        BY <2>1, <2>6, <4>1, <4>2
    <3> DEFINE now == [maps |-> Whole(cl), curr |-> {u[k] : k \in 1 .. m}, keyless |-> cl.keyless]
    <3>2. SplitOf(v \o u) = now
      BY <1>4, <3>1
    <3>3. ~\E other \in now.curr : Key[other] = Key[x]
      <4>1. ASSUME NEW k \in 1 .. m PROVE Key[u[k]] # Key[x]
        <5>1. k \in 1 .. Len(t) /\ m + 1 \in 1 .. Len(t) /\ k # m + 1
          BY <2>1
        <5> QED
          BY <2>1, <5>1
      <4> QED
        BY <4>1
    <3>4. SplitArg(now, x) = [maps |-> Whole(cl), curr |-> {u[k] : k \in 1 .. m} \union {x}, keyless |-> cl.keyless]
      BY <2>3, <3>3 DEF SplitArg
    <3> QED
      BY <2>3, <2>4, <3>2, <3>4
  <2> QED
    BY <2>5, <2>6
<1> HIDE DEF G
<1>5. Seq(Keyed) \subseteq G
  BY <1>3, <1>4, AllSequences
<1> QED
  BY <1>5 DEF G

\* Every tidy list of maps is what a read makes of arguments in the order of their ranks.
LEMMA TidyIsSplit ==
    ASSUME NEW maps \in Seq(KeyedMaps), TidyKeyed(maps)
    PROVE  \E v \in Seq(Keyed) : Ranked(v) /\ Whole(SplitOf(v)) = maps
<1> DEFINE Good(M, v) ==
             /\ Ranked(v)
             /\ Whole(SplitOf(v)) = M
             /\ SplitOf(v).curr = {} => v = <<>>
             /\ \A k \in 1 .. Len(v) : \E a \in SplitOf(v).curr : Rank[v[k]] <= Rank[a]
           G == {M \in Seq(KeyedMaps) : TidyKeyed(M) => \E v \in Seq(Keyed) : Good(M, v)}
<1>1. Keyed \subseteq DOMAIN Key /\ Seq(Keyed) \subseteq Seq(DOMAIN Key) /\ \A a \in Keyed : Rank[a] \in Int
  <2>1. Keyed \subseteq DOMAIN Key
    BY DEF Keyed
  <2> QED
    BY <2>1, SeqMonotonic, RankAssumption
<1>2. <<>> \in G
  <2>1. Whole(SplitOf(<<>>)) = <<>>
    BY NoSplitIs, SplitOfEmpty, WholeIs DEF NoSplit
  <2>2. Good(<<>>, <<>>)
    BY <2>1, EmptySeq DEF Ranked
  <2> QED
    BY <2>2, EmptySeq
<1>3. ASSUME NEW M \in Seq(KeyedMaps), NEW N \in KeyedMaps, M \in G
      PROVE  Append(M, N) \in G
  <2>1. Append(M, N) \in Seq(KeyedMaps)
    OBVIOUS
  <2> SUFFICES ASSUME TidyKeyed(Append(M, N)) PROVE \E v \in Seq(Keyed) : Good(Append(M, N), v)
    BY <2>1
  <2>2. TidyKeyed(M) /\ Apart(N) /\ (Len(M) # 0 => Follows(M[Len(M)], N))
    BY TidyAppend
  <2>3. PICK v \in Seq(Keyed) : Good(M, v)
    BY <1>3, <2>2
  <2>4. N.args \in SUBSET Keyed /\ IsFiniteSet(N.args) /\ N = Map(N.args, <<>>)
    BY DEF KeyedMaps, CmdlineMaps, Map
  <2>5. PICK w \in Seq(Keyed) : /\ Ranked(w)
                                /\ \A j, k \in 1 .. Len(w) : w[j] = w[k] => j = k
                                /\ {w[k] : k \in 1 .. Len(w)} = N.args
    BY <2>4, RankedSet
  <2> DEFINE cl == SplitOf(v)
             t == v \o w
  <2>6. cl \in Splits
    BY <1>1, SplitAll DEF SplitOf
  <2>7. /\ Len(w) \in Nat /\ Len(v) \in Nat
        /\ \A k \in 1 .. Len(w) : w[k] \in Keyed /\ w[k] \in N.args
        /\ \A k \in 1 .. Len(v) : v[k] \in Keyed
    BY <2>5, LenProperties, ElementOfSeq
  <2>8. \A j, k \in 1 .. Len(w) : Key[w[j]] = Key[w[k]] => j = k
    BY <2>2, <2>5, <2>7 DEF Apart
  <2>9. Len(w) # 0
    BY <2>2, <2>5, <2>7 DEF Apart
  <2>10. cl.curr # {} => Len(M) # 0 /\ M[Len(M)] = Map(cl.curr, <<>>) /\ Map(cl.curr, <<>>).args = cl.curr
    <3> SUFFICES ASSUME cl.curr # {}
                 PROVE  Len(M) # 0 /\ M[Len(M)] = Map(cl.curr, <<>>)
      BY DEF Map
    <3>1. M = Append(cl.maps, Map(cl.curr, <<>>)) /\ Map(cl.curr, <<>>) \in KeyedMaps
      BY <2>3, <2>6, WholeIs
    <3>2. cl.maps \in Seq(KeyedMaps)
      BY <2>6 DEF Splits
    <3> QED
      BY <3>1, <3>2, LenProperties
  <2>11. cl.curr \in SUBSET Keyed
    BY <2>6 DEF Splits
  <2> HIDE DEF cl
  <2>12. cl.curr # {} => \E a \in cl.curr : Key[a] = Key[w[1]]
    <3> SUFFICES ASSUME cl.curr # {} PROVE \E a \in cl.curr : Key[a] = Key[w[1]]
      OBVIOUS
    <3>1. PICK b \in N.args : /\ \A other \in N.args : Rank[b] <= Rank[other]
                              /\ \E a \in cl.curr : Key[a] = Key[b]
      BY <2>2, <2>10 DEF Follows
    <3>2. PICK k \in 1 .. Len(w) : w[k] = b
      BY <2>5
    <3>3. 1 \in 1 .. Len(w) /\ (k = 1 \/ 1 < k)
      BY <2>7, <2>9
    <3>4. Rank[w[1]] = Rank[b]
      <4>1. Rank[b] <= Rank[w[1]] /\ Rank[w[1]] \in Int /\ Rank[b] \in Int
        BY <1>1, <2>7, <3>1, <3>2, <3>3
      <4>2. Rank[w[1]] <= Rank[b]
        BY <2>5, <3>2, <3>3, <4>1 DEF Ranked
      <4> QED
        BY <4>1, <4>2
    <3>5. w[1] = b
      BY <1>1, <2>7, <3>2, <3>3, <3>4, RankAssumption
    <3> QED
      BY <3>1, <3>5
  <2>13. SplitOf(t) = [maps |-> Whole(cl), curr |-> N.args, keyless |-> cl.keyless]
    BY <2>5, <2>8, <2>9, <2>12, NextMap DEF cl
  <2>14. /\ t \in Seq(Keyed) /\ Len(t) = Len(v) + Len(w)
         /\ \A k \in 1 .. Len(t) : t[k] = IF k <= Len(v) THEN v[k] ELSE w[k - Len(v)]
    BY ConcatProperties
  <2> HIDE DEF t
  <2>15. Whole(SplitOf(t)) = Append(M, N)
    <3>1. SplitOf(t) \in Splits
      BY <1>1, <2>14, SplitAll DEF SplitOf
    <3>2. SplitOf(t).curr = N.args /\ SplitOf(t).maps = M /\ N.args # {}
      BY <2>2, <2>3, <2>13 DEF cl, Apart
    <3> QED
      BY <2>4, <3>1, <3>2, WholeIs
  <2>16. \A k \in 1 .. Len(v), b \in N.args : Rank[v[k]] <= Rank[b]
    <3> SUFFICES ASSUME NEW k \in 1 .. Len(v), NEW b \in N.args PROVE Rank[v[k]] <= Rank[b]
      OBVIOUS
    <3>1. PICK a \in cl.curr : Rank[v[k]] <= Rank[a]
      BY <2>3 DEF cl
    <3>2. Rank[a] <= Rank[b]
      BY <2>2, <2>10, <3>1 DEF Follows
    <3>3. Rank[a] \in Int /\ Rank[b] \in Int /\ Rank[v[k]] \in Int
      BY <1>1, <2>4, <2>7, <2>11
    <3> QED
      BY <3>1, <3>2, <3>3
  <2>17. \A k \in 1 .. Len(t) : \E a \in N.args : Rank[t[k]] <= Rank[a]
    <3> SUFFICES ASSUME NEW k \in 1 .. Len(t) PROVE \E a \in N.args : Rank[t[k]] <= Rank[a]
      OBVIOUS
    <3>1. CASE k <= Len(v)
      <4>1. k \in 1 .. Len(v) /\ t[k] = v[k] /\ 1 \in 1 .. Len(w)
        BY <2>7, <2>9, <2>14, <3>1
      <4> QED
        BY <2>7, <2>16, <4>1
    <3>2. CASE ~(k <= Len(v))
      <4>1. k - Len(v) \in 1 .. Len(w) /\ t[k] = w[k - Len(v)]
        BY <2>7, <2>14, <3>2
      <4>2. Rank[w[k - Len(v)]] \in Int
        BY <1>1, <2>7, <4>1
      <4> QED
        BY <2>7, <4>1, <4>2
    <3> QED
      BY <3>1, <3>2
  <2>18. Ranked(t)
    <3> SUFFICES ASSUME NEW j \in 1 .. Len(t), NEW k \in 1 .. Len(t), j < k PROVE Rank[t[j]] <= Rank[t[k]]
      BY DEF Ranked
    <3>1. CASE k <= Len(v)
      <4>1. j \in 1 .. Len(v) /\ k \in 1 .. Len(v) /\ t[j] = v[j] /\ t[k] = v[k]
        BY <2>7, <2>14, <3>1
      <4> QED
        BY <2>3, <4>1 DEF Ranked
    <3>2. CASE ~(k <= Len(v)) /\ j <= Len(v)
      <4>1. j \in 1 .. Len(v) /\ k - Len(v) \in 1 .. Len(w) /\ t[j] = v[j] /\ t[k] = w[k - Len(v)]
        BY <2>7, <2>14, <3>2
      <4> QED
        BY <2>7, <2>16, <4>1
    <3>3. CASE ~(k <= Len(v)) /\ ~(j <= Len(v))
      <4>1. /\ j - Len(v) \in 1 .. Len(w) /\ k - Len(v) \in 1 .. Len(w) /\ j - Len(v) < k - Len(v)
            /\ t[j] = w[j - Len(v)] /\ t[k] = w[k - Len(v)]
        BY <2>7, <2>14, <3>3
      <4> QED
        BY <2>5, <4>1 DEF Ranked
    <3> QED
      BY <3>1, <3>2, <3>3
  <2>19. SplitOf(t).curr # {} /\ SplitOf(t).curr = N.args
    BY <2>2, <2>13 DEF Apart
  <2> QED
    BY <2>14, <2>15, <2>17, <2>18, <2>19
<1> HIDE DEF G
<1>4. maps \in G
  BY <1>2, <1>3, AllSequences
<1> QED
  BY <1>4 DEF G

\* An attribute is tidy when its maps of arguments with keys are, and one map of the
\* others is behind them.
LEMMA TidyParts ==
    ASSUME NEW keyed \in Seq(KeyedMaps), NEW w \in Seq(Keyless),
           NEW maps, maps = IF w = <<>> THEN keyed ELSE Append(keyed, Map({}, w))
    PROVE  TidyKeyed(keyed) <=> Tidy(maps)
<1> DEFINE n == Len(keyed)
           OfMap(k) == /\ IF maps[k].args = {} THEN k = Len(maps) /\ maps[k].keyless # <<>> ELSE maps[k].keyless = <<>>
                       /\ \A a, b \in maps[k].args : Key[a] = Key[b] => a = b
                       /\ k > 1 =>
                            /\ \A a \in maps[k - 1].args, b \in maps[k].args : Rank[a] <= Rank[b]
                            /\ maps[k].args # {} =>
                                 \E b \in maps[k].args :
                                     /\ \A other \in maps[k].args : Rank[b] <= Rank[other]
                                     /\ \E a \in maps[k - 1].args : Key[a] = Key[b]
           map == Map({}, w)
<1>1. n \in Nat /\ DOMAIN keyed = 1 .. n /\ \A k \in 1 .. n : keyed[k] \in KeyedMaps
  BY LenProperties, ElementOfSeq
<1>2. map.args = {} /\ map.keyless = w
  BY DEF Map
<1> HIDE DEF map
<1>3. /\ w = <<>> => DOMAIN maps = 1 .. n /\ Len(maps) = n
      /\ w # <<>> => DOMAIN maps = 1 .. n + 1 /\ Len(maps) = n + 1 /\ maps[n + 1] = map
      /\ \A k \in 1 .. n : maps[k] = keyed[k]
  <2>1. CASE w = <<>>
    BY <1>1, <2>1
  <2>2. CASE w # <<>>
    <3>1. maps = Append(keyed, map)
      BY <2>2 DEF map
    <3> DEFINE S == KeyedMaps \union {map}
    <3>2. keyed \in Seq(S) /\ map \in S
      BY SeqMonotonic
    <3> HIDE DEF S
    <3>3. /\ Append(keyed, map) \in Seq(S) /\ Len(Append(keyed, map)) = n + 1
          /\ Append(keyed, map)[n + 1] = map
          /\ \A k \in 1 .. n : Append(keyed, map)[k] = keyed[k]
      BY <3>2, AppendProperties
    <3>4. DOMAIN Append(keyed, map) = 1 .. n + 1
      BY <3>3, LenProperties
    <3> QED
      BY <2>2, <3>1, <3>3, <3>4
  <2> QED
    BY <2>1, <2>2
<1>4. Tidy(maps) <=> \A k \in DOMAIN maps : OfMap(k)
  BY DEF Tidy
<1>5. \A k \in 1 .. n : maps[k].keyless = <<>>
  BY <1>1, <1>3 DEF KeyedMaps
<1>6. \A k \in 1 .. n : k > 1 => k - 1 \in 1 .. n
  BY <1>1
<1>7. ASSUME NEW k \in 1 .. n
      PROVE  OfMap(k) <=> Apart(keyed[k]) /\ (k > 1 => Follows(keyed[k - 1], keyed[k]))
  <2>1. maps[k] = keyed[k] /\ maps[k].keyless = <<>> /\ (k > 1 => maps[k - 1] = keyed[k - 1])
    BY <1>3, <1>5, <1>6
  <2> QED
    BY <2>1 DEF Apart, Follows
<1>8. w # <<>> => OfMap(n + 1)
  BY <1>1, <1>2, <1>3
<1> HIDE DEF OfMap
<1>9. (\A k \in DOMAIN maps : OfMap(k)) <=> \A k \in 1 .. n : OfMap(k)
  <2>1. \A k \in 1 .. n + 1 : k \in 1 .. n \/ k = n + 1
    BY <1>1
  <2>2. \A k \in 1 .. n : k \in 1 .. n + 1
    BY <1>1
  <2> QED
    BY <1>3, <1>8, <2>1, <2>2
<1> QED
  BY <1>4, <1>7, <1>9 DEF TidyKeyed

\* A tidy attribute is made of such parts.
LEMMA TidyHasParts ==
    ASSUME NEW maps \in Seq(CmdlineMaps), Tidy(maps)
    PROVE  \E keyed \in Seq(KeyedMaps), w \in Seq(Keyless) :
              maps = IF w = <<>> THEN keyed ELSE Append(keyed, Map({}, w))
<1>1. DOMAIN maps = 1 .. Len(maps) /\ Len(maps) \in Nat /\ \A k \in 1 .. Len(maps) : maps[k] \in CmdlineMaps
  BY LenProperties, ElementOfSeq
<1>2. \A k \in 1 .. Len(maps) : IF maps[k].args = {} THEN k = Len(maps) ELSE maps[k].keyless = <<>>
  BY <1>1 DEF Tidy
<1>3. CASE \A k \in 1 .. Len(maps) : maps[k].args # {}
  <2>1. \A k \in 1 .. Len(maps) : maps[k] \in KeyedMaps
    BY <1>1, <1>2, <1>3 DEF KeyedMaps
  <2>2. maps \in Seq(KeyedMaps)
    BY <1>1, <2>1, SeqDef
  <2> QED
    BY <2>2, EmptySeq
<1>4. CASE \E k \in 1 .. Len(maps) : maps[k].args = {}
  <2>1. maps[Len(maps)].args = {} /\ Len(maps) # 0
    <3>1. PICK k \in 1 .. Len(maps) : maps[k].args = {}
      BY <1>4
    <3>2. k = Len(maps)
      BY <1>2, <3>1
    <3> QED
      BY <1>1, <3>1, <3>2
  <2>2. maps # <<>>
    BY <2>1
  <2>3. PICK keyed \in Seq(CmdlineMaps), map \in CmdlineMaps :
            maps = Append(keyed, map) /\ Len(maps) = Len(keyed) + 1 /\ Len(keyed) \in Nat
    BY <2>2, FrontAndLast
  <2>4. map = maps[Len(maps)] /\ \A k \in 1 .. Len(keyed) : keyed[k] = maps[k]
    BY <2>3, LenProperties
  <2>5. \A k \in 1 .. Len(keyed) : keyed[k] \in KeyedMaps
    <3>1. \A k \in 1 .. Len(keyed) : k \in 1 .. Len(maps) /\ k # Len(maps)
      BY <2>3
    <3> QED
      BY <1>1, <1>2, <2>4, <3>1 DEF KeyedMaps
  <2>6. keyed \in Seq(KeyedMaps)
    BY <2>3, <2>5, LenProperties, SeqDef
  <2>7. map = Map({}, map.keyless) /\ map.keyless \in Seq(Keyless)
    BY <2>1, <2>4 DEF CmdlineMaps, Map
  <2>8. map.keyless # <<>>
    <3>1. Len(maps) \in DOMAIN maps
      BY <1>1, <2>1
    <3> QED
      BY <2>1, <2>4, <3>1 DEF Tidy
  <2> QED
    BY <2>3, <2>6, <2>7, <2>8
<1> QED
  BY <1>3, <1>4

\* A read leaves an attribute as it is, if and only if it is tidy.
LEMMA TidyReads ==
    ASSUME NEW maps \in Seq(CmdlineMaps)
    PROVE  splitKernelCmdLine(CmdlineArgs(maps)) = maps <=> Tidy(maps)
<1> DEFINE s == CmdlineArgs(maps)
<1>1. s \in Seq(DOMAIN Key) /\ Ranked(Part(s, Keyed))
  BY CmdlineIs, CmdlineSorts
<1> HIDE DEF s
<1>2. ASSUME splitKernelCmdLine(s) = maps
      PROVE  Tidy(maps)
  <2> DEFINE keyed == Whole(SplitOf(s))
             w == Part(s, Keyless)
  <2>1. keyed \in Seq(KeyedMaps) /\ keyed = Whole(SplitOf(Part(s, Keyed)))
        /\ maps = IF w = <<>> THEN keyed ELSE Append(keyed, Map({}, w))
    BY <1>1, <1>2, ReadMaps
  <2>2. Part(s, Keyed) \in Seq(Keyed) /\ w \in Seq(Keyless)
    BY <1>1, PartType
  <2>3. TidyKeyed(keyed)
    BY <1>1, <2>1, <2>2, SplitIsTidy
  <2> HIDE DEF keyed, w
  <2> QED
    BY <2>1, <2>2, <2>3, TidyParts
<1>3. ASSUME Tidy(maps)
      PROVE  splitKernelCmdLine(CmdlineArgs(maps)) = maps
  <2>1. PICK keyed \in Seq(KeyedMaps), w \in Seq(Keyless) :
            maps = IF w = <<>> THEN keyed ELSE Append(keyed, Map({}, w))
    BY <1>3, TidyHasParts
  <2>2. TidyKeyed(keyed)
    BY <1>3, <2>1, TidyParts
  <2>3. PICK v \in Seq(Keyed) : Ranked(v) /\ Whole(SplitOf(v)) = keyed
    BY <2>2, TidyIsSplit
  <2> DEFINE t == v \o w
  <2>4. /\ v \in Seq(DOMAIN Key) /\ w \in Seq(DOMAIN Key)
        /\ Keyed \intersect Keyless = {}
    <3>1. Keyed \subseteq DOMAIN Key /\ Keyless \subseteq DOMAIN Key
      BY DEF Keyed, Keyless
    <3> QED
      BY <3>1, SeqMonotonic DEF Keyed, Keyless
  <2>5. /\ Part(v, Keyed) = v /\ Part(v, Keyless) = <<>>
        /\ Part(w, Keyed) = <<>> /\ Part(w, Keyless) = w
    BY <2>4, PartAll
  <2>6. t \in Seq(DOMAIN Key) /\ Part(t, Keyed) = v \o <<>> /\ Part(t, Keyless) = <<>> \o w
    <3>1. /\ Part(t, Keyed) = Part(v, Keyed) \o Part(w, Keyed)
          /\ Part(t, Keyless) = Part(v, Keyless) \o Part(w, Keyless)
      BY <2>4, PartConcat
    <3>2. t \in Seq(DOMAIN Key)
      BY <2>4, ConcatProperties
    <3> QED
      BY <2>5, <3>1, <3>2
  <2>7. Part(t, Keyed) = v /\ Part(t, Keyless) = w
    BY <2>4, <2>6, ConcatEmptySeq
  <2> HIDE DEF t
  <2>8. splitKernelCmdLine(t) = maps
    <3>1. Whole(SplitOf(t)) = keyed
      BY <2>3, <2>6, <2>7, ReadMaps
    <3> QED
      BY <2>1, <2>6, <2>7, <3>1, ReadMaps
  <2> QED
    BY <2>3, <2>6, <2>7, <2>8, SecondRead
<1> QED
  BY <1>2, <1>3 DEF s
=============================================================================
