---------------------------- MODULE Coins_proofs ----------------------------
(***************************************************************************)
(* What sums of natural numbers do when one summand changes.               *)
(***************************************************************************)
EXTENDS Coins, FiniteSetTheorems, TLAPS

\* A pile has as many coins as its place holds.
LEMMA PileSize ==
    ASSUME NEW x, NEW n \in Nat
    PROVE  IsFiniteSet({x} \X (1 .. n)) /\ Cardinality({x} \X (1 .. n)) = n
<1>. DEFINE one == {x}
            coins == 1 .. n
<1>1. IsFiniteSet(one) /\ Cardinality(one) = 1
  BY FS_Singleton
<1>2. IsFiniteSet(coins) /\ Cardinality(coins) = n
  BY FS_Interval
<1>3. IsFiniteSet(one \X coins) /\ Cardinality(one \X coins) = Cardinality(one) * Cardinality(coins)
  <2>. HIDE DEF one, coins
  <2>. QED
    BY <1>1, <1>2, FS_Product
<1>4. Cardinality(one \X coins) = 1 * n
  BY <1>1, <1>2, <1>3, Zenon
<1>. QED
  BY <1>3, <1>4

\* Finitely many places hold finitely many coins.
LEMMA CoinsFinite ==
    ASSUME NEW S, IsFiniteSet(S), NEW f \in [S -> Nat]
    PROVE  IsFiniteSet(Coins(S, f)) /\ Worth(S, f) \in Nat
<1>. DEFINE piles == {{x} \X (1 .. f[x]) : x \in S}
            pile == [x \in S |-> {x} \X (1 .. f[x])]
<1>1. IsFiniteSet(piles)
  <2>1. pile \in Surjection(S, piles)
    <3>1. pile \in [S -> piles] /\ \A T \in piles : \E y \in S : pile[y] = T
      BY Zenon
    <3>. QED
      BY <3>1, Zenon DEF Surjection
  <2>. QED
    BY <2>1, FS_Surjection
<1>2. \A T \in piles : IsFiniteSet(T)
  <2>1. \A x \in S : f[x] \in Nat
    OBVIOUS
  <2>2. \A x \in S : IsFiniteSet({x} \X (1 .. f[x]))
    BY <2>1, PileSize
  <2>. QED
    BY <2>2, Zenon
<1>3. IsFiniteSet(UNION piles)
  <2>. HIDE DEF piles
  <2>. QED
    BY <1>1, <1>2, FS_UNION
<1>. QED
  BY <1>3, FS_CardinalityType DEF Coins, Worth

\* What one place gains or loses, all places together do.
LEMMA OnePileChanges ==
    ASSUME NEW S, IsFiniteSet(S), NEW f \in [S -> Nat], NEW g \in [S -> Nat],
           NEW x \in S, \A y \in S \ {x} : g[y] = f[y]
    PROVE  Worth(S, g) + f[x] = Worth(S, f) + g[x]
<1>. DEFINE rest == UNION {{y} \X (1 .. f[y]) : y \in S \ {x}}
<1>1. IsFiniteSet(rest)
  <2>1. rest \subseteq Coins(S, f)
    BY DEF Coins
  <2>. QED
    BY <2>1, CoinsFinite, FS_Subset
<1>2. ASSUME NEW h \in [S -> Nat], \A y \in S \ {x} : h[y] = f[y]
      PROVE  Cardinality(Coins(S, h)) = Cardinality(rest) + h[x]
  <2>. DEFINE pile == {x} \X (1 .. h[x])
  <2>1. Coins(S, h) = rest \cup pile /\ rest \cap pile = {}
    BY <1>2 DEF Coins
  <2>2. IsFiniteSet(pile) /\ Cardinality(pile) = h[x]
    BY <1>2, PileSize
  <2>. HIDE DEF pile, rest
  <2>3. Cardinality(rest \cap pile) = 0
    BY <2>1, FS_EmptySet
  <2>4. Cardinality(rest) \in Nat
    BY <1>1, FS_CardinalityType
  <2>. QED
    BY <1>1, <1>2, <2>1, <2>2, <2>3, <2>4, FS_Union
<1>3. Cardinality(rest) \in Nat
  BY <1>1, FS_CardinalityType
<1>. HIDE DEF rest
<1>. QED
  BY <1>2, <1>3 DEF Worth

\* Places that hold the same hold as much.
LEMMA SamePiles ==
    ASSUME NEW S, NEW f, NEW g, \A x \in S : f[x] = g[x]
    PROVE  Worth(S, f) = Worth(S, g)
BY DEF Worth, Coins

\* Empty places hold nothing.
LEMMA NoPiles ==
    ASSUME NEW S, NEW f, \A x \in S : f[x] = 0
    PROVE  Worth(S, f) = 0
<1>1. Coins(S, f) = {}
  BY DEF Coins
<1>2. Cardinality({}) = 0
  BY FS_EmptySet
<1>. QED
  BY <1>1, <1>2 DEF Worth
=============================================================================
