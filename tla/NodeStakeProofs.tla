--------------------------- MODULE NodeStakeProofs ---------------------------
(***************************************************************************)
(* The bond ledger is sound for any number of keys, wallets and calls: its *)
(* state keeps its types, it holds exactly the bonds it owes, its quorum   *)
(* denominator is the stake that stays, and nobody is paid before a term   *)
(* was served.  The four lean on one inductive invariant, BondInv.         *)
(***************************************************************************)
EXTENDS NodeStake, FiniteSetTheorems, TLAPS

-----------------------------------------------------------------------------
(* The arithmetic of Totals: totals are natural numbers, they add up, and
   they depend on nothing but the amounts that are summed. *)

(* The coins of one key. *)
LEMMA OneStack ==
    ASSUME NEW k, NEW n \in Nat
    PROVE  /\ IsFiniteSet({k} \X (1..n))
           /\ Cardinality({k} \X (1..n)) = n
<1>1. IsFiniteSet({k}) /\ Cardinality({k}) = 1
  BY FS_Singleton
<1>2. IsFiniteSet(1..n) /\ Cardinality(1..n) = n
  BY FS_Interval
<1>3. IsFiniteSet({k} \X (1..n)) /\ Cardinality({k} \X (1..n)) = 1 * n
  <2> DEFINE A == {k}
  <2> DEFINE B == 1..n
  <2>1. IsFiniteSet(A \X B) /\ Cardinality(A \X B) = Cardinality(A) * Cardinality(B)
    <3> HIDE DEF A, B
    <3> QED BY <1>1, <1>2, FS_Product DEF A, B
  <2> QED BY <2>1, <1>1, <1>2
<1> QED BY <1>3

(* A finite sum of natural numbers is a natural number. *)
LEMMA TotalType ==
    ASSUME NEW S, IsFiniteSet(S), NEW f, \A k \in S : f[k] \in Nat
    PROVE  IsFiniteSet(Coins(S, f)) /\ TotalOf(S, f) \in Nat
<1> DEFINE g == [k \in S |-> {k} \X (1..f[k])]
           T == {{k} \X (1..f[k]) : k \in S}
<1>1. g \in Surjection(S, T)
  BY DEF Surjection
<1>2. IsFiniteSet(T)
  <2> HIDE DEF g, T
  <2> QED BY <1>1, FS_Surjection
<1>3. \A t \in T : IsFiniteSet(t)
  <2>1. \A k \in S : IsFiniteSet({k} \X (1..f[k]))
    BY OneStack
  <2> QED BY <2>1
<1>4. IsFiniteSet(UNION T)
  <2> HIDE DEF T
  <2> QED BY <1>2, <1>3, FS_UNION
<1>5. IsFiniteSet(Coins(S, f))
  BY <1>4 DEF Coins
<1> QED BY <1>5, FS_CardinalityType DEF TotalOf

(* What a pair has to be to be a coin. *)
LEMMA CoinMember ==
    ASSUME NEW S, NEW f, NEW k, NEW i
    PROVE  <<k, i>> \in Coins(S, f) <=> k \in S /\ i \in 1..f[k]
  BY DEF Coins

(* Equal amounts have equal totals, and keys with nothing do not count. *)
LEMMA TotalSame ==
    ASSUME NEW S, NEW T, NEW f, NEW g, T \subseteq S,
           \A k \in S : f[k] \in Nat,
           \A k \in T : f[k] = g[k], \A k \in S \ T : f[k] = 0
    PROVE  TotalOf(S, f) = TotalOf(T, g)
<1>1. \A k \in S \ T : 1..f[k] = {}
  OBVIOUS
<1>2. Coins(S, f) = Coins(T, g)
  BY <1>1 DEF Coins
<1> QED BY <1>2 DEF TotalOf

(* Pointwise sums add: the coins of g + h are those of g, and those of h
   stacked on top of them. *)
LEMMA TotalAdds ==
    ASSUME NEW S, IsFiniteSet(S), NEW f, NEW g, NEW h,
           \A k \in S : g[k] \in Nat /\ h[k] \in Nat /\ f[k] = g[k] + h[k]
    PROVE  TotalOf(S, f) = TotalOf(S, g) + TotalOf(S, h)
<1> DEFINE G == Coins(S, g)
           H == Coins(S, h)
           Top == UNION {{k} \X ((g[k] + 1)..(g[k] + h[k])) : k \in S}
           lift == [c \in H |-> <<c[1], g[c[1]] + c[2]>>]
<1>1. IsFiniteSet(G) /\ IsFiniteSet(H)
  BY TotalType
<1>2. lift \in Bijection(H, Top)
  <2>1. \A c \in H : /\ c = <<c[1], c[2]>> /\ c[1] \in S /\ c[2] \in 1..h[c[1]]
    BY DEF Coins
  <2>2. \A c \in H : lift[c] \in Top
    <3> TAKE c \in H
    <3>1. c[1] \in S /\ c[2] \in 1..h[c[1]]
      BY <2>1
    <3>2. g[c[1]] + c[2] \in (g[c[1]] + 1)..(g[c[1]] + h[c[1]])
      BY <3>1
    <3> QED BY <3>1, <3>2
  <2>3. \A c, d \in H : lift[c] = lift[d] => c = d
    <3> SUFFICES ASSUME NEW c \in H, NEW d \in H, lift[c] = lift[d] PROVE c = d
      OBVIOUS
    <3>1. c[1] = d[1] /\ g[c[1]] + c[2] = g[d[1]] + d[2]
      OBVIOUS
    <3>2. c[2] \in Nat /\ d[2] \in Nat /\ g[c[1]] \in Nat
      BY <2>1
    <3> QED BY <3>1, <3>2, <2>1
  <2>4. \A t \in Top : \E c \in H : lift[c] = t
    <3> SUFFICES \A k \in S : \A i \in (g[k] + 1)..(g[k] + h[k]) :
                   \E c \in H : lift[c] = <<k, i>>
      <4> HIDE DEF H, lift
      <4> QED OBVIOUS
    <3> TAKE k \in S
    <3> TAKE i \in (g[k] + 1)..(g[k] + h[k])
    <3>1. i - g[k] \in 1..h[k] /\ g[k] + (i - g[k]) = i
      OBVIOUS
    <3>2. <<k, i - g[k]>> \in H
      BY <3>1 DEF Coins
    <3> QED BY <3>1, <3>2
  <2> QED BY <2>2, <2>3, <2>4 DEF Bijection, Injection, Surjection, IsInjective
<1>3. IsFiniteSet(Top) /\ Cardinality(Top) = Cardinality(H)
  <2> HIDE DEF H, Top, lift
  <2> QED BY <1>1, <1>2, FS_Bijection DEF ExistsBijection
<1>4. Coins(S, f) = G \cup Top
  <2>1. \A k \in S : 1..f[k] = (1..g[k]) \cup ((g[k] + 1)..(g[k] + h[k]))
    OBVIOUS
  <2>2. \A k \in S : {k} \X (1..f[k])
                     = ({k} \X (1..g[k])) \cup ({k} \X ((g[k] + 1)..(g[k] + h[k])))
    BY <2>1
  <2> QED BY <2>2 DEF Coins
<1>5. G \cap Top = {}
  <2> SUFFICES ASSUME NEW k \in S, NEW i \in 1..g[k],
                      NEW j \in S, NEW n \in (g[j] + 1)..(g[j] + h[j]),
                      <<k, i>> = <<j, n>>
               PROVE  FALSE
    BY DEF Coins
  <2> QED OBVIOUS
<1>6. Cardinality(G \cup Top) = Cardinality(G) + Cardinality(H) - 0
  <2>1. Cardinality(G \cap Top) = 0
    BY <1>5, FS_EmptySet
  <2> HIDE DEF G, H, Top
  <2> QED BY <1>1, <1>3, <2>1, FS_Union
<1> QED BY <1>1, <1>4, <1>6, FS_CardinalityType DEF TotalOf

(* The total splits over two disjoint sets of keys. *)
LEMMA TotalSplits ==
    ASSUME NEW S, NEW T, IsFiniteSet(S), IsFiniteSet(T), S \cap T = {},
           NEW f, \A k \in S \cup T : f[k] \in Nat
    PROVE  TotalOf(S \cup T, f) = TotalOf(S, f) + TotalOf(T, f)
<1>1. Coins(S \cup T, f) = Coins(S, f) \cup Coins(T, f)
  BY DEF Coins
<1>2. Coins(S, f) \cap Coins(T, f) = {}
  BY DEF Coins
<1>3. IsFiniteSet(Coins(S, f)) /\ IsFiniteSet(Coins(T, f))
  BY TotalType
<1>4. Cardinality(Coins(S, f) \cap Coins(T, f)) = 0
  BY <1>2, FS_EmptySet
<1>5. Cardinality(Coins(S, f)) \in Nat /\ Cardinality(Coins(T, f)) \in Nat
  BY <1>3, FS_CardinalityType
<1> DEFINE A == Coins(S, f)
           B == Coins(T, f)
<1>6. Cardinality(A \cup B) = Cardinality(A) + Cardinality(B) - Cardinality(A \cap B)
  <2>1. IsFiniteSet(A) /\ IsFiniteSet(B)
    BY <1>3
  <2> HIDE DEF A, B
  <2> QED BY <2>1, FS_Union
<1>7. Cardinality(A \cup B) = Cardinality(A) + Cardinality(B)
  <2>1. Cardinality(A \cap B) = 0 /\ Cardinality(A) \in Nat /\ Cardinality(B) \in Nat
    BY <1>4, <1>5
  <2> HIDE DEF A, B
  <2> QED BY <2>1, <1>6
<1>8. TotalOf(S \cup T, f) = Cardinality(A \cup B)
  BY <1>1 DEF TotalOf
<1> QED BY <1>7, <1>8 DEF TotalOf

(* One key's share. *)
LEMMA TotalOfOne ==
    ASSUME NEW k, NEW f, f[k] \in Nat
    PROVE  TotalOf({k}, f) = f[k]
<1>1. Coins({k}, f) = {k} \X (1..f[k])
  BY DEF Coins
<1> QED BY <1>1, OneStack DEF TotalOf

(* A total over fewer keys is no larger. *)
LEMMA TotalMonotone ==
    ASSUME NEW S, IsFiniteSet(S), NEW T, T \subseteq S, NEW f, \A k \in S : f[k] \in Nat
    PROVE  TotalOf(T, f) <= TotalOf(S, f)
<1>1. Coins(T, f) \subseteq Coins(S, f)
  BY DEF Coins
<1>2. IsFiniteSet(Coins(S, f))
  BY TotalType
<1> QED BY <1>1, <1>2, FS_Subset DEF TotalOf

-----------------------------------------------------------------------------
(* The invariant *)

(* A key that is leaving was locked, and leaves, for the whole of one of the
   terms ever in force: the fact behind PaidOnlyAfterTerm. *)
TermServed ==
    /\ terms \in EverInForce
    /\ \A k \in Key : node[k].unbondAt # 0 =>
         \E t \in EverInForce : Served(t, node[k].bondedSince, node[k].unbondAt)

(* A key with no stake has no lock running: withdraw() left nothing of it. *)
FreshBond == \A k \in Key : node[k].lastStakedAt = 0 => node[k].bondedSince = 0

BondInv == TypeOK /\ Solvent /\ TotalActiveIsSum /\ TermServed /\ FreshBond

(* The part of a bond that totalActive counts. *)
Share(b) == IF b.unbondAt = 0 THEN b.amount ELSE 0

-----------------------------------------------------------------------------
(* Totals of the ledger *)

(* Both totals are natural numbers in any state of the right type. *)
LEMMA LedgerTotals ==
    ASSUME NEW n \in [Key -> BondType]
    PROVE  /\ TotalOf(Key, Stakes(n)) \in Nat
           /\ TotalOf(Staying(n), Stakes(n)) \in Nat
           /\ IsFiniteSet(Key) /\ IsFiniteSet(Staying(n))
<1>1. IsFiniteSet(Key)
  BY NodeStakeAssumption
<1>2. IsFiniteSet(Staying(n))
  <2>1. Staying(n) \subseteq Key
    BY DEF Staying
  <2> QED BY <1>1, <2>1, FS_Subset
<1>3. \A k \in Key : Stakes(n)[k] \in Nat
  BY DEF Stakes, BondType
<1>4. Staying(n) \subseteq Key
  BY DEF Staying
<1> QED BY <1>1, <1>2, <1>3, <1>4, TotalType

(* Replacing the bond of one key moves each total by that key's difference. *)
LEMMA OneBondTotals ==
    ASSUME NEW n \in [Key -> BondType], NEW k \in Key, NEW b \in BondType,
           NEW n2, n2 = [n EXCEPT ![k] = b]
    PROVE  /\ TotalOf(Key, Stakes(n2)) = TotalOf(Key, Stakes(n)) - n[k].amount + b.amount
           /\ TotalOf(Staying(n2), Stakes(n2))
                = TotalOf(Staying(n), Stakes(n)) - Share(n[k]) + Share(b)
<1> DEFINE R == Key \ {k}
           Q == Staying(n) \ {k}
           f == Stakes(n)
           g == Stakes(n2)
<1>1. n2 \in [Key -> BondType] /\ n2[k] = b /\ \A j \in R : n2[j] = n[j]
  OBVIOUS
<1>2. /\ IsFiniteSet(R) /\ IsFiniteSet(Q) /\ IsFiniteSet({k})
      /\ Q \subseteq R /\ R \subseteq Key
  BY LedgerTotals, FS_Difference, FS_Singleton DEF Staying
<1>3. \A j \in Key : f[j] \in Nat /\ g[j] \in Nat
  BY <1>1 DEF Stakes, BondType
<1>4. \A j \in R : f[j] = g[j]
  BY <1>1 DEF Stakes
<1>5. f[k] = n[k].amount /\ g[k] = b.amount
  BY <1>1 DEF Stakes
<1>6. TotalOf(R, f) = TotalOf(R, g) /\ TotalOf(Q, f) = TotalOf(Q, g)
  <2> HIDE DEF f, g, R, Q
  <2>1. \A j \in Q : f[j] = g[j] /\ f[j] \in Nat
    BY <1>2, <1>3, <1>4
  <2>2. \A j \in R : f[j] = g[j] /\ f[j] \in Nat
    BY <1>2, <1>3, <1>4
  <2> QED BY <2>1, <2>2, TotalSame
<1>7. TotalOf({k}, f) = f[k] /\ TotalOf({k}, g) = g[k]
  <2> HIDE DEF f, g
  <2> QED BY <1>3, TotalOfOne
<1>8. \A h : (\A j \in Key : h[j] \in Nat) =>
        /\ TotalOf(R, h) \in Nat /\ TotalOf(Q, h) \in Nat
        /\ TotalOf(R \cup {k}, h) = TotalOf(R, h) + TotalOf({k}, h)
        /\ TotalOf(Q \cup {k}, h) = TotalOf(Q, h) + TotalOf({k}, h)
  <2> TAKE h
  <2> HAVE \A j \in Key : h[j] \in Nat
  <2>1. R \cap {k} = {} /\ Q \cap {k} = {}
    OBVIOUS
  <2>2. \A j \in R \cup {k} : h[j] \in Nat
    OBVIOUS
  <2>3. \A j \in Q \cup {k} : h[j] \in Nat
    BY <1>2
  <2> HIDE DEF R, Q
  <2> QED BY <1>2, <2>1, <2>2, <2>3, TotalSplits, TotalType
<1>9. R \cup {k} = Key
  OBVIOUS
<1>10. /\ Staying(n) = IF n[k].unbondAt = 0 THEN Q \cup {k} ELSE Q
       /\ Staying(n2) = IF b.unbondAt = 0 THEN Q \cup {k} ELSE Q
  BY <1>1 DEF Staying
<1>11. /\ TotalOf(Staying(n), f) = TotalOf(Q, f) + Share(n[k])
       /\ TotalOf(Staying(n2), g) = TotalOf(Q, g) + Share(b)
  <2> HIDE DEF f, g, Q
  <2>1. /\ TotalOf(Q \cup {k}, f) = TotalOf(Q, f) + n[k].amount /\ TotalOf(Q, f) \in Nat
        /\ TotalOf(Q \cup {k}, g) = TotalOf(Q, g) + b.amount /\ TotalOf(Q, g) \in Nat
    BY <1>3, <1>5, <1>7, <1>8
  <2>2. TotalOf(Staying(n), f) = TotalOf(Q, f) + Share(n[k])
    <3>1. CASE n[k].unbondAt = 0
      BY <1>10, <2>1, <3>1 DEF Share
    <3>2. CASE n[k].unbondAt # 0
      BY <1>10, <2>1, <3>2 DEF Share
    <3> QED BY <3>1, <3>2
  <2>3. TotalOf(Staying(n2), g) = TotalOf(Q, g) + Share(b)
    <3>1. CASE b.unbondAt = 0
      BY <1>10, <2>1, <3>1 DEF Share
    <3>2. CASE b.unbondAt # 0
      BY <1>10, <2>1, <3>2 DEF Share
    <3> QED BY <3>1, <3>2
  <2> QED BY <2>2, <2>3
<1>12. /\ TotalOf(Key, f) = TotalOf(R, f) + n[k].amount
       /\ TotalOf(Key, g) = TotalOf(R, g) + b.amount
  <2> HIDE DEF f, g, R
  <2> QED BY <1>3, <1>5, <1>7, <1>8, <1>9
<1>13. /\ TotalOf(R, f) \in Nat /\ TotalOf(Q, f) \in Nat
       /\ n[k].amount \in Nat /\ b.amount \in Nat
       /\ Share(n[k]) \in Nat /\ Share(b) \in Nat
  <2>1. TotalOf(R, f) \in Nat /\ TotalOf(Q, f) \in Nat
    <3> HIDE DEF f, R, Q
    <3> QED BY <1>3, <1>8
  <2> QED BY <2>1 DEF BondType, Share
<1>14. TotalOf(Key, g) = TotalOf(Key, f) - n[k].amount + b.amount
  <2> HIDE DEF f, g, R, Q
  <2> QED BY <1>6, <1>12, <1>13
<1>15. TotalOf(Staying(n2), g) = TotalOf(Staying(n), f) - Share(n[k]) + Share(b)
  <2> HIDE DEF f, g, R, Q
  <2> QED BY <1>6, <1>11, <1>13
<1> QED BY <1>14, <1>15

(* The bonds n after the keys in D lost the cuts c. *)
AfterCuts(n, D, c) ==
    [k \in Key |-> IF k \in D THEN [n[k] EXCEPT !.amount = @ - c[k]] ELSE n[k]]

(* Cutting several bonds moves each total by the cuts that fall in it. *)
LEMMA SlashTotals ==
    ASSUME NEW n \in [Key -> BondType], NEW D \in SUBSET Key, NEW c,
           \A k \in D : c[k] \in 0..n[k].amount
    PROVE  /\ AfterCuts(n, D, c) \in [Key -> BondType]
           /\ TotalOf(D, c) \in Nat /\ TotalOf(D \cap Staying(n), c) \in Nat
           /\ TotalOf(Key, Stakes(AfterCuts(n, D, c)))
                = TotalOf(Key, Stakes(n)) - TotalOf(D, c)
           /\ TotalOf(Staying(AfterCuts(n, D, c)), Stakes(AfterCuts(n, D, c)))
                = TotalOf(Staying(n), Stakes(n)) - TotalOf(D \cap Staying(n), c)
<1> DEFINE n2 == AfterCuts(n, D, c)
           f == Stakes(n)
           g == Stakes(n2)
           h == [k \in Key |-> IF k \in D THEN c[k] ELSE 0]
           Y == Staying(n)
<1>1. \A k \in D : c[k] \in Nat /\ n[k].amount - c[k] \in Nat
  BY DEF BondType
<1>2. n2 \in [Key -> BondType]
  <2>1. \A k \in Key : n2[k] \in BondType
    BY <1>1 DEF BondType, AfterCuts
  <2> QED BY <2>1 DEF AfterCuts
<1>3. Staying(n2) = Y
  BY DEF Staying, BondType, AfterCuts
<1>4. \A k \in Key : g[k] \in Nat /\ h[k] \in Nat /\ f[k] = g[k] + h[k]
  <2> TAKE k \in Key
  <2>1. f[k] = n[k].amount /\ g[k] = n2[k].amount /\ n[k].amount \in Nat
    BY DEF Stakes, BondType, AfterCuts
  <2>2. CASE k \in D
    <3>1. n2[k].amount = n[k].amount - c[k]
      BY <2>2 DEF BondType, AfterCuts
    <3> QED BY <1>1, <2>1, <2>2, <3>1
  <2>3. CASE k \notin D
    BY <2>1, <2>3 DEF AfterCuts
  <2> QED BY <2>2, <2>3
<1>5. IsFiniteSet(Key) /\ IsFiniteSet(Y) /\ Y \subseteq Key
  BY LedgerTotals DEF Staying
<1>6. IsFiniteSet(D) /\ IsFiniteSet(D \cap Y)
  BY <1>5, FS_Subset, FS_Intersection
<1>7. TotalOf(Key, h) = TotalOf(D, c) /\ TotalOf(Y, h) = TotalOf(D \cap Y, c)
  <2>1. \A k \in D : h[k] = c[k]
    OBVIOUS
  <2>2. \A k \in Key \ D : h[k] = 0
    OBVIOUS
  <2>3. \A k \in Y \ (D \cap Y) : h[k] = 0
    BY <1>5
  <2> HIDE DEF h, Y
  <2>4. TotalOf(Key, h) = TotalOf(D, c)
    BY <1>4, <2>1, <2>2, TotalSame
  <2>5. TotalOf(Y, h) = TotalOf(D \cap Y, c)
    BY <1>4, <1>5, <2>1, <2>3, TotalSame
  <2> QED BY <2>4, <2>5
<1>8. /\ TotalOf(Key, f) = TotalOf(Key, g) + TotalOf(Key, h)
      /\ TotalOf(Y, f) = TotalOf(Y, g) + TotalOf(Y, h)
  <2> HIDE DEF f, g, h, Y
  <2>1. \A k \in Y : g[k] \in Nat /\ h[k] \in Nat /\ f[k] = g[k] + h[k]
    BY <1>4, <1>5
  <2> QED BY <1>4, <1>5, <2>1, TotalAdds
<1>9. /\ TotalOf(D, c) \in Nat /\ TotalOf(D \cap Y, c) \in Nat
      /\ TotalOf(Key, g) \in Nat /\ TotalOf(Y, g) \in Nat
  <2> HIDE DEF g, Y
  <2>1. \A k \in D \cap Y : c[k] \in Nat
    BY <1>1
  <2>2. \A k \in Y : g[k] \in Nat
    BY <1>4, <1>5
  <2> QED BY <1>1, <1>4, <1>5, <1>6, <2>1, <2>2, TotalType
<1>10. TotalOf(Key, g) = TotalOf(Key, f) - TotalOf(D, c)
  <2> HIDE DEF f, g, h, Y
  <2> QED BY <1>7, <1>8, <1>9
<1>11. TotalOf(Y, g) = TotalOf(Y, f) - TotalOf(D \cap Y, c)
  <2> HIDE DEF f, g, h, Y
  <2> QED BY <1>7, <1>8, <1>9
<1> QED BY <1>2, <1>3, <1>9, <1>10, <1>11

(* A cut is part of the bond it is taken from. *)
LEMMA CutBounded ==
    ASSUME NEW x \in Nat, NEW bps \in 0..BPS
    PROVE  (x * bps) \div BPS \in 0..x
<1>1. x * bps \in Nat /\ x * bps <= x * 10000
  BY SMT DEF BPS
<1>2. \A p \in Nat : p <= x * 10000 => p \div 10000 \in 0..x
  BY SMT
<1> DEFINE p == x * bps
<1>3. p \div 10000 \in 0..x
  <2>1. p \in Nat /\ p <= x * 10000
    BY <1>1
  <2> HIDE DEF p
  <2> QED BY <1>2, <2>1
<1> QED BY <1>3 DEF BPS

-----------------------------------------------------------------------------
(* The invariant, call by call *)

(* The state a run starts from satisfies the invariant. *)
LEMMA InitKeeps == Init => BondInv
<1> SUFFICES ASSUME Init PROVE BondInv
  OBVIOUS
<1>1. TypeOK
  BY NodeStakeAssumption DEF Init, TypeOK
<1>2. Solvent
  BY NodeStakeAssumption DEF Init, Solvent
<1>3. TermServed
  BY NodeStakeAssumption DEF Init, TermServed, EverInForce
<1>4. TotalActiveIsSum
  <2>1. Staying(node) = Key
    BY NodeStakeAssumption DEF Init, Staying
  <2> QED BY <2>1, NodeStakeAssumption DEF Init, TotalActiveIsSum
<1>5. FreshBond
  BY NodeStakeAssumption DEF Init, FreshBond
<1> QED BY <1>1, <1>2, <1>3, <1>4, <1>5 DEF BondInv

(* A call that replaces one bond and moves vault and totalActive by what the
   bond and its share changed keeps the ledger's books. *)
LEMMA OneBondKeeps ==
    ASSUME BondInv, NEW k \in Key, NEW b \in BondType,
           node' = [node EXCEPT ![k] = b],
           vault' = vault - node[k].amount + b.amount,
           totalActive' = totalActive - Share(node[k]) + Share(b)
    PROVE  /\ node' \in [Key -> BondType]
           /\ vault' \in Nat /\ totalActive' \in Nat
           /\ Solvent' /\ TotalActiveIsSum'
<1>1. node \in [Key -> BondType]
  BY DEF BondInv, TypeOK
<1>2. node' \in [Key -> BondType]
  BY <1>1
<1>3. /\ TotalOf(Key, Stakes(node')) = TotalOf(Key, Stakes(node)) - node[k].amount + b.amount
      /\ TotalOf(Staying(node'), Stakes(node'))
           = TotalOf(Staying(node), Stakes(node)) - Share(node[k]) + Share(b)
  BY <1>1, OneBondTotals
<1>4. /\ vault' = TotalOf(Key, Stakes(node'))
      /\ totalActive' = TotalOf(Staying(node'), Stakes(node'))
  BY <1>3 DEF BondInv, Solvent, TotalActiveIsSum
<1>5. /\ TotalOf(Key, Stakes(node')) \in Nat
      /\ TotalOf(Staying(node'), Stakes(node')) \in Nat
  BY <1>2, LedgerTotals
<1> QED BY <1>2, <1>4, <1>5 DEF Solvent, TotalActiveIsSum

(* A bond that is not leaving, or leaves as it did before, keeps TermServed;
   one whose lock runs only if it was staked keeps FreshBond. *)
LEMMA TermKept ==
    ASSUME BondInv, NEW k \in Key, NEW b \in BondType,
           node' = [node EXCEPT ![k] = b], UNCHANGED terms,
           \/ b.unbondAt = 0
           \/ b.unbondAt = node[k].unbondAt /\ b.bondedSince = node[k].bondedSince
           \/ Served(terms, b.bondedSince, b.unbondAt),
           b.lastStakedAt = 0 => b.bondedSince = 0
    PROVE  TermServed' /\ FreshBond'
<1>1. terms \in EverInForce /\ node \in [Key -> BondType]
  BY DEF BondInv, TermServed, TypeOK
<1>2. ASSUME NEW j \in Key, node'[j].unbondAt # 0
      PROVE  \E t \in EverInForce : Served(t, node'[j].bondedSince, node'[j].unbondAt)
  <2>1. CASE j # k
    BY <1>1, <1>2, <2>1 DEF BondInv, TermServed
  <2>2. CASE j = k
    <3>1. node'[j] = b
      BY <1>1, <2>2
    <3>2. CASE Served(terms, b.bondedSince, b.unbondAt)
      BY <1>1, <3>1, <3>2
    <3>3. CASE b.unbondAt = node[k].unbondAt /\ b.bondedSince = node[k].bondedSince
      BY <1>2, <2>2, <3>1, <3>3 DEF BondInv, TermServed
    <3> QED BY <1>2, <3>1, <3>2, <3>3
  <2> QED BY <2>1, <2>2
<1>3. FreshBond'
  BY <1>1 DEF BondInv, FreshBond
<1> QED BY <1>1, <1>2, <1>3 DEF TermServed, EverInForce

(* bond() and stake(): the part they share. *)
LEMMA AddKeeps ==
    ASSUME BondInv, NEW a \in Address, NEW k \in Key, NEW amt \in Nat,
           NEW r \in BondType, r.amount = node[k].amount, r.unbondAt = node[k].unbondAt,
           Add(a, k, amt, r),
           UNCHANGED <<adjudicators, terms, tokenUp, now>>
    PROVE  BondInv'
<1> DEFINE b == Credited(r, amt)
<1>1. /\ node[k] \in BondType /\ node[k].unbondAt = 0 /\ now \in Nat
      /\ wallet \in [Address -> Nat] /\ wallet[a] >= amt /\ vault \in Nat /\ totalActive \in Nat
      /\ node' = [node EXCEPT ![k] = b]
      /\ wallet' = [wallet EXCEPT ![a] = @ - amt]
      /\ vault' = vault + amt /\ totalActive' = totalActive + amt
  BY DEF Add, Pull, BondInv, TypeOK
<1>2. /\ b \in BondType /\ b.unbondAt = 0 /\ b.lastStakedAt # 0
      /\ b.amount = node[k].amount + amt /\ node[k].amount \in Nat
  <2> DEFINE since == IF r.bondedSince = 0 THEN now ELSE r.bondedSince
  <2>1. since \in Nat /\ now \in Nat /\ now # 0 /\ r.amount + amt \in Nat
    BY <1>1, NodeStakeAssumption DEF BondType, BondInv, TypeOK
  <2>2. b = [r EXCEPT !.bondedSince = since, !.lastStakedAt = now, !.amount = r.amount + amt]
    BY DEF Credited, BondType
  <2> HIDE DEF since, b
  <2>3. /\ b \in BondType /\ b.unbondAt = r.unbondAt /\ b.amount = r.amount + amt
        /\ b.lastStakedAt = now
    BY <2>1, <2>2 DEF BondType
  <2> QED BY <1>1, <2>1, <2>3 DEF BondType
<1>3. /\ vault' = vault - node[k].amount + b.amount
      /\ totalActive' = totalActive - Share(node[k]) + Share(b)
  <2> HIDE DEF b
  <2> QED BY <1>1, <1>2 DEF Share
<1>4. /\ node' \in [Key -> BondType] /\ vault' \in Nat /\ totalActive' \in Nat
      /\ Solvent' /\ TotalActiveIsSum'
  <2> HIDE DEF b
  <2> QED BY <1>1, <1>2, <1>3, OneBondKeeps
<1>5. wallet' \in [Address -> Nat]
  BY <1>1
<1>6. TermServed' /\ FreshBond'
  <2> HIDE DEF b
  <2> QED BY <1>1, <1>2, TermKept
<1> QED BY <1>4, <1>5, <1>6 DEF BondInv, TypeOK

(* Every call an operator may make for its key. *)
LEMMA OperatorKeeps ==
    ASSUME BondInv, NEW a \in Address, NEW k \in Key, OperatorNext(a, k)
    PROVE  BondInv'
<1> USE NodeStakeAssumption
<1>0. /\ node \in [Key -> BondType] /\ node[k] \in BondType
      /\ now \in Nat /\ now > MaxTerm /\ MaxTerm \in Nat
      /\ vault \in Nat /\ totalActive \in Nat
      /\ terms \in TermType /\ wallet \in [Address -> Nat]
  BY DEF BondInv, TypeOK
<1>1. ASSUME NEW amt \in Amounts, Bond(a, k, amt) PROVE BondInv'
  <2> DEFINE r == [node[k] EXCEPT !.operator = a]
  <2>1. r \in BondType /\ r.amount = node[k].amount /\ r.unbondAt = node[k].unbondAt
    BY <1>0 DEF BondType, Holder
  <2>2. Add(a, k, amt, r) /\ UNCHANGED <<adjudicators, terms, tokenUp, now>>
    BY <1>1 DEF Bond
  <2>3. amt \in Nat
    OBVIOUS
  <2> HIDE DEF r
  <2> QED BY <2>1, <2>2, <2>3, AddKeeps
<1>2. ASSUME NEW amt \in Amounts, Stake(a, k, amt) PROVE BondInv'
  <2>1. Add(a, k, amt, node[k]) /\ UNCHANGED <<adjudicators, terms, tokenUp, now>>
    BY <1>2 DEF Stake
  <2>2. amt \in Nat
    OBVIOUS
  <2> QED BY <1>0, <2>1, <2>2, AddKeeps
<1>3. ASSUME NEW b \in BondType, node' = [node EXCEPT ![k] = b],
             b.amount = node[k].amount, b.unbondAt = node[k].unbondAt,
             b.bondedSince = node[k].bondedSince, b.lastStakedAt = node[k].lastStakedAt,
             UNCHANGED <<totalActive, adjudicators, terms, wallet, vault, tokenUp, now>>
      PROVE  BondInv'
  <2>1. /\ vault' = vault - node[k].amount + b.amount
        /\ totalActive' = totalActive - Share(node[k]) + Share(b)
    BY <1>0, <1>3 DEF Share, BondType
  <2>2. /\ node' \in [Key -> BondType] /\ vault' \in Nat /\ totalActive' \in Nat
        /\ Solvent' /\ TotalActiveIsSum'
    BY <1>3, <2>1, OneBondKeeps
  <2>3. TermServed' /\ FreshBond'
    <3>1. b.lastStakedAt = 0 => b.bondedSince = 0
      BY <1>3 DEF BondInv, FreshBond
    <3> QED BY <1>3, <3>1, TermKept
  <2> QED BY <1>3, <2>2, <2>3 DEF BondInv, TypeOK
<1>4. ASSUME NEW to \in Takers, TransferOperator(a, k, to) PROVE BondInv'
  <2> DEFINE b == [node[k] EXCEPT !.operator = to]
  <2>1. /\ b \in BondType /\ b.amount = node[k].amount /\ b.unbondAt = node[k].unbondAt
        /\ b.bondedSince = node[k].bondedSince /\ b.lastStakedAt = node[k].lastStakedAt
    BY <1>0 DEF BondType, Holder
  <2>2. /\ node' = [node EXCEPT ![k] = b]
        /\ UNCHANGED <<totalActive, adjudicators, terms, wallet, vault, tokenUp, now>>
    BY <1>4 DEF TransferOperator
  <2> HIDE DEF b
  <2> QED BY <1>3, <2>1, <2>2
<1>5. ASSUME NEW d \in Delegates, SetDelegate(a, k, d) PROVE BondInv'
  <2> DEFINE b == [node[k] EXCEPT !.delegate = d]
  <2>1. /\ b \in BondType /\ b.amount = node[k].amount /\ b.unbondAt = node[k].unbondAt
        /\ b.bondedSince = node[k].bondedSince /\ b.lastStakedAt = node[k].lastStakedAt
    BY <1>0 DEF BondType, Holder
  <2>2. /\ node' = [node EXCEPT ![k] = b]
        /\ UNCHANGED <<totalActive, adjudicators, terms, wallet, vault, tokenUp, now>>
    BY <1>5 DEF SetDelegate
  <2> HIDE DEF b
  <2> QED BY <1>3, <2>1, <2>2
<1>6. ASSUME Unstake(a, k) PROVE BondInv'
  <2> DEFINE b == [node[k] EXCEPT !.unbondAt = now + terms.unbondingPeriod]
  <2>1. /\ node[k].unbondAt = 0 /\ now >= node[k].bondedSince + terms.lockTerm
        /\ node' = [node EXCEPT ![k] = b]
        /\ totalActive' = totalActive - node[k].amount
        /\ UNCHANGED <<adjudicators, terms, wallet, vault, tokenUp, now>>
    BY <1>6 DEF Unstake
  <2>2. /\ terms.unbondingPeriod \in Nat /\ terms.lockTerm \in Nat
        /\ node[k].amount \in Nat /\ node[k].bondedSince \in Nat
    BY <1>0 DEF TermType, BondType
  <2>3. /\ b \in BondType /\ b.amount = node[k].amount
        /\ b.bondedSince = node[k].bondedSince /\ b.lastStakedAt = node[k].lastStakedAt
        /\ b.unbondAt = now + terms.unbondingPeriod /\ b.unbondAt # 0
    BY <1>0, <2>2 DEF BondType
  <2> HIDE DEF b
  <2>4. /\ vault' = vault - node[k].amount + b.amount
        /\ totalActive' = totalActive - Share(node[k]) + Share(b)
    BY <1>0, <2>1, <2>2, <2>3 DEF Share
  <2>5. /\ node' \in [Key -> BondType] /\ vault' \in Nat /\ totalActive' \in Nat
        /\ Solvent' /\ TotalActiveIsSum'
    BY <2>1, <2>3, <2>4, OneBondKeeps
  <2>6. Served(terms, b.bondedSince, b.unbondAt)
    BY <1>0, <2>1, <2>2, <2>3 DEF Served
  <2>7. TermServed' /\ FreshBond'
    <3>1. b.lastStakedAt = 0 => b.bondedSince = 0
      BY <2>3 DEF BondInv, FreshBond
    <3> QED BY <2>1, <2>3, <2>6, <3>1, TermKept
  <2> QED BY <2>1, <2>5, <2>7 DEF BondInv, TypeOK
<1>7. ASSUME Withdraw(a, k) PROVE BondInv'
  <2> DEFINE b == Emptied(node[k])
  <2>1. /\ node[k].unbondAt # 0
        /\ wallet' = [wallet EXCEPT ![a] = @ + node[k].amount]
        /\ vault' = vault - node[k].amount
        /\ node' = [node EXCEPT ![k] = b]
        /\ UNCHANGED <<totalActive, adjudicators, terms, tokenUp, now>>
    BY <1>0, <1>7 DEF Withdraw, Unbonded, Pay
  <2>2. /\ b \in BondType /\ b.amount = 0 /\ b.unbondAt = 0 /\ b.bondedSince = 0
        /\ node[k].amount \in Nat
    BY <1>0 DEF Emptied, Unbound, BondType, Holder
  <2> HIDE DEF b
  <2>3. /\ vault' = vault - node[k].amount + b.amount
        /\ totalActive' = totalActive - Share(node[k]) + Share(b)
    BY <1>0, <2>1, <2>2 DEF Share
  <2>4. /\ node' \in [Key -> BondType] /\ vault' \in Nat /\ totalActive' \in Nat
        /\ Solvent' /\ TotalActiveIsSum'
    BY <2>1, <2>2, <2>3, OneBondKeeps
  <2>5. TermServed' /\ FreshBond'
    BY <2>1, <2>2, TermKept
  <2>6. wallet' \in [Address -> Nat]
    BY <1>0, <2>1, <2>2
  <2> QED BY <2>1, <2>4, <2>5, <2>6 DEF BondInv, TypeOK
<1> QED BY <1>1, <1>2, <1>4, <1>5, <1>6, <1>7 DEF OperatorNext

(* One transaction of an adjudicator, however many bonds it cuts. *)
LEMMA SlashKeeps ==
    ASSUME BondInv, NEW a \in Address, NEW D \in SUBSET Key, NEW rate \in [D -> Nat],
           SlashAll(a, rate), UNCHANGED <<adjudicators, terms, tokenUp, now>>
    PROVE  BondInv'
<1> DEFINE c == Cuts(rate)
           cut == TotalOf(D, c)
<1>0. /\ node \in [Key -> BondType] /\ vault \in Nat /\ totalActive \in Nat
      /\ terms \in TermType /\ wallet \in [Address -> Nat] /\ DOMAIN rate = D
  BY DEF BondInv, TypeOK
<1>1. \A k \in D : c[k] \in 0..node[k].amount
  <2> TAKE k \in D
  <2>1. c[k] = (node[k].amount * rate[k]) \div BPS
    BY <1>0 DEF Cuts, Cut
  <2>2. rate[k] \in 0..BPS /\ node[k].amount \in Nat
    BY <1>0 DEF SlashAll, BondType
  <2> HIDE DEF c
  <2> QED BY <2>1, <2>2, CutBounded
<1>2. node' = AfterCuts(node, D, c)
  BY <1>0 DEF SlashAll, Cuts, AfterCuts
<1>3. /\ node' \in [Key -> BondType]
      /\ cut \in Nat /\ TotalOf(D \cap Staying(node), c) \in Nat
      /\ TotalOf(Key, Stakes(node')) = TotalOf(Key, Stakes(node)) - cut
      /\ TotalOf(Staying(node'), Stakes(node'))
           = TotalOf(Staying(node), Stakes(node)) - TotalOf(D \cap Staying(node), c)
  <2>1. node \in [Key -> BondType]
    BY <1>0
  <2> HIDE DEF c
  <2> QED BY <1>1, <1>2, <2>1, SlashTotals
<1>4. totalActive' = totalActive - TotalOf(D \cap Staying(node), c)
  BY <1>0 DEF SlashAll, CutActive
<1>5. vault' = vault - cut /\ wallet' \in [Address -> Nat]
  <2>1. IF cut > 0 THEN Pay(terms.treasury, cut) ELSE UNCHANGED <<wallet, vault>>
    BY <1>0 DEF SlashAll
  <2>2. terms.treasury \in Address
    BY <1>0 DEF TermType
  <2> HIDE DEF cut
  <2> QED BY <1>0, <1>3, <2>1, <2>2 DEF Pay
<1>6. Solvent' /\ TotalActiveIsSum'
  BY <1>3, <1>4, <1>5 DEF BondInv, Solvent, TotalActiveIsSum
<1>7. vault' \in Nat /\ totalActive' \in Nat
  BY <1>3, <1>6, LedgerTotals DEF Solvent, TotalActiveIsSum
<1>8. \A k \in Key : /\ node'[k].unbondAt = node[k].unbondAt
                     /\ node'[k].bondedSince = node[k].bondedSince
                     /\ node'[k].lastStakedAt = node[k].lastStakedAt
  BY <1>0, <1>2 DEF BondType, AfterCuts
<1>9. TermServed' /\ FreshBond'
  BY <1>8 DEF BondInv, TermServed, EverInForce, FreshBond
<1> QED BY <1>3, <1>5, <1>6, <1>7, <1>9 DEF BondInv, TypeOK

(* The admin, the clock and the token touch no bond. *)
LEMMA RestKeeps ==
    ASSUME BondInv,
           \/ \E a \in Address : AdminNext(a)
           \/ Tick
           \/ TokenTurns
           \/ UNCHANGED stakeVars
    PROVE  BondInv'
<1> USE NodeStakeAssumption
<1>1. ASSUME UNCHANGED <<node, totalActive, vault, wallet>>,
             adjudicators' \subseteq Address, terms' \in Terms \cup {terms},
             tokenUp' \in BOOLEAN, now' \in Nat, now' > MaxTerm
      PROVE  BondInv'
  <2>1. Solvent' /\ TotalActiveIsSum'
    BY <1>1 DEF BondInv, Solvent, TotalActiveIsSum, Stakes, Staying
  <2>2. TermServed' /\ FreshBond'
    BY <1>1 DEF BondInv, TermServed, EverInForce, FreshBond
  <2>3. TypeOK'
    BY <1>1 DEF BondInv, TypeOK
  <2> QED BY <2>1, <2>2, <2>3 DEF BondInv
<1>2. /\ adjudicators \subseteq Address /\ tokenUp \in BOOLEAN
      /\ now \in Nat /\ now > MaxTerm /\ MaxTerm \in Nat
  BY DEF BondInv, TypeOK
<1>3. ASSUME NEW a \in Address, NEW x \in Judges, NEW allowed \in BOOLEAN,
             SetAdjudicator(a, x, allowed)
      PROVE  BondInv'
  BY <1>1, <1>2, <1>3 DEF SetAdjudicator
<1>4. ASSUME NEW a \in Address, NEW t \in Terms, SetParams(a, t) PROVE BondInv'
  BY <1>1, <1>2, <1>4 DEF SetParams
<1>5. ASSUME Tick PROVE BondInv'
  BY <1>1, <1>2, <1>5 DEF Tick
<1>6. ASSUME TokenTurns PROVE BondInv'
  BY <1>1, <1>2, <1>6 DEF TokenTurns, TokenFails, TokenRecovers
<1>7. ASSUME UNCHANGED stakeVars PROVE BondInv'
  BY <1>1, <1>2, <1>7 DEF stakeVars
<1> QED BY <1>3, <1>4, <1>5, <1>6, <1>7 DEF AdminNext

LEMMA StepKeeps == BondInv /\ [Next]_stakeVars => BondInv'
<1> SUFFICES ASSUME BondInv, [Next]_stakeVars PROVE BondInv'
  OBVIOUS
<1>1. ASSUME NEW a \in Address, NEW k \in Key, NEW bps \in SlashRates, Slash(a, k, bps)
      PROVE  BondInv'
  <2> DEFINE rate == [x \in {k} |-> bps]
  <2>1. rate \in [{k} -> Nat] /\ {k} \in SUBSET Key
    BY NodeStakeAssumption
  <2>2. SlashAll(a, rate) /\ UNCHANGED <<adjudicators, terms, tokenUp, now>>
    BY <1>1 DEF Slash
  <2> HIDE DEF rate
  <2> QED BY <2>1, <2>2, SlashKeeps
<1>2. ASSUME NEW a \in Address, NEW k \in Key, OperatorNext(a, k) PROVE BondInv'
  BY <1>2, OperatorKeeps
<1> QED BY <1>1, <1>2, RestKeeps DEF Next

(* Every reachable state satisfies the invariant. *)
THEOREM BondInvariant == Spec => []BondInv
<1> QED BY InitKeeps, StepKeeps, PTL DEF Spec

(* Type correctness of the bond ledger, for any keys, wallets and terms. *)
THEOREM TypeCorrect == Spec => []TypeOK
<1>1. BondInv => TypeOK
  BY DEF BondInv
<1> QED BY <1>1, BondInvariant, PTL

(* NodeStake never owes more, or less, than it holds. *)
THEOREM AlwaysSolvent == Spec => []Solvent
<1>1. BondInv => Solvent
  BY DEF BondInv
<1> QED BY <1>1, BondInvariant, PTL

(* The quorum's denominator is always the stake that stays. *)
THEOREM TotalActiveCorrect == Spec => []TotalActiveIsSum
<1>1. BondInv => TotalActiveIsSum
  BY DEF BondInv
<1> QED BY <1>1, BondInvariant, PTL

(* Only withdraw() pays an operator, and by then a term was served. *)
LEMMA WithdrawPays ==
    ASSUME BondInv, NEW b \in Address, NEW k \in Key, Withdraw(b, k), NEW a \in Address
    PROVE  Paid(a)
<1>1. /\ node \in [Key -> BondType] /\ node[k] \in BondType /\ now \in Nat
      /\ wallet \in [Address -> Nat]
      /\ terms \in EverInForce /\ EverInForce \subseteq TermType
  BY NodeStakeAssumption DEF BondInv, TypeOK, TermServed, EverInForce
<1>2. /\ node[k].operator = b /\ node[k].unbondAt # 0 /\ now >= node[k].unbondAt
      /\ wallet' = [wallet EXCEPT ![b] = @ + node[k].amount]
      /\ node' = [node EXCEPT ![k] = Emptied(@)]
  BY DEF Withdraw, Unbonded, Pay
<1>3. node'[k].amount = 0
  BY <1>1, <1>2 DEF Emptied, Unbound
<1>4. PICK t \in EverInForce : Served(t, node[k].bondedSince, node[k].unbondAt)
  BY <1>2 DEF BondInv, TermServed
<1>5. /\ t.lockTerm \in Nat /\ t.unbondingPeriod \in Nat
      /\ node[k].bondedSince \in Nat /\ node[k].unbondAt \in Nat
  BY <1>1, NodeStakeAssumption DEF TermType, BondType
<1>6. Served(t, node[k].bondedSince, now)
  BY <1>1, <1>2, <1>4, <1>5 DEF Served
<1>7. CASE a = b
  BY <1>1, <1>2, <1>3, <1>6, <1>7 DEF Paid
<1>8. CASE a # b
  BY <1>1, <1>2, <1>8 DEF Paid
<1> QED BY <1>7, <1>8

(* Whatever call or block comes next, it pays nobody but the treasury and
   operators whose bonds have sat out a term. *)
LEMMA StepPays ==
    ASSUME BondInv, Next, NEW a \in Address \ {terms.treasury}
    PROVE  Paid(a)
<1>0. /\ wallet \in [Address -> Nat] /\ terms.treasury \in Address
  BY DEF BondInv, TypeOK, TermType
<1>1. ASSUME NEW b \in Address, NEW amt \in Amounts, wallet' = [wallet EXCEPT ![b] = @ - amt]
      PROVE  Paid(a)
  <2>1. amt \in Nat
    BY NodeStakeAssumption
  <2>2. ~(wallet'[a] > wallet[a])
    BY <1>0, <1>1, <2>1
  <2> QED BY <2>2 DEF Paid
<1>2. ASSUME UNCHANGED wallet PROVE Paid(a)
  BY <1>0, <1>2 DEF Paid
<1>3. ASSUME NEW b \in Address, NEW k \in Key, OperatorNext(b, k) PROVE Paid(a)
  <2>1. ASSUME NEW amt \in Amounts, Bond(b, k, amt) PROVE Paid(a)
    BY <1>1, <2>1 DEF Bond, Add, Pull
  <2>2. ASSUME NEW amt \in Amounts, Stake(b, k, amt) PROVE Paid(a)
    BY <1>1, <2>2 DEF Stake, Add, Pull
  <2>3. ASSUME NEW to \in Takers, TransferOperator(b, k, to) PROVE Paid(a)
    BY <1>2, <2>3 DEF TransferOperator
  <2>4. ASSUME NEW d \in Delegates, SetDelegate(b, k, d) PROVE Paid(a)
    BY <1>2, <2>4 DEF SetDelegate
  <2>5. ASSUME Unstake(b, k) PROVE Paid(a)
    BY <1>2, <2>5 DEF Unstake
  <2>6. ASSUME Withdraw(b, k) PROVE Paid(a)
    BY <2>6, WithdrawPays
  <2> QED BY <1>3, <2>1, <2>2, <2>3, <2>4, <2>5, <2>6 DEF OperatorNext
<1>4. ASSUME NEW b \in Address, NEW k \in Key, NEW bps \in SlashRates, Slash(b, k, bps)
      PROVE  Paid(a)
  <2> DEFINE rate == [x \in {k} |-> bps]
             cut == TotalOf(DOMAIN rate, Cuts(rate))
  <2>1. IF cut > 0 THEN Pay(terms.treasury, cut) ELSE UNCHANGED <<wallet, vault>>
    BY <1>4 DEF Slash, SlashAll
  <2> HIDE DEF cut
  <2>2. wallet'[a] = wallet[a]
    BY <1>0, <2>1 DEF Pay
  <2> QED BY <1>0, <2>2 DEF Paid
<1>5. ASSUME NEW b \in Address, AdminNext(b) PROVE Paid(a)
  BY <1>2, <1>5 DEF AdminNext, SetAdjudicator, SetParams
<1>6. ASSUME Tick \/ TokenTurns PROVE Paid(a)
  BY <1>2, <1>6 DEF Tick, TokenTurns
<1> QED BY <1>3, <1>4, <1>5, <1>6 DEF Next

(* A key's lock counts from the first stake of the bond it is in. *)
LEMMA StepStartsLock ==
    ASSUME BondInv, Next, NEW k \in Key
    PROVE  StartsLock(k)
<1>0. node \in [Key -> BondType] /\ now \in Nat
  BY DEF BondInv, TypeOK
<1>1. ASSUME node'[k].lastStakedAt = node[k].lastStakedAt \/ node'[k].lastStakedAt = 0
      PROVE  StartsLock(k)
  BY <1>1 DEF StartsLock
<1>2. ASSUME NEW a \in Address, NEW j \in Key, NEW amt, NEW r \in BondType,
             r.bondedSince = node[j].bondedSince, Add(a, j, amt, r)
      PROVE  StartsLock(k)
  <2>1. node' = [node EXCEPT ![j] = Credited(r, amt)]
    BY <1>2 DEF Add
  <2>2. CASE j # k
    BY <1>0, <1>1, <2>1, <2>2
  <2>3. CASE j = k
    <3>1. node'[k].bondedSince = IF r.bondedSince = 0 THEN now ELSE r.bondedSince
      BY <1>0, <2>1, <2>3 DEF Credited, BondType
    <3>2. node[k].lastStakedAt = 0 => r.bondedSince = 0
      BY <1>2, <2>3 DEF BondInv, FreshBond
    <3> QED BY <3>1, <3>2 DEF StartsLock
  <2> QED BY <2>2, <2>3
<1>3. ASSUME NEW a \in Address, NEW j \in Key, OperatorNext(a, j) PROVE StartsLock(k)
  <2>1. ASSUME NEW amt \in Amounts, Bond(a, j, amt) PROVE StartsLock(k)
    <3> DEFINE r == [node[j] EXCEPT !.operator = a]
    <3>1. r \in BondType /\ r.bondedSince = node[j].bondedSince
      BY <1>0 DEF BondType, Holder
    <3>2. Add(a, j, amt, r)
      BY <2>1 DEF Bond
    <3> HIDE DEF r
    <3> QED BY <1>2, <3>1, <3>2
  <2>2. ASSUME NEW amt \in Amounts, Stake(a, j, amt) PROVE StartsLock(k)
    BY <1>0, <1>2, <2>2 DEF Stake
  <2>4. ASSUME NEW to \in Takers, TransferOperator(a, j, to) PROVE StartsLock(k)
    BY <1>0, <1>1, <2>4 DEF TransferOperator, BondType
  <2>5. ASSUME NEW d \in Delegates, SetDelegate(a, j, d) PROVE StartsLock(k)
    BY <1>0, <1>1, <2>5 DEF SetDelegate, BondType
  <2>6. CASE Unstake(a, j)
    BY <1>0, <1>1, <2>6 DEF Unstake, BondType
  <2>7. CASE Withdraw(a, j)
    BY <1>0, <1>1, <2>7 DEF Withdraw, Emptied, Unbound
  <2> QED BY <1>3, <2>1, <2>2, <2>4, <2>5, <2>6, <2>7 DEF OperatorNext
<1>4. ASSUME NEW a \in Address, NEW j \in Key, NEW bps \in SlashRates, Slash(a, j, bps)
      PROVE  StartsLock(k)
  BY <1>0, <1>1, <1>4 DEF Slash, SlashAll, BondType
<1>5. ASSUME NEW a \in Address, AdminNext(a) PROVE StartsLock(k)
  BY <1>1, <1>5 DEF AdminNext, SetAdjudicator, SetParams
<1>6. CASE Tick \/ TokenTurns
  BY <1>1, <1>6 DEF Tick, TokenTurns
<1> QED BY <1>3, <1>4, <1>5, <1>6 DEF Next

(* Over any history of calls, an operator is paid only its own bond, not
   before the lock and the unbonding period of one of the terms in force, and
   with the lock counted from that bond's own first stake. *)
THEOREM PaidOnTime == Spec => PaidOnlyAfterTerm
<1>1. BondInv /\ [Next]_stakeVars =>
        [/\ \A a \in Address \ {terms.treasury} : Paid(a)
         /\ \A k \in Key : StartsLock(k)]_stakeVars
  BY StepPays, StepStartsLock
<1> QED BY <1>1, BondInvariant, PTL DEF Spec, PaidOnlyAfterTerm

(* What a bond gains restarts its age. *)
Ages == \A k \in Key : node'[k].amount > node[k].amount /\ terms.eligibilityAge > 0
                         => ~WitnessEligible(k)'

LEMMA GainsRestartTheAge == BondInv /\ [Next]_stakeVars => Ages
<1> SUFFICES ASSUME BondInv, [Next]_stakeVars, NEW k \in Key,
                    node'[k].amount > node[k].amount, terms.eligibilityAge > 0
             PROVE  ~WitnessEligible(k)'
  BY DEF Ages
<1> USE NodeStakeAssumption
<1>0. /\ node \in [Key -> BondType] /\ node[k].amount \in Nat
      /\ now \in Nat /\ terms \in TermType /\ terms.eligibilityAge \in Nat
  BY DEF BondInv, TypeOK, BondType, TermType
<1>1. ASSUME NEW a \in Address, NEW j \in Key, NEW amt \in Nat, NEW b,
             b \in BondType, Add(a, j, amt, b), b.amount = node[j].amount, UNCHANGED <<terms, now>>
      PROVE  ~WitnessEligible(k)'
  <2>1. /\ j = k /\ node'[k].lastStakedAt = now
    BY <1>0, <1>1 DEF Add, Credited, BondType
  <2> QED BY <1>0, <1>1, <2>1 DEF WitnessEligible
<1>2. ASSUME NEW a \in Address, NEW j \in Key, NEW amt \in Nat, Bond(a, j, amt) \/ Stake(a, j, amt)
      PROVE  ~WitnessEligible(k)'
  <2>1. node[j] \in BondType /\ [node[j] EXCEPT !.operator = a] \in BondType
        /\ [node[j] EXCEPT !.operator = a].amount = node[j].amount
    BY <1>0 DEF BondType, Holder
  <2> QED BY <1>1, <1>2, <2>1 DEF Bond, Stake
<1>3. ASSUME NEW a \in Address, NEW j \in Key, NEW rate,
             \/ \E to \in Takers : TransferOperator(a, j, to)
             \/ \E d \in Delegates : SetDelegate(a, j, d)
             \/ Unstake(a, j)
      PROVE  FALSE
  <2>1. node'[k].amount = node[k].amount
    BY <1>0, <1>3 DEF TransferOperator, SetDelegate, Unstake, BondType
  <2> QED BY <1>0, <2>1
<1>4. ASSUME NEW a \in Address, NEW j \in Key, Withdraw(a, j) PROVE FALSE
  <2>1. node'[k] = node[k] \/ node'[k].amount = 0
    BY <1>0, <1>4 DEF Withdraw, Emptied, Unbound
  <2> QED BY <1>0, <2>1
<1>5. ASSUME NEW a \in Address, NEW j \in Key, NEW bps \in SlashRates, Slash(a, j, bps)
      PROVE  FALSE
  <2>1. bps \in 0..BPS /\ node[j].amount \in Nat
    <3>1. bps <= BPS /\ bps \in Nat
      BY <1>5 DEF Slash, SlashAll
    <3>2. node[j] \in BondType
      BY <1>0
    <3>3. node[j].amount \in Nat
      BY <3>2 DEF BondType
    <3>4. bps \in 0..BPS
      BY <3>1 DEF BPS
    <3> QED BY <3>3, <3>4
  <2>2. Cut(j, bps) \in 0..node[j].amount
    BY <2>1, CutBounded DEF Cut
  <2>3. node'[k] = node[k] \/ (k = j /\ node'[k].amount = node[k].amount - Cut(j, bps))
    BY <1>0, <1>5 DEF Slash, SlashAll, BondType
  <2> QED BY <1>0, <2>2, <2>3
<1>6. CASE UNCHANGED node
  BY <1>0, <1>6
<1>7. \A a \in Address, j \in Key : ~OperatorNext(a, j) \/ ~WitnessEligible(k)'
  BY <1>2, <1>3, <1>4 DEF OperatorNext
<1> QED BY <1>5, <1>6, <1>7 DEF Next, AdminNext, SetAdjudicator, SetParams, Tick, TokenTurns, stakeVars

(* Nobody adds weight on the morning of an escalation: under any terms with an
   eligibility age, whatever is staked counts only that much later. *)
THEOREM FreshStakeWaits == Spec => NewStakeIsNotEligible
<1>1. BondInv /\ [Next]_stakeVars =>
        [\A k \in Key : /\ node'[k].amount > node[k].amount
                        /\ terms.eligibilityAge > 0
                        => ~WitnessEligible(k)']_stakeVars
  BY GainsRestartTheAge DEF Ages
<1> QED BY <1>1, BondInvariant, PTL DEF Spec, NewStakeIsNotEligible
=============================================================================
