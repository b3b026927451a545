-------------------------- MODULE EpochAnchorProofs --------------------------
(***************************************************************************)
(* The hourly root for any number of hours, roots, keys and proposals: the *)
(* contract's types, that a finalized root is backed and immutable, and    *)
(* that it comes only when its hour is over.  NodeStake's invariant holds  *)
(* underneath, since proposing moves no bond.                              *)
(***************************************************************************)
EXTENDS EpochAnchor, NodeStakeProofs

AnchorInv == BondInv /\ AnchorTypeOK

(* The last whole hour of a clock: what block.timestamp / 3600 is over. *)
LEMMA LastHour ==
    ASSUME NEW h \in Nat \ {0}, NEW t \in Nat, NEW e \in Nat, e < t \div h
    PROVE  t >= (e + 1) * h
<1>1. t \div h \in Nat /\ h * (t \div h) <= t
  BY SMT
<1> DEFINE q == t \div h
<1>2. \A x \in Nat : e < x => h * (e + 1) <= h * x
  BY SMT
<1>3. h * (e + 1) <= h * q
  BY <1>1, <1>2
<1>4. h * (e + 1) = (e + 1) * h
  BY SMT
<1> QED BY <1>1, <1>3, <1>4

(* A quorum is never nothing: of any stake, it takes some. *)
LEMMA QuorumPositive ==
    ASSUME NEW total \in Nat \ {0}, quorum \in QuorumType
    PROVE  Needed(total) \in Nat \ {0}
<1>0. quorum.bps \in 1..BPS
  BY DEF QuorumType
<1>1. PICK bps \in 1..BPS : bps = quorum.bps
  BY <1>0
<1> DEFINE x == total * bps
<1>2. x \in Nat \ {0}
  <2>1. \A p, q \in Nat : p >= 1 /\ q >= 1 => p * q >= 1 /\ p * q \in Nat
    BY SMT
  <2>2. bps \in Nat /\ bps >= 1 /\ total \in Nat /\ total >= 1
    BY DEF BPS
  <2> QED BY <2>1, <2>2
<1>3. \A y \in Nat \ {0} : (y + 10000 - 1) \div 10000 \in Nat \ {0}
  BY SMT
<1>4. Needed(total) = (x + 10000 - 1) \div 10000
  BY <1>1 DEF Needed, BPS
<1> HIDE DEF x
<1> QED BY <1>2, <1>3, <1>4

LEMMA AnchorInitKeeps == Init /\ AnchorInit => AnchorInv
<1> SUFFICES ASSUME Init, AnchorInit PROVE AnchorInv
  OBVIOUS
<1>1. BondInv
  BY InitKeeps
<1>2. AnchorTypeOK
  BY EpochAnchorAssumption DEF AnchorInit, AnchorTypeOK, RootOrNone, Unanchored
<1> QED BY <1>1, <1>2 DEF AnchorInv

(* What an accepted proposal does to its hour. *)
LEMMA ProposeKeeps ==
    ASSUME AnchorInv, NEW a \in Address, NEW e \in Epoch, NEW r \in Root, NEW k \in Key,
           Propose(a, e, r, k)
    PROVE  AnchorTypeOK'
<1> DEFINE s == support[e][r] + node[k].amount
           new == [root |-> r, finalizedAt |-> now, support |-> s, totalActive |-> totalActive]
<1>1. /\ anchors \in [Epoch -> Anchored \cup {Unanchored}]
      /\ support \in [Epoch -> [Root -> Nat]]
      /\ proposalOf \in [Epoch -> [Key -> RootOrNone]]
      /\ quorum \in QuorumType
      /\ node \in [Key -> BondType] /\ totalActive \in Nat /\ now \in Nat
  BY DEF AnchorInv, AnchorTypeOK, BondInv, TypeOK
<1>2. s \in Nat
  BY <1>1 DEF BondType
<1>3. /\ proposalOf' = [proposalOf EXCEPT ![e][k] = r]
      /\ support' = [support EXCEPT ![e][r] = s]
      /\ anchors' = IF Enough(s) THEN [anchors EXCEPT ![e] = new] ELSE anchors
      /\ UNCHANGED quorum
  BY DEF Propose
<1> HIDE DEF s
<1>4. Enough(s) => s \in Nat \ {0} /\ totalActive \in Nat \ {0}
  BY <1>1, <1>2, QuorumPositive DEF Enough
<1>5. anchors' \in [Epoch -> Anchored \cup {Unanchored}]
  <2>1. Enough(s) => new \in Anchored
    BY <1>1, <1>4 DEF Anchored
  <2> HIDE DEF new
  <2> QED BY <1>1, <1>3, <2>1
<1>6. proposalOf' \in [Epoch -> [Key -> RootOrNone]]
  BY <1>1, <1>3 DEF RootOrNone
<1>7. support' \in [Epoch -> [Root -> Nat]]
  BY <1>1, <1>2, <1>3
<1>8. quorum' \in QuorumType
  BY <1>1, <1>3
<1> QED BY <1>5, <1>6, <1>7, <1>8 DEF AnchorTypeOK

LEMMA AnchorStepKeeps == AnchorInv /\ [AnchorNext]_allVars => AnchorInv'
<1> SUFFICES ASSUME AnchorInv, [AnchorNext]_allVars PROVE AnchorInv'
  OBVIOUS
<1>1. ASSUME UNCHANGED anchorVars PROVE AnchorTypeOK'
  BY <1>1 DEF AnchorInv, AnchorTypeOK, anchorVars
<1>2. ASSUME UNCHANGED stakeVars PROVE BondInv'
  BY <1>2, StepKeeps DEF AnchorInv
<1>3. ASSUME NEW a \in Address, NEW e \in Epoch, NEW r \in Root, NEW k \in Key,
             Propose(a, e, r, k)
      PROVE  AnchorInv'
  <2>1. AnchorTypeOK'
    BY <1>3, ProposeKeeps
  <2>2. UNCHANGED stakeVars
    BY <1>3 DEF Propose
  <2> QED BY <1>2, <2>1, <2>2 DEF AnchorInv
<1>4. ASSUME NEW a \in Address, NEW bps \in Quorums, SetQuorum(a, bps) PROVE AnchorInv'
  <2>1. AnchorTypeOK'
    BY <1>4, EpochAnchorAssumption DEF AnchorInv, AnchorTypeOK, SetQuorum, QuorumType
  <2>2. UNCHANGED stakeVars
    BY <1>4 DEF SetQuorum
  <2> QED BY <1>2, <2>1, <2>2 DEF AnchorInv
<1>5. ASSUME Next, UNCHANGED anchorVars PROVE AnchorInv'
  BY <1>1, <1>5, StepKeeps DEF AnchorInv
<1>6. ASSUME UNCHANGED allVars PROVE AnchorInv'
  BY <1>1, <1>2, <1>6 DEF AnchorInv, allVars
<1> QED BY <1>3, <1>4, <1>5, <1>6 DEF AnchorNext, ProposeNext

(* Every reachable state satisfies the invariant: the bonds under the anchors
   stay sound whatever is proposed. *)
THEOREM AnchorInvariant == AnchorSpec => []AnchorInv
<1> QED BY AnchorInitKeeps, AnchorStepKeeps, PTL DEF AnchorSpec

(* Type correctness of the anchors; a finalized root has stake behind it. *)
THEOREM AnchorTypeCorrect == AnchorSpec => []AnchorTypeOK
<1>1. AnchorInv => AnchorTypeOK
  BY DEF AnchorInv
<1> QED BY <1>1, AnchorInvariant, PTL

(* Only a proposal for an hour that is over and still open changes its
   anchor. *)
LEMMA StepStands ==
    ASSUME AnchorInv, AnchorNext, NEW e \in Epoch, anchors'[e] # anchors[e]
    PROVE  anchors[e].root = NoRoot /\ now >= (e + 1) * Hour
<1>1. anchors' # anchors
  OBVIOUS
<1>2. PICK a \in Address, d \in Epoch, r \in Root, k \in Key : Propose(a, d, r, k)
  BY <1>1 DEF AnchorNext, ProposeNext, SetQuorum, anchorVars
<1>3. d = e
  <2>1. anchors \in [Epoch -> Anchored \cup {Unanchored}]
    BY DEF AnchorInv, AnchorTypeOK
  <2> QED BY <1>2, <2>1 DEF Propose
<1>4. anchors[e].root = NoRoot /\ e < now \div Hour
  BY <1>2, <1>3 DEF Propose, Undecided, HourOver
<1>5. now \in Nat /\ e \in Nat /\ Hour \in Nat \ {0}
  BY EpochAnchorAssumption DEF AnchorInv, BondInv, TypeOK
<1> QED BY <1>4, <1>5, LastHour

(* An hour gets at most one root, after it is over, and keeps it whatever is
   proposed, bonded or voted on afterwards. *)
THEOREM AnchorImmutable == AnchorSpec => AnchorStands
<1>1. AnchorInv /\ [AnchorNext]_allVars =>
        [\A e \in Epoch : anchors'[e] # anchors[e] =>
           anchors[e].root = NoRoot /\ now >= (e + 1) * Hour]_allVars
  BY StepStands
<1> QED BY <1>1, AnchorInvariant, PTL DEF AnchorSpec, AnchorStands

-----------------------------------------------------------------------------
(* The quorum behind a root *)

(* While those that proposed stay, the support of a root is covered by the
   bonds of the keys behind it, none of which is leaving. *)
BackedInv ==
    \A e \in Epoch, r \in Root :
        /\ Behind(e, r) \subseteq Staying(node)
        /\ support[e][r] <= TotalOf(Behind(e, r), Stakes(node))

(* A total of larger amounts is no smaller. *)
LEMMA TotalGrows ==
    ASSUME NEW S, IsFiniteSet(S), NEW f, NEW g,
           \A k \in S : f[k] \in Nat /\ g[k] \in Nat /\ f[k] <= g[k]
    PROVE  TotalOf(S, f) <= TotalOf(S, g)
<1>1. Coins(S, f) \subseteq Coins(S, g)
  <2> SUFFICES ASSUME NEW k \in S, NEW i \in 1..f[k] PROVE i \in 1..g[k]
    BY DEF Coins
  <2> QED OBVIOUS
<1>2. IsFiniteSet(Coins(S, g))
  BY TotalType
<1> QED BY <1>1, <1>2, FS_Subset DEF TotalOf

LEMMA BackedInitKeeps == Init /\ AnchorInit => BackedInv
<1> SUFFICES ASSUME Init, AnchorInit, NEW e \in Epoch, NEW r \in Root
             PROVE  /\ Behind(e, r) \subseteq Staying(node)
                    /\ support[e][r] <= TotalOf(Behind(e, r), Stakes(node))
  BY DEF BackedInv
<1>1. Behind(e, r) = {} /\ support[e][r] = 0
  BY EpochAnchorAssumption DEF AnchorInit, Behind
<1>2. TotalOf({}, Stakes(node)) \in Nat
  BY TotalType, FS_EmptySet
<1> QED BY <1>1, <1>2

(* The bonds behind a root only grow. *)
LEMMA BondsBehindKeep ==
    ASSUME AnchorInv, BackedInv, UNCHANGED <<support, proposalOf>>, node' \in [Key -> BondType],
           ProposersStay \/ UNCHANGED node
    PROVE  BackedInv'
<1> SUFFICES ASSUME NEW e \in Epoch, NEW r \in Root
             PROVE  /\ Behind(e, r)' \subseteq Staying(node)'
                    /\ support'[e][r] <= TotalOf(Behind(e, r), Stakes(node))'
  BY DEF BackedInv
<1> DEFINE B == Behind(e, r)
<1>1. Behind(e, r)' = B
  BY DEF Behind
<1>2. B \subseteq Staying(node) /\ B \subseteq Key /\ IsFiniteSet(B)
  BY NodeStakeAssumption, FS_Subset DEF BackedInv, Behind
<1>3. node \in [Key -> BondType]
  BY DEF AnchorInv, BondInv, TypeOK
<1>4. \A k \in B : node'[k].amount >= node[k].amount /\ node'[k].unbondAt = 0
  <2>1. \A k \in B : HasProposed(k)
    BY EpochAnchorAssumption DEF Behind, HasProposed
  <2>2. \A k \in B : node[k].unbondAt = 0 /\ node[k].amount \in Nat
    BY <1>2, <1>3 DEF Staying, BondType
  <2> QED BY <1>2, <2>1, <2>2 DEF ProposersStay
<1>5. B \subseteq Staying(node')
  BY <1>2, <1>4 DEF Staying
<1>6. \A k \in B : /\ Stakes(node)[k] \in Nat /\ Stakes(node')[k] \in Nat
                   /\ Stakes(node)[k] <= Stakes(node')[k]
  <2>1. \A k \in Key : node[k].amount \in Nat /\ node'[k].amount \in Nat
    BY <1>3 DEF BondType
  <2> QED BY <1>2, <1>4, <2>1 DEF Stakes
<1>7. TotalOf(B, Stakes(node)) <= TotalOf(B, Stakes(node'))
  BY <1>2, <1>6, TotalGrows
<1>8. support[e][r] <= TotalOf(B, Stakes(node)) /\ support[e][r] \in Nat
  BY DEF BackedInv, AnchorInv, AnchorTypeOK
<1>9. TotalOf(B, Stakes(node)) \in Nat /\ TotalOf(B, Stakes(node')) \in Nat
  BY <1>2, <1>6, TotalType
<1>10. support'[e][r] <= TotalOf(B, Stakes(node'))
  BY <1>7, <1>8, <1>9
<1> QED BY <1>1, <1>5, <1>10 DEF Staying, TotalOf, Coins, Stakes

(* A proposal adds its key, and its key's bond, to one root of one hour. *)
LEMMA ProposeBacks ==
    ASSUME AnchorInv, BackedInv, NEW a \in Address, NEW e \in Epoch, NEW r \in Root, NEW k \in Key,
           Propose(a, e, r, k)
    PROVE  /\ BackedInv'
           /\ support'[e][r] = support[e][r] + node[k].amount
<1> DEFINE B == Behind(e, r)
<1>1. /\ support \in [Epoch -> [Root -> Nat]] /\ proposalOf \in [Epoch -> [Key -> RootOrNone]]
      /\ node \in [Key -> BondType]
  BY DEF AnchorInv, AnchorTypeOK, BondInv, TypeOK
<1>2. /\ proposalOf[e][k] = NoRoot /\ node[k].unbondAt = 0 /\ node' = node
      /\ proposalOf' = [proposalOf EXCEPT ![e][k] = r]
      /\ support' = [support EXCEPT ![e][r] = support[e][r] + node[k].amount]
  BY DEF Propose, Fresh, Active, stakeVars
<1>3. support'[e][r] = support[e][r] + node[k].amount
  BY <1>1, <1>2
<1>4. \A d \in Epoch, q \in Root : Behind(d, q)' = IF d = e /\ q = r THEN B \cup {k} ELSE Behind(d, q)
  BY <1>1, <1>2, EpochAnchorAssumption DEF Behind
<1>5. \A S : S \subseteq Key => IsFiniteSet(S) /\ \A x \in S : Stakes(node)[x] \in Nat
  <2>1. \A x \in Key : node[x].amount \in Nat
    BY <1>1 DEF BondType
  <2> QED BY <2>1, NodeStakeAssumption, FS_Subset DEF Stakes
<1>6. TotalOf(B \cup {k}, Stakes(node)) = TotalOf(B, Stakes(node)) + node[k].amount
  <2>1. B \subseteq Key /\ {k} \subseteq Key /\ B \cap {k} = {}
    BY <1>2, EpochAnchorAssumption DEF Behind
  <2>2. TotalOf({k}, Stakes(node)) = node[k].amount
    BY <1>5, TotalOfOne DEF Stakes
  <2>3. IsFiniteSet(B) /\ IsFiniteSet({k}) /\ \A x \in B \cup {k} : Stakes(node)[x] \in Nat
    BY <1>5, <2>1
  <2> HIDE DEF B
  <2> QED BY <2>1, <2>2, <2>3, TotalSplits
<1>7. ASSUME NEW d \in Epoch, NEW q \in Root
      PROVE  /\ Behind(d, q)' \subseteq Staying(node)'
             /\ support'[d][q] <= TotalOf(Behind(d, q), Stakes(node))'
  <2>1. CASE d = e /\ q = r
    <3>1. B \cup {k} \subseteq Staying(node)
      BY <1>2 DEF BackedInv, Staying
    <3>2. TotalOf(B, Stakes(node)) \in Nat /\ support[e][r] \in Nat /\ node[k].amount \in Nat
      BY <1>1, <1>5, TotalType DEF Behind, BondType
    <3>3. support[e][r] <= TotalOf(B, Stakes(node))
      BY DEF BackedInv
    <3>4. support'[e][r] <= TotalOf(B \cup {k}, Stakes(node))
      BY <1>3, <1>6, <3>2, <3>3
    <3> QED BY <1>2, <1>4, <2>1, <3>1, <3>4 DEF Staying, TotalOf, Coins, Stakes
  <2>2. CASE ~(d = e /\ q = r)
    <3>1. support'[d][q] = support[d][q]
      BY <1>1, <1>2, <2>2
    <3>2. Behind(d, q)' = Behind(d, q)
      BY <1>4, <2>2
    <3>3. /\ Behind(d, q) \subseteq Staying(node)
          /\ support[d][q] <= TotalOf(Behind(d, q), Stakes(node))
      BY DEF BackedInv
    <3>4. TotalOf(Behind(d, q), Stakes(node))' = TotalOf(Behind(d, q), Stakes(node))
      BY <1>2, <3>2 DEF TotalOf, Coins, Stakes
    <3> QED BY <1>2, <3>1, <3>2, <3>3, <3>4 DEF Staying
  <2> QED BY <2>1, <2>2
<1> QED BY <1>3, <1>7 DEF BackedInv

LEMMA BackedStepKeeps ==
    AnchorInv /\ BackedInv /\ [AnchorNext]_allVars /\ [ProposersStay]_allVars => BackedInv'
<1> SUFFICES ASSUME AnchorInv, BackedInv, [AnchorNext]_allVars, [ProposersStay]_allVars
             PROVE  BackedInv'
  OBVIOUS
<1>1. node' \in [Key -> BondType]
  BY AnchorStepKeeps DEF AnchorInv, BondInv, TypeOK
<1>2. ASSUME NEW a \in Address, NEW e \in Epoch, NEW r \in Root, NEW k \in Key,
             Propose(a, e, r, k)
      PROVE  BackedInv'
  BY <1>2, ProposeBacks
<1>3. ASSUME UNCHANGED <<support, proposalOf>> PROVE BackedInv'
  BY <1>1, <1>3, BondsBehindKeep DEF allVars, stakeVars
<1> QED BY <1>2, <1>3 DEF AnchorNext, ProposeNext, SetQuorum, anchorVars, allVars

(* As long as those who proposed stay, an hour's support is never more than
   what the keys behind its roots have bonded: for any keys, bonds and hours, no
   bond backs two roots, or one root twice. *)
THEOREM SupportIsBacked == AnchorSpec /\ [][ProposersStay]_allVars => []SupportIsBonded
<1>1. BackedInv => SupportIsBonded
  BY DEF BackedInv, SupportIsBonded
<1> QED BY <1>1, AnchorInvariant, BackedInitKeeps, BackedStepKeeps, PTL DEF AnchorSpec

(* Rounded up, the quorum is at least its share. *)
LEMMA NeededIsEnough ==
    ASSUME NEW total \in Nat, NEW s \in Nat, quorum \in QuorumType, s >= Needed(total)
    PROVE  s * BPS >= total * quorum.bps
<1>1. quorum.bps \in Nat
  BY DEF QuorumType
<1> DEFINE x == total * quorum.bps
<1>2. x \in Nat
  BY <1>1
<1>3. \A y \in Nat : s >= (y + 10000 - 1) \div 10000 => s * 10000 >= y
  BY SMT
<1>4. s >= (x + 10000 - 1) \div 10000
  BY DEF Needed, BPS
<1> HIDE DEF x
<1>5. s * 10000 >= x
  BY <1>2, <1>3, <1>4
<1> QED BY <1>5 DEF x, BPS

LEMMA StepHeldByQuorum ==
    ASSUME AnchorInv, BackedInv, AnchorNext, NEW e \in Epoch, anchors'[e] # anchors[e]
    PROVE  TotalOf(HeldBehind(e, anchors[e].root), Stakes(node))' * BPS
             >= totalActive * quorum.bps
<1>1. anchors' # anchors
  OBVIOUS
<1>2. PICK a \in Address, d \in Epoch, r \in Root, k \in Key : Propose(a, d, r, k)
  BY <1>1 DEF AnchorNext, ProposeNext, SetQuorum, anchorVars
<1> DEFINE s == support[d][r] + node[k].amount
<1>3. /\ anchors \in [Epoch -> Anchored \cup {Unanchored}] /\ quorum \in QuorumType
      /\ support \in [Epoch -> [Root -> Nat]]
      /\ totalActive \in Nat /\ node \in [Key -> BondType]
  BY DEF AnchorInv, AnchorTypeOK, BondInv, TypeOK
<1>4. d = e /\ Enough(s) /\ anchors'[e].root = r /\ node' = node
  BY <1>2, <1>3 DEF Propose, stakeVars
<1>5. BackedInv' /\ support'[e][r] = s
  BY <1>2, <1>4, ProposeBacks
<1>6. s \in Nat
  BY <1>3 DEF BondType
<1>7. s * BPS >= totalActive * quorum.bps
  BY <1>3, <1>4, <1>6, NeededIsEnough DEF Enough
<1> DEFINE t == TotalOf(Behind(e, r), Stakes(node))'
<1>8. s <= t /\ HeldBehind(e, r)' = Behind(e, r)'
  BY <1>5 DEF BackedInv, HeldBehind
<1>9. t \in Nat
  <2>1. Behind(e, r)' \subseteq Key
    BY DEF Behind
  <2>2. IsFiniteSet(Behind(e, r)') /\ \A x \in Behind(e, r)' : Stakes(node')[x] \in Nat
    BY <1>3, <1>4, <2>1, NodeStakeAssumption, FS_Subset DEF Stakes, BondType
  <2>3. TotalOf(Behind(e, r)', Stakes(node')) \in Nat
    BY <2>2, TotalType
  <2> QED BY <2>3 DEF TotalOf, Coins, Stakes
<1>10. TotalOf(HeldBehind(e, anchors[e].root), Stakes(node))' = t
  BY <1>4, <1>8 DEF HeldBehind, Behind, TotalOf, Coins, Stakes
<1>11. t * BPS >= s * BPS
  <2> HIDE DEF s, t
  <2>1. s * 10000 <= t * 10000
    BY <1>6, <1>8, <1>9, SMT
  <2> QED BY <2>1, <1>6, <1>9 DEF BPS
<1>12. totalActive * quorum.bps \in Int /\ s * BPS \in Int /\ t * BPS \in Int
  <2> HIDE DEF s, t
  <2>1. \A p, q \in Nat : p * q \in Int
    BY SMT
  <2>2. quorum.bps \in Nat
    BY <1>3 DEF QuorumType
  <2>3. BPS \in Nat
    BY DEF BPS
  <2> QED BY <1>3, <1>6, <1>9, <2>1, <2>2, <2>3
<1> HIDE DEF s, t
<1> QED BY <1>7, <1>10, <1>11, <1>12

(* As long as those who proposed stay, every finalized root had the quorum's
   share of the stake behind it: for any bonds, whatever comes in meanwhile and
   however the quorum is changed. *)
THEOREM RootsAreHeld == AnchorSpec /\ [][ProposersStay]_allVars => AnchorHeldByQuorum
<1>1. AnchorInv /\ BackedInv /\ [AnchorNext]_allVars =>
        [\A e \in Epoch : anchors'[e] # anchors[e] =>
           TotalOf(HeldBehind(e, anchors[e].root), Stakes(node))' * BPS
             >= totalActive * quorum.bps]_allVars
  BY StepHeldByQuorum
<1> QED BY <1>1, AnchorInvariant, BackedInitKeeps, BackedStepKeeps, PTL
        DEF AnchorSpec, AnchorHeldByQuorum
=============================================================================
