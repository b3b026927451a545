---------------------------- MODULE HourlyProofs ----------------------------
(* A wrong proposal from a minority of stake never finalizes, for any number
   of nodes, hours and matches: HourlyRoot's nodes over EpochAnchor over the
   bonds.  The argument follows a root from the blocks a node has read through
   its draft and its proposal to the stake counted behind it. *)
EXTENDS HourlyRoot, EpochAnchorProofs

(* The nodes whose calls may fail hold less than the quorum. *)
FlakyMinority ==
    TotalOf(Flaky, Stakes(Genesis.node))
      < (Genesis.totalActive * AnchorGenesis.bps + BPS - 1) \div BPS

Decisions == [at : Nat, status : {"open", "final", "void"}]
Drafts == [hour : Epoch, root : Root]

Done(m) == decided[m].status # "open"
UpTo(m, e) == Done(m) /\ HourOf(decided[m].at) <= e
Frozen(e) == now >= FreezeAt(e)

NodesType ==
    /\ decided \in [Match -> Decisions]
    /\ log \in [Key -> SUBSET Match] /\ blockTs \in [Key -> SUBSET Match]
    /\ statsKnown \in [Key -> SUBSET Match]
    /\ hoursLeft \in [Key -> SUBSET Epoch]
    /\ draft \in [Key -> SUBSET Drafts]

BondsRest ==
    node = Genesis.node /\ totalActive = Genesis.totalActive /\ quorum = AnchorGenesis

(* What a node holds was decided, no later than now. *)
HeldIsDecided ==
    /\ \A m \in Match : Done(m) => decided[m].at <= now
    /\ \A n \in Key : blockTs[n] \subseteq log[n] /\ \A m \in log[n] : Done(m)

(* The grace did its work, and an hour a sound node is about to fold was
   read whole. *)
HoursRead ==
    /\ \A e \in Epoch : Frozen(e) => \A n \in Key \ Flaky : Holds(n, e)
    /\ \A n \in Key : \A e \in hoursLeft[n] :
         /\ Frozen(e)
         /\ n \notin Flaky => \A m \in Match : UpTo(m, e) => m \in blockTs[n]

(* What a sound node drafts and proposes is the truth. *)
DraftsTrue ==
    \A n \in Key : \A d \in draft[n] :
        Frozen(d.hour) /\ (n \notin Flaky => d.root = TrueRoot(d.hour))
ProposalsTrue ==
    \A e \in Epoch, k \in Key : proposalOf[e][k] # NoRoot =>
        Frozen(e) /\ (k \notin Flaky => proposalOf[e][k] = TrueRoot(e))

(* Support is the stake behind a root, to the coin, since bonds rest. *)
SupportIsSum ==
    \A e \in Epoch, r \in Root : support[e][r] = TotalOf(Behind(e, r), Stakes(node))
AnchorsTrue == FlakyMinority =>
    \A e \in Epoch : ~Undecided(e) => Frozen(e) /\ anchors[e].root = TrueRoot(e)

HourlyInv ==
    /\ AnchorInv /\ NodesType /\ BondsRest
    /\ HeldIsDecided /\ HoursRead
    /\ DraftsTrue /\ ProposalsTrue /\ SupportIsSum /\ AnchorsTrue

-----------------------------------------------------------------------------
(* A frozen hour is over: nothing decided from then on belongs to it. *)
LEMMA FrozenHourPassed ==
    ASSUME NEW h \in Nat \ {0}, NEW g \in Nat, NEW e \in Nat, NEW t \in Nat,
           t >= (e + 1) * h + g
    PROVE  t \div h > e
<1> DEFINE q == t \div h
<1>1. q \in Nat /\ t < h * (q + 1)  BY SMT
<1>. HIDE DEF q
<1>2. (e + 1) * h = h * (e + 1)  BY SMT
<1>3. ASSUME q <= e PROVE FALSE
  <2>1. h * (q + 1) <= h * (e + 1)
    <3>1. \A x, y, z \in Nat : x <= y => z * x <= z * y  BY SMT
    <3>. QED  BY <1>1, <1>3, <3>1
  <2>2. h * (e + 1) \in Nat /\ h * (q + 1) \in Nat  BY <1>1
  <2>3. t >= h * (e + 1)  BY <1>2, <2>2
  <2>. QED  BY <1>1, <2>1, <2>2, <2>3
<1>4. q > e  BY <1>1, <1>3
<1>. QED  BY <1>4 DEF q

LEMMA FrozenIsOver ==
    ASSUME HourlyInv, NEW e \in Epoch, Frozen(e)
    PROVE  HourOf(now) > e
<1>1. now \in Nat /\ e \in Nat /\ Hour \in Nat \ {0} /\ Grace \in Nat
  BY EpochAnchorAssumption, HourlyRootAssumption DEF HourlyInv, AnchorInv, BondInv, TypeOK
<1>2. now >= (e + 1) * Hour + Grace  BY DEF Frozen, FreezeAt
<1>. QED  BY <1>1, <1>2, FrozenHourPassed DEF HourOf

(* Deciding a match leaves the truth of a frozen hour alone. *)
LEMMA TruthStands ==
    ASSUME HourlyInv, NEW x \in Match, NEW status \in {"final", "void"}, Decide(x, status),
           NEW e \in Epoch, Frozen(e)
    PROVE  /\ TrueRoot(e)' = TrueRoot(e)
           /\ \A m \in Match : UpTo(m, e)' <=> UpTo(m, e)
<1>1. /\ decided \in [Match -> Decisions] /\ decided[x].status = "open"
      /\ decided' = [decided EXCEPT ![x] = [at |-> now, status |-> status]]
  BY DEF HourlyInv, NodesType, Decide
<1>2. decided'[x].at = now /\ decided'[x].status = status /\ status # "open"
  BY <1>1
<1>3. \A m \in Match : m # x => decided'[m] = decided[m]
  BY <1>1
<1>4. HourOf(now) > e  BY FrozenIsOver
<1>5. HourOf(now) \in Int /\ e \in Int
  BY EpochAnchorAssumption, HourlyRootAssumption
     DEF HourlyInv, AnchorInv, BondInv, TypeOK, HourOf
<1>6. ~(HourOf(now) <= e) /\ HourOf(now) # e  BY <1>4, <1>5
<1>7. \A m \in Match :
         /\ UpTo(m, e)' <=> UpTo(m, e)
         /\ Done(m)' /\ HourOf(decided'[m].at) = e <=> Done(m) /\ HourOf(decided[m].at) = e
         /\ decided'[m].status = "final" /\ HourOf(decided'[m].at) <= e
              <=> decided[m].status = "final" /\ HourOf(decided[m].at) <= e
  <2>1. TAKE m \in Match
  <2>2. CASE m = x  BY <1>1, <1>2, <1>6, <2>2 DEF UpTo, Done, HourOf
  <2>3. CASE m # x  BY <1>3, <2>3 DEF UpTo, Done, HourOf
  <2>. QED  BY <2>2, <2>3
<1>8. TrueRoot(e)' = TrueRoot(e)
  BY <1>7 DEF TrueRoot, Done, HourOf
<1>. QED  BY <1>7, <1>8

-----------------------------------------------------------------------------
(* Where it starts *)

LEMMA HourlyStarts == HourlyInit => HourlyInv
<1>. SUFFICES ASSUME HourlyInit PROVE HourlyInv  OBVIOUS
<1>1. AnchorInv  BY AnchorInitKeeps DEF HourlyInit
<1>2. BondsRest  BY DEF HourlyInit, Init, AnchorInit, BondsRest
<1>3. NodesType  BY DEF HourlyInit, NodesType, Decisions
<1>4. HeldIsDecided  BY DEF HourlyInit, HeldIsDecided, Done
<1>5. HoursRead  BY DEF HourlyInit, HoursRead, Holds
<1>6. DraftsTrue  BY DEF HourlyInit, DraftsTrue
<1>7. \A e \in Epoch, k \in Key : proposalOf[e][k] = NoRoot
  BY DEF HourlyInit, AnchorInit
<1>8. ProposalsTrue  BY <1>7 DEF ProposalsTrue
<1>9. SupportIsSum
  <2>1. ASSUME NEW e \in Epoch, NEW r \in Root
        PROVE  support[e][r] = TotalOf(Behind(e, r), Stakes(node))
    <3>1. Behind(e, r) = {}  BY <1>7, EpochAnchorAssumption DEF Behind
    <3>2. Coins({}, Stakes(node)) = {}  BY DEF Coins
    <3>3. TotalOf({}, Stakes(node)) = 0  BY <3>2, FS_EmptySet DEF TotalOf
    <3>4. support[e][r] = 0  BY DEF HourlyInit, AnchorInit
    <3>. QED  BY <3>1, <3>3, <3>4
  <2>. QED  BY <2>1 DEF SupportIsSum
<1>10. AnchorsTrue
  BY DEF HourlyInit, AnchorInit, AnchorsTrue, Undecided, Unanchored
<1>. QED  BY <1>1, <1>2, <1>3, <1>4, <1>5, <1>6, <1>8, <1>9, <1>10 DEF HourlyInv

-----------------------------------------------------------------------------
(* Steps that leave the contract alone *)

(* What the contract holds stays true while the truth of frozen hours does. *)
LEMMA ContractKeeps ==
    ASSUME HourlyInv, UNCHANGED allVars,
           \A e \in Epoch : Frozen(e) => TrueRoot(e)' = TrueRoot(e)
    PROVE  /\ AnchorInv' /\ BondsRest'
           /\ ProposalsTrue' /\ SupportIsSum' /\ AnchorsTrue'
<1>1. UNCHANGED <<node, totalActive, now, anchors, support, proposalOf, quorum>>
  BY DEF allVars, stakeVars, anchorVars
<1>2. AnchorInv'  BY AnchorStepKeeps DEF HourlyInv
<1>3. BondsRest'  BY <1>1 DEF HourlyInv, BondsRest
<1>4. \A e \in Epoch : Frozen(e)' <=> Frozen(e)  BY <1>1 DEF Frozen, FreezeAt
<1>5. ProposalsTrue'  BY <1>1, <1>4 DEF HourlyInv, ProposalsTrue
<1>6. SupportIsSum'  BY <1>1 DEF HourlyInv, SupportIsSum, Behind
<1>7. AnchorsTrue'  BY <1>1, <1>4 DEF HourlyInv, AnchorsTrue, Undecided
<1>. QED  BY <1>2, <1>3, <1>5, <1>6, <1>7

LEMMA DecideKeeps ==
    ASSUME HourlyInv, NEW x \in Match, NEW status \in {"final", "void"}, Decide(x, status)
    PROVE  HourlyInv'
<1>1. /\ UNCHANGED allVars /\ UNCHANGED nodeVars
      /\ decided[x].status = "open"
      /\ decided' = [decided EXCEPT ![x] = [at |-> now, status |-> status]]
  BY DEF Decide
<1>2. /\ UNCHANGED <<log, blockTs, statsKnown, hoursLeft, draft>> /\ UNCHANGED now
  BY <1>1 DEF nodeVars, allVars, stakeVars
<1>3. now \in Nat  BY DEF HourlyInv, AnchorInv, BondInv, TypeOK
<1>4. NodesType'
  <2>1. [at |-> now, status |-> status] \in Decisions  BY <1>3 DEF Decisions
  <2>. QED  BY <1>1, <1>2, <2>1 DEF HourlyInv, NodesType
<1>5. HeldIsDecided'
  <2>1. \A m \in Match : /\ Done(m) => Done(m)'
                         /\ Done(m)' => decided'[m].at <= now'
    <3>1. decided'[x].at = now /\ decided'[x].status = status
      BY <1>1 DEF HourlyInv, NodesType
    <3>2. \A m \in Match : m # x => decided'[m] = decided[m]
      BY <1>1 DEF HourlyInv, NodesType
    <3>3. now <= now  BY <1>3
    <3>4. ~Done(x) /\ Done(x)'  BY <1>1, <3>1 DEF Done
    <3>. QED  BY <1>2, <3>1, <3>2, <3>3, <3>4 DEF Done, HourlyInv, HeldIsDecided
  <2>2. \A n \in Key : log[n] \subseteq Match  BY DEF HourlyInv, NodesType
  <2>. QED  BY <1>2, <2>1, <2>2 DEF HourlyInv, HeldIsDecided
<1>6. \A e \in Epoch : /\ Frozen(e)' <=> Frozen(e)
                       /\ Frozen(e) => TrueRoot(e)' = TrueRoot(e)
                       /\ Frozen(e) => \A m \in Match : UpTo(m, e)' <=> UpTo(m, e)
  BY <1>2, TruthStands DEF Frozen, FreezeAt
<1>7. HoursRead'
  <2>1. \A e \in Epoch, n \in Key : Frozen(e) => (Holds(n, e)' <=> Holds(n, e))
    BY <1>2, <1>6 DEF Holds, UpTo, Done, HourOf
  <2>2. \A n \in Key : hoursLeft[n] \subseteq Epoch  BY DEF HourlyInv, NodesType
  <2>. QED  BY <1>2, <1>6, <2>1, <2>2 DEF HourlyInv, HoursRead
<1>8. DraftsTrue'
  <2>1. \A n \in Key : \A d \in draft[n] : d.hour \in Epoch
    BY DEF HourlyInv, NodesType, Drafts
  <2>. QED  BY <1>2, <1>6, <2>1 DEF HourlyInv, DraftsTrue
<1>. QED  BY <1>1, <1>4, <1>5, <1>6, <1>7, <1>8, ContractKeeps DEF HourlyInv

(* A node's own step: what was decided, and when, does not move. *)
LEMMA OwnStepKeeps ==
    ASSUME HourlyInv, UNCHANGED <<allVars, decided>>,
           NodesType', HeldIsDecided', HoursRead', DraftsTrue'
    PROVE  HourlyInv'
<1>1. \A e \in Epoch : TrueRoot(e)' = TrueRoot(e)  BY DEF TrueRoot, HourOf
<1>. QED  BY <1>1, ContractKeeps DEF HourlyInv

LEMMA AbsorbKeeps ==
    ASSUME HourlyInv, NEW n \in Key, NEW x \in Match, Absorb(n, x)
    PROVE  HourlyInv'
<1>1. /\ Done(x) /\ log' = [log EXCEPT ![n] = @ \cup {x}]
      /\ UNCHANGED <<allVars, decided, blockTs, statsKnown, hoursLeft, draft>>
      /\ UNCHANGED now
  BY DEF Absorb, Done, allVars, stakeVars
<1>2. \A k \in Key : log[k] \subseteq log'[k] /\ log'[k] \subseteq log[k] \cup {x}
  BY <1>1 DEF HourlyInv, NodesType
<1>3. NodesType'  BY <1>1 DEF HourlyInv, NodesType
<1>4. HeldIsDecided'  BY <1>1, <1>2 DEF HourlyInv, HeldIsDecided, Done
<1>5. HoursRead'
  BY <1>1, <1>2 DEF HourlyInv, HoursRead, Holds, UpTo, Done, HourOf, Frozen, FreezeAt
<1>6. DraftsTrue'
  BY <1>1 DEF HourlyInv, DraftsTrue, TrueRoot, HourOf, Frozen, FreezeAt
<1>. QED  BY <1>1, <1>3, <1>4, <1>5, <1>6, OwnStepKeeps

LEMMA StampKeeps ==
    ASSUME HourlyInv, NEW n \in Key, StampBlocks(n)
    PROVE  HourlyInv'
<1>1. PICK lost \in SUBSET (log[n] \ blockTs[n]), unserved \in SUBSET (log[n] \ statsKnown[n]) :
         /\ lost # {} => MayFail(n)
         /\ blockTs' = [blockTs EXCEPT ![n] = log[n] \ lost]
         /\ statsKnown' = [statsKnown EXCEPT ![n] = @ \cup
              {m \in blockTs'[n] \ unserved : decided[m].status = "final"}]
  BY DEF StampBlocks
<1>2. /\ hoursLeft' = [hoursLeft EXCEPT ![n] =
           {e \in LastHours(HourOf(now)) : e \in Epoch /\ now >= FreezeAt(e)}]
      /\ UNCHANGED <<allVars, decided, log, draft>> /\ UNCHANGED now
  BY DEF StampBlocks, allVars, stakeVars
<1>3. /\ blockTs \in [Key -> SUBSET Match] /\ log \in [Key -> SUBSET Match]
      /\ statsKnown \in [Key -> SUBSET Match] /\ hoursLeft \in [Key -> SUBSET Epoch]
  BY DEF HourlyInv, NodesType
<1>4. blockTs' \in [Key -> SUBSET Match] /\ blockTs'[n] = log[n] \ lost
      /\ \A k \in Key : k # n => blockTs'[k] = blockTs[k]
  BY <1>1, <1>3
<1>5. /\ hoursLeft' \in [Key -> SUBSET Epoch]
      /\ \A e \in hoursLeft'[n] : e \in Epoch /\ Frozen(e)
      /\ \A k \in Key : k # n => hoursLeft'[k] = hoursLeft[k]
  BY <1>2, <1>3 DEF Frozen
<1>6. statsKnown' \in [Key -> SUBSET Match]  BY <1>1, <1>3, <1>4
<1>7. NodesType'  BY <1>2, <1>4, <1>5, <1>6 DEF HourlyInv, NodesType
<1>8. HeldIsDecided'  BY <1>2, <1>4 DEF HourlyInv, HeldIsDecided, Done
<1>9. HoursRead'
  <2>1. \A e \in Epoch : Frozen(e)' <=> Frozen(e)  BY <1>2 DEF Frozen, FreezeAt
  <2>2. \A e \in Epoch, k \in Key : Holds(k, e)' <=> Holds(k, e)
    BY <1>2 DEF Holds, HourOf
  <2>3. \A m \in Match, e \in Epoch : UpTo(m, e)' <=> UpTo(m, e)
    BY <1>2 DEF UpTo, Done, HourOf
  <2>4. n \notin Flaky => lost = {}  BY <1>1 DEF MayFail
  <2>5. \A e \in hoursLeft'[n] :
          n \notin Flaky => \A m \in Match : UpTo(m, e) => m \in blockTs'[n]
    BY <1>4, <1>5, <2>4 DEF HourlyInv, HoursRead, Holds, UpTo, Done
  <2>6. ASSUME NEW k \in Key, NEW e \in hoursLeft'[k]
        PROVE  Frozen(e)' /\ (k \notin Flaky => \A m \in Match : UpTo(m, e)' => m \in blockTs'[k])
    <3>0. e \in Epoch  BY <1>5
    <3>1. CASE k = n  BY <1>5, <2>1, <2>3, <2>5, <3>0, <3>1
    <3>2. CASE k # n
      <4>1. e \in hoursLeft[k] /\ blockTs'[k] = blockTs[k]  BY <1>4, <1>5, <3>2, <2>6
      <4>. QED  BY <2>1, <2>3, <3>0, <4>1 DEF HourlyInv, HoursRead
    <3>. QED  BY <3>1, <3>2
  <2>7. \A e \in Epoch : Frozen(e)' => \A k \in Key \ Flaky : Holds(k, e)'
    BY <2>1, <2>2 DEF HourlyInv, HoursRead
  <2>. QED  BY <2>6, <2>7 DEF HoursRead
<1>10. DraftsTrue'
  BY <1>2 DEF HourlyInv, DraftsTrue, TrueRoot, HourOf, Frozen, FreezeAt
<1>. QED  BY <1>2, <1>7, <1>8, <1>9, <1>10, OwnStepKeeps

LEMMA RestartKeeps ==
    ASSUME HourlyInv, NEW n \in Key, Restart(n)
    PROVE  HourlyInv'
<1>1. /\ blockTs' = [blockTs EXCEPT ![n] = {}] /\ hoursLeft' = [hoursLeft EXCEPT ![n] = {}]
      /\ draft' = [draft EXCEPT ![n] = {}]
      /\ UNCHANGED <<allVars, decided, log, statsKnown>> /\ UNCHANGED now
  BY DEF Restart, allVars, stakeVars
<1>2. NodesType'  BY <1>1 DEF HourlyInv, NodesType
<1>3. \A k \in Key : /\ blockTs'[k] = IF k = n THEN {} ELSE blockTs[k]
                     /\ hoursLeft'[k] = IF k = n THEN {} ELSE hoursLeft[k]
                     /\ draft'[k] = IF k = n THEN {} ELSE draft[k]
  BY <1>1 DEF HourlyInv, NodesType
<1>4. HeldIsDecided'  BY <1>1, <1>3 DEF HourlyInv, HeldIsDecided, Done
<1>5. HoursRead'
  BY <1>1, <1>3 DEF HourlyInv, HoursRead, Holds, UpTo, Done, HourOf, Frozen, FreezeAt
<1>6. DraftsTrue'
  BY <1>1, <1>3 DEF HourlyInv, DraftsTrue, TrueRoot, HourOf, Frozen, FreezeAt
<1>. QED  BY <1>1, <1>2, <1>4, <1>5, <1>6, OwnStepKeeps

(* What a node computes for an hour it has read whole is the truth. *)
LEMMA WholeRoot ==
    ASSUME HourlyInv, NEW n \in Key, NEW e \in Epoch, StatsMissing(n, e) = {},
           \A m \in Match : UpTo(m, e) => m \in blockTs[n]
    PROVE  RootFor(n, e) = TrueRoot(e)
<1>0. blockTs[n] \subseteq Match
  BY DEF HourlyInv, NodesType
<1>1. \A m \in blockTs[n] : Done(m)
  BY DEF HourlyInv, HeldIsDecided
<1>3. \A m \in Match : decided[m].at \in Nat
  BY DEF HourlyInv, NodesType, Decisions
<1>4. \A m \in Match : HourOf(decided[m].at) \in Int /\ e \in Int
  BY <1>0, <1>3, EpochAnchorAssumption DEF HourOf
<1>5. \A m \in Match : HourOf(decided[m].at) = e => HourOf(decided[m].at) <= e
  BY <1>4
<1>6. Results(n, e) = {m \in Match : decided[m].status # "open" /\ HourOf(decided[m].at) = e}
  BY <1>0, <1>1, <1>5 DEF Results, UpTo, Done
<1>7. Finals(n, e) = {m \in Match : decided[m].status = "final" /\ HourOf(decided[m].at) <= e}
  BY <1>0 DEF Finals, UpTo, Done
<1>8. Finals(n, e) \cap statsKnown[n] = Finals(n, e)  BY DEF StatsMissing
<1>. QED  BY <1>6, <1>7, <1>8 DEF RootFor, TrueRoot

(* A sound node has read whole the hours it considers. *)
LEMMA SoundRoot ==
    ASSUME HourlyInv, NEW n \in Key \ Flaky, NEW e \in hoursLeft[n], StatsMissing(n, e) = {}
    PROVE  RootFor(n, e) = TrueRoot(e)
<1>1. e \in Epoch  BY DEF HourlyInv, NodesType
<1>2. \A m \in Match : UpTo(m, e) => m \in blockTs[n]  BY DEF HourlyInv, HoursRead
<1>. QED  BY <1>1, <1>2, WholeRoot

LEMMA ConsiderKeeps ==
    ASSUME HourlyInv, NEW n \in Key, NEW e \in Epoch, Consider(n, e)
    PROVE  HourlyInv'
<1>1. /\ e \in hoursLeft[n]
      /\ hoursLeft' = [hoursLeft EXCEPT ![n] = @ \ {e}]
      /\ draft' = [draft EXCEPT ![n] =
           IF Ready(n, e) /\ Undecided(e) THEN {[hour |-> e, root |-> RootFor(n, e)]} ELSE {}]
      /\ UNCHANGED <<allVars, decided, log, blockTs, statsKnown>> /\ UNCHANGED now
  BY DEF Consider, NextHour, allVars, stakeVars
<1>2. RootFor(n, e) \in Root
  <2>1. Results(n, e) \in SUBSET Match /\ Finals(n, e) \cap statsKnown[n] \in SUBSET Match
    BY DEF Results, Finals, HourlyInv, NodesType
  <2>. QED  BY <2>1, HourlyRootAssumption DEF RootFor
<1>3. NodesType'
  <2>1. [hour |-> e, root |-> RootFor(n, e)] \in Drafts  BY <1>2 DEF Drafts
  <2>. QED  BY <1>1, <2>1 DEF HourlyInv, NodesType
<1>4. HeldIsDecided'  BY <1>1 DEF HourlyInv, HeldIsDecided, Done
<1>5. HoursRead'
  <2>1. \A k \in Key : hoursLeft'[k] \subseteq hoursLeft[k]
    BY <1>1 DEF HourlyInv, NodesType
  <2>. QED  BY <1>1, <2>1 DEF HourlyInv, HoursRead, Holds, UpTo, Done, HourOf, Frozen, FreezeAt
<1>6. DraftsTrue'
  <2>0. \A x \in Epoch : (Frozen(x)' <=> Frozen(x)) /\ TrueRoot(x)' = TrueRoot(x)
    BY <1>1 DEF Frozen, FreezeAt, TrueRoot, HourOf
  <2>1. SUFFICES ASSUME NEW k \in Key, NEW d \in draft'[k]
                 PROVE  Frozen(d.hour)' /\ (k \notin Flaky => d.root = TrueRoot(d.hour)')
    BY DEF DraftsTrue
  <2>2. CASE k # n
    <3>1. d \in draft[k]  BY <1>1, <2>1, <2>2 DEF HourlyInv, NodesType
    <3>2. d.hour \in Epoch  BY <3>1 DEF HourlyInv, NodesType, Drafts
    <3>. QED  BY <2>0, <3>1, <3>2 DEF HourlyInv, DraftsTrue
  <2>3. CASE k = n
    <3>1. /\ Ready(n, e) /\ d = [hour |-> e, root |-> RootFor(n, e)]
      BY <1>1, <2>1, <2>3 DEF HourlyInv, NodesType
    <3>2. d.hour = e /\ d.root = RootFor(n, e)  BY <3>1
    <3>3. Frozen(e)  BY <1>1 DEF HourlyInv, HoursRead
    <3>4. n \notin Flaky => RootFor(n, e) = TrueRoot(e)
      BY <1>1, <3>1, SoundRoot DEF Ready
    <3>. QED  BY <2>0, <2>3, <3>2, <3>3, <3>4
  <2>. QED  BY <2>2, <2>3
<1>. QED  BY <1>1, <1>3, <1>4, <1>5, <1>6, OwnStepKeeps

-----------------------------------------------------------------------------
(* Proposing, and the clock *)

LEMMA ClockKeeps == ASSUME HourlyInv, Clock PROVE HourlyInv'
<1>1. /\ Tick /\ UNCHANGED anchorVars /\ UNCHANGED <<decided, log, blockTs, statsKnown, hoursLeft, draft>>
      /\ UNCHANGED <<node, totalActive, quorum, proposalOf, support, anchors>>
  BY DEF Clock, Tick, nodeVars, anchorVars
<1>2. now \in Nat /\ now' \in Nat /\ now' >= now
  <2>1. now \in Nat  BY DEF HourlyInv, AnchorInv, BondInv, TypeOK
  <2>2. PICK d \in BlockTimes : now' = now + d  BY <1>1 DEF Tick
  <2>3. d \in Nat  BY NodeStakeAssumption
  <2>. QED  BY <2>1, <2>2, <2>3
<1>3. \A e \in Epoch : FreezeAt(e) \in Nat
  <2>1. \A x, y, z \in Nat : (x + 1) * y + z \in Nat  BY SMT
  <2>. QED  BY <2>1, EpochAnchorAssumption, HourlyRootAssumption DEF FreezeAt
<1>4. \A e \in Epoch : /\ Frozen(e) => Frozen(e)'
                       /\ TrueRoot(e)' = TrueRoot(e)
  <2>1. \A e \in Epoch : Frozen(e) => Frozen(e)'
    BY <1>2, <1>3 DEF Frozen, FreezeAt
  <2>. QED  BY <1>1, <2>1 DEF TrueRoot, HourOf
<1>5. AnchorInv'
  <2>1. Next  BY <1>1 DEF Next
  <2>. QED  BY <1>1, <2>1, AnchorStepKeeps DEF HourlyInv, AnchorNext
<1>6. BondsRest' /\ NodesType'  BY <1>1 DEF HourlyInv, BondsRest, NodesType
<1>7. HeldIsDecided'
  <2>1. \A m \in Match : decided[m].at \in Nat  BY DEF HourlyInv, NodesType, Decisions
  <2>. QED  BY <1>1, <1>2, <2>1 DEF HourlyInv, HeldIsDecided, Done
<1>8. HoursRead'
  <2>1. \A e \in Epoch : Frozen(e)' => \A n \in Key \ Flaky : Holds(n, e)'
    BY <1>1 DEF Clock, Frozen, FreezeAt, Holds, HourOf
  <2>2. \A n \in Key : hoursLeft[n] \subseteq Epoch  BY DEF HourlyInv, NodesType
  <2>. QED  BY <1>1, <1>4, <2>1, <2>2 DEF HourlyInv, HoursRead, UpTo, Done, HourOf
<1>9. DraftsTrue'
  <2>1. \A n \in Key : \A d \in draft[n] : d.hour \in Epoch
    BY DEF HourlyInv, NodesType, Drafts
  <2>. QED  BY <1>1, <1>4, <2>1 DEF HourlyInv, DraftsTrue
<1>10. ProposalsTrue'  BY <1>1, <1>4 DEF HourlyInv, ProposalsTrue
<1>11. SupportIsSum'  BY <1>1 DEF HourlyInv, SupportIsSum, Behind
<1>12. AnchorsTrue'  BY <1>1, <1>4 DEF HourlyInv, AnchorsTrue, Undecided
<1>. QED  BY <1>5, <1>6, <1>7, <1>8, <1>9, <1>10, <1>11, <1>12 DEF HourlyInv

(* What an accepted proposal adds to the stake behind its root. *)
LEMMA ProposalCounts ==
    ASSUME HourlyInv, NEW n \in Key, NEW a \in Address, NEW e \in Epoch, NEW r \in Root,
           Propose(a, e, r, n)
    PROVE  /\ SupportIsSum'
           /\ support'[e][r] = support[e][r] + node[n].amount
           /\ \A x \in Epoch, k \in Key : proposalOf'[x][k] =
                IF x = e /\ k = n THEN r ELSE proposalOf[x][k]
<1>1. /\ proposalOf \in [Epoch -> [Key -> RootOrNone]]
      /\ support \in [Epoch -> [Root -> Nat]] /\ node \in [Key -> BondType]
  BY DEF HourlyInv, AnchorInv, AnchorTypeOK, BondInv, TypeOK
<1>2. /\ proposalOf' = [proposalOf EXCEPT ![e][n] = r]
      /\ support' = [support EXCEPT ![e][r] = support[e][r] + node[n].amount]
      /\ proposalOf[e][n] = NoRoot /\ node' = node
  BY DEF Propose, Fresh, stakeVars
<1>3. \A x \in Epoch, k \in Key : proposalOf'[x][k] =
        IF x = e /\ k = n THEN r ELSE proposalOf[x][k]
  BY <1>1, <1>2
<1>4. \A x \in Epoch, q \in Root : support'[x][q] =
        IF x = e /\ q = r THEN support[e][r] + node[n].amount ELSE support[x][q]
  BY <1>1, <1>2
<1>5. r # NoRoot  BY EpochAnchorAssumption
<1>6. ASSUME NEW x \in Epoch, NEW q \in Root
      PROVE  support'[x][q] = TotalOf(Behind(x, q)', Stakes(node))
  <2>1. CASE x = e /\ q = r
    <3>1. Behind(x, q)' = Behind(e, r) \cup {n} /\ n \notin Behind(e, r)
      BY <1>2, <1>3, <1>5, <2>1 DEF Behind
    <3>2. IsFiniteSet(Behind(e, r)) /\ IsFiniteSet({n})
      BY NodeStakeAssumption, FS_Subset, FS_Singleton DEF Behind
    <3>3. Behind(e, r) \cap {n} = {}  BY <3>1
    <3>4. \A k \in Key : Stakes(node)[k] \in Nat  BY <1>1 DEF Stakes, BondType
    <3>5. \A k \in Behind(e, r) \cup {n} : Stakes(node)[k] \in Nat
      BY <3>4 DEF Behind
    <3>6. TotalOf(Behind(e, r) \cup {n}, Stakes(node))
            = TotalOf(Behind(e, r), Stakes(node)) + TotalOf({n}, Stakes(node))
      BY <3>2, <3>3, <3>5, TotalSplits
    <3>7. TotalOf({n}, Stakes(node)) = node[n].amount
      <4>1. TotalOf({n}, Stakes(node)) = Stakes(node)[n]  BY <3>4, TotalOfOne
      <4>. QED  BY <4>1 DEF Stakes
    <3>8. support[e][r] = TotalOf(Behind(e, r), Stakes(node))
      BY DEF HourlyInv, SupportIsSum
    <3>9. support'[x][q] = support[e][r] + node[n].amount  BY <1>4, <2>1
    <3>. QED  BY <3>1, <3>6, <3>7, <3>8, <3>9
  <2>2. CASE ~(x = e /\ q = r)
    <3>1. q # NoRoot  BY EpochAnchorAssumption
    <3>2. Behind(x, q)' = Behind(x, q)  BY <1>2, <1>3, <2>2, <3>1 DEF Behind
    <3>3. support'[x][q] = support[x][q]  BY <1>4, <2>2
    <3>. QED  BY <3>2, <3>3 DEF HourlyInv, SupportIsSum
  <2>. QED  BY <2>1, <2>2
<1>7. SupportIsSum'  BY <1>2, <1>6 DEF SupportIsSum, Stakes
<1>8. support'[e][r] = support[e][r] + node[n].amount  BY <1>4
<1>. QED  BY <1>3, <1>7, <1>8

(* A root that is not the truth has only unsound nodes behind it: less than a
   quorum, and it stays unanchored. *)
LEMMA SendKeeps ==
    ASSUME HourlyInv, NEW n \in Key, Send(n)
    PROVE  HourlyInv'
<1>0. PICK d \in draft[n] :
         /\ draft' = [draft EXCEPT ![n] = {}]
         /\ Proposal(n, d) \/ UNCHANGED allVars
         /\ UNCHANGED <<decided, log, blockTs, statsKnown, hoursLeft>>
  BY DEF Send
<1>1. d.hour \in Epoch /\ d.root \in Root
  BY DEF HourlyInv, NodesType, Drafts
<1>2. PICK e \in Epoch, r \in Root : e = d.hour /\ r = d.root  BY <1>1
<1>3. NodesType'  BY <1>0 DEF HourlyInv, NodesType
<1>4. \A k \in Key : draft'[k] \subseteq draft[k]  BY <1>0 DEF HourlyInv, NodesType
<1>n. now' = now  BY <1>0 DEF Proposal, Propose, allVars, stakeVars
<1>5. HeldIsDecided'  BY <1>0, <1>n DEF HourlyInv, HeldIsDecided, Done
<1>6. HoursRead'
  BY <1>0, <1>n DEF HourlyInv, HoursRead, Holds, UpTo, Done, HourOf, Frozen, FreezeAt
<1>7. \A x \in Epoch : (Frozen(x)' <=> Frozen(x)) /\ TrueRoot(x)' = TrueRoot(x)
  BY <1>0, <1>n DEF Frozen, FreezeAt, TrueRoot, HourOf
<1>8. DraftsTrue'
  <2>1. \A k \in Key : \A c \in draft[k] : c.hour \in Epoch
    BY DEF HourlyInv, NodesType, Drafts
  <2>. QED  BY <1>4, <1>7, <2>1 DEF HourlyInv, DraftsTrue
<1>9. CASE UNCHANGED allVars
  BY <1>0, <1>3, <1>5, <1>6, <1>8, <1>9, OwnStepKeeps
<1>10. CASE Proposal(n, d)
  <2>1. PICK a \in Address : Propose(a, e, r, n)  BY <1>2, <1>10 DEF Proposal
  <2>2. AnchorInv'
    BY <2>1, AnchorStepKeeps DEF HourlyInv, AnchorNext, ProposeNext
  <2>3. UNCHANGED <<node, totalActive, quorum>>  BY <2>1 DEF Propose, stakeVars
  <2>4. BondsRest'  BY <2>3 DEF HourlyInv, BondsRest
  <2>5. Frozen(e) /\ (n \notin Flaky => r = TrueRoot(e))
    BY <1>2 DEF HourlyInv, DraftsTrue
  <2>6. ProposalsTrue'
    <3>1. SUFFICES ASSUME NEW x \in Epoch, NEW k \in Key, proposalOf'[x][k] # NoRoot
                   PROVE  Frozen(x)' /\ (k \notin Flaky => proposalOf'[x][k] = TrueRoot(x)')
      BY DEF ProposalsTrue
    <3>2. proposalOf'[x][k] = IF x = e /\ k = n THEN r ELSE proposalOf[x][k]
      BY <2>1, ProposalCounts
    <3>3. CASE x = e /\ k = n  BY <1>7, <2>5, <3>2, <3>3
    <3>4. CASE ~(x = e /\ k = n)
      BY <1>7, <3>1, <3>2, <3>4 DEF HourlyInv, ProposalsTrue
    <3>. QED  BY <3>3, <3>4
  <2>7. SupportIsSum'  BY <2>1, ProposalCounts
  <2>8. ASSUME FlakyMinority, Enough(support[e][r] + node[n].amount) PROVE r = TrueRoot(e)
    <3>1. SUFFICES ASSUME r # TrueRoot(e) PROVE FALSE  OBVIOUS
    <3>2. Behind(e, r)' \subseteq Flaky
      <4>1. ASSUME NEW k \in Key, proposalOf'[e][k] = r PROVE k \in Flaky
        <5>1. r # NoRoot  BY EpochAnchorAssumption
        <5>2. k \notin Flaky => r = TrueRoot(e)
          BY <1>7, <2>6, <4>1, <5>1 DEF ProposalsTrue
        <5>. QED  BY <3>1, <5>2
      <4>. QED  BY <4>1 DEF Behind
    <3>3. support'[e][r] = TotalOf(Behind(e, r)', Stakes(node))
      BY <2>3, <2>7 DEF SupportIsSum, Stakes
    <3>4. TotalOf(Behind(e, r)', Stakes(node)) <= TotalOf(Flaky, Stakes(node))
      <4>1. IsFiniteSet(Flaky)
        BY NodeStakeAssumption, HourlyRootAssumption, FS_Subset
      <4>2. \A k \in Flaky : Stakes(node)[k] \in Nat
        <5>1. node \in [Key -> BondType]  BY DEF HourlyInv, AnchorInv, BondInv, TypeOK
        <5>. QED  BY <5>1, HourlyRootAssumption DEF Stakes, BondType
      <4>. HIDE DEF Behind
      <4>. QED  BY <3>2, <4>1, <4>2, TotalMonotone
    <3>5. TotalOf(Flaky, Stakes(node)) < Needed(totalActive)
      BY <2>8 DEF FlakyMinority, HourlyInv, BondsRest, Needed
    <3>6. support'[e][r] >= Needed(totalActive)
      BY <2>1, <2>8, ProposalCounts DEF Enough
    <3>7. /\ TotalOf(Behind(e, r)', Stakes(node)) \in Int
          /\ TotalOf(Flaky, Stakes(node)) \in Int /\ Needed(totalActive) \in Int
      <4>1. IsFiniteSet(Flaky)
        BY NodeStakeAssumption, HourlyRootAssumption, FS_Subset
      <4>2. \A k \in Flaky : Stakes(node)[k] \in Nat
        <5>1. node \in [Key -> BondType]  BY DEF HourlyInv, AnchorInv, BondInv, TypeOK
        <5>. QED  BY <5>1, HourlyRootAssumption DEF Stakes, BondType
      <4>3. IsFiniteSet(Behind(e, r)') /\ \A k \in Behind(e, r)' : Stakes(node)[k] \in Nat
        BY <3>2, <4>1, <4>2, FS_Subset
      <4>4. TotalOf(Flaky, Stakes(node)) \in Int  BY <4>1, <4>2, TotalType
      <4>5. TotalOf(Behind(e, r)', Stakes(node)) \in Int  BY <4>3, TotalType
      <4>6. Needed(totalActive) \in Int
        <5>0. totalActive \in Nat  BY DEF HourlyInv, AnchorInv, BondInv, TypeOK
        <5>1. quorum \in QuorumType  BY DEF HourlyInv, AnchorInv, AnchorTypeOK
        <5>3. quorum.bps \in 1..BPS  BY <5>1 DEF QuorumType
        <5>4. PICK b \in 1..BPS : b = quorum.bps  BY <5>3
        <5>5. b \in Nat  BY DEF BPS
        <5>2. \A x, y \in Nat : (x * y + 10000 - 1) \div 10000 \in Int  BY SMT
        <5>. QED  BY <5>0, <5>2, <5>4, <5>5 DEF Needed, BPS
      <4>. QED  BY <4>4, <4>5, <4>6
    <3>. QED  BY <3>3, <3>4, <3>5, <3>6, <3>7
  <2>9. AnchorsTrue'
    <3>1. SUFFICES ASSUME FlakyMinority, NEW x \in Epoch, anchors'[x].root # NoRoot
                   PROVE  Frozen(x)' /\ anchors'[x].root = TrueRoot(x)'
      BY DEF AnchorsTrue, Undecided
    <3>2. anchors \in [Epoch -> Anchored \cup {Unanchored}]
      BY DEF HourlyInv, AnchorInv, AnchorTypeOK
    <3>3. CASE anchors'[x] = anchors[x]
      BY <1>7, <3>1, <3>3 DEF HourlyInv, AnchorsTrue, Undecided
    <3>4. CASE anchors'[x] # anchors[x]
      <4>1. x = e /\ anchors'[x].root = r /\ Enough(support[e][r] + node[n].amount)
        BY <2>1, <3>2, <3>4 DEF Propose
      <4>. QED  BY <1>7, <2>5, <2>8, <3>1, <4>1
    <3>. QED  BY <3>3, <3>4
  <2>. QED  BY <1>3, <1>5, <1>6, <1>8, <2>2, <2>4, <2>6, <2>7, <2>9 DEF HourlyInv
<1>. QED  BY <1>0, <1>9, <1>10

-----------------------------------------------------------------------------
LEMMA HourlyStepKeeps ==
    ASSUME HourlyInv, [HourlyNext]_hourlyVars
    PROVE  HourlyInv'
<1>1. CASE UNCHANGED hourlyVars
  <2>1. /\ UNCHANGED <<allVars, decided>> /\ UNCHANGED now
        /\ UNCHANGED <<log, blockTs, statsKnown, hoursLeft, draft>>
    BY <1>1 DEF hourlyVars, nodeVars, allVars, stakeVars
  <2>2. NodesType' /\ HeldIsDecided'  BY <2>1 DEF HourlyInv, NodesType, HeldIsDecided, Done
  <2>3. HoursRead'
    BY <2>1 DEF HourlyInv, HoursRead, Holds, UpTo, Done, HourOf, Frozen, FreezeAt
  <2>4. DraftsTrue'
    BY <2>1 DEF HourlyInv, DraftsTrue, TrueRoot, HourOf, Frozen, FreezeAt
  <2>. QED  BY <2>1, <2>2, <2>3, <2>4, OwnStepKeeps
<1>2. CASE HourlyNext
  BY <1>2, DecideKeeps, AbsorbKeeps, StampKeeps, ConsiderKeeps, SendKeeps, RestartKeeps,
     ClockKeeps DEF HourlyNext, Poll
<1>. QED  BY <1>1, <1>2

(* "A wrong proposal from a minority of stake simply never finalizes"
   (BUILD-SPEC 11.6): if the nodes whose calls fail or whose logs lag hold less
   than the quorum, then every hour that is anchored carries exactly what was
   decided in it and the finals up to it, however many nodes and hours there are
   and whoever restarts in between. *)
THEOREM MinorityNeverFinalizes ==
    ASSUME FlakyMinority
    PROVE  HourlySpec => []AnchoredIsTrue
<1>1. HourlyInv => AnchoredIsTrue  BY DEF HourlyInv, AnchorsTrue, AnchoredIsTrue
<1>2. HourlyInv /\ [HourlyNext]_hourlyVars => HourlyInv'  BY HourlyStepKeeps
<1>. QED  BY <1>1, <1>2, HourlyStarts, PTL DEF HourlySpec

(* A new draft is the root of an hour that its node considers and finds ready. *)
LEMMA NewDrafts ==
    ASSUME HourlyInv, HourlyNext, NEW n \in Key, NEW d \in draft'[n] \ draft[n]
    PROVE  /\ d.hour \in hoursLeft[n] /\ d.hour \in Epoch
           /\ d.root = RootFor(n, d.hour) /\ StatsMissing(n, d.hour) = {}
<1>0. draft \in [Key -> SUBSET Drafts] /\ hoursLeft \in [Key -> SUBSET Epoch]
  BY DEF HourlyInv, NodesType
<1>1. ASSUME NEW k \in Key, Send(k) \/ Restart(k) PROVE FALSE
  <2>1. draft' = [draft EXCEPT ![k] = {}]  BY <1>1 DEF Send, Restart
  <2>. QED  BY <1>0, <2>1
<1>2. PICK k \in Key, e \in Epoch : Consider(k, e)
  <2>1. draft' # draft  OBVIOUS
  <2>. QED  BY <1>1, <2>1
            DEF HourlyNext, Decide, Absorb, Poll, StampBlocks, Clock, nodeVars
<1>3. k = n /\ Ready(n, e) /\ d = [hour |-> e, root |-> RootFor(n, e)] /\ e \in hoursLeft[n]
  <2>1. draft' = [draft EXCEPT ![k] =
          IF Ready(k, e) /\ Undecided(e) THEN {[hour |-> e, root |-> RootFor(k, e)]} ELSE {}]
    BY <1>2 DEF Consider
  <2>2. k = n  BY <1>0, <2>1
  <2>3. draft'[n] =
          IF Ready(n, e) /\ Undecided(e) THEN {[hour |-> e, root |-> RootFor(n, e)]} ELSE {}
    BY <1>0, <2>1, <2>2
  <2>. QED  BY <1>2, <2>2, <2>3 DEF Consider, NextHour
<1>4. d.hour = e /\ d.root = RootFor(n, e)  BY <1>3
<1>. QED  BY <1>2, <1>3, <1>4 DEF Ready

(* "Every node holding the log computes the same root", while chain calls
   succeed: whatever the order in which the events of an hour came, and whoever
   restarted, each node that holds them all drafts the same, true root. *)
THEOREM HoldersFoldTheSame ==
    ASSUME Flaky = {}
    PROVE  HourlySpec => HoldersAgree
<1>1. ASSUME HourlyInv, HourlyNext, NEW n \in Key, NEW d \in draft'[n] \ draft[n]
      PROVE  d.root = TrueRoot(d.hour)
  BY <1>1, NewDrafts, SoundRoot
<1>2. HourlyInv /\ [HourlyNext]_hourlyVars =>
        [\A n \in Key : \A d \in draft'[n] \ draft[n] :
           Holds(n, d.hour) => d.root = TrueRoot(d.hour)]_hourlyVars
  BY <1>1
<1>3. HourlyInv /\ [HourlyNext]_hourlyVars => HourlyInv'  BY HourlyStepKeeps
<1>. QED  BY <1>2, <1>3, HourlyStarts, PTL DEF HourlySpec, HoldersAgree

(* When calls fail, holding the log is not enough, having read it is: for any
   nodes, flaky or not, the holders that have read the blocks of what they hold
   draft the true root. *)
THEOREM ReadersFoldTheSame == HourlySpec => ReadersAgree
<1>1. ASSUME HourlyInv, HourlyNext, NEW n \in Key, NEW d \in draft'[n] \ draft[n],
             Holds(n, d.hour), log[n] \subseteq blockTs[n]
      PROVE  d.root = TrueRoot(d.hour)
  <2>1. d.hour \in Epoch /\ d.root = RootFor(n, d.hour) /\ StatsMissing(n, d.hour) = {}
    BY <1>1, NewDrafts
  <2>2. \A m \in Match : UpTo(m, d.hour) => m \in blockTs[n]
    BY <1>1 DEF Holds, UpTo, Done
  <2>. QED  BY <1>1, <2>1, <2>2, WholeRoot
<1>2. HourlyInv /\ [HourlyNext]_hourlyVars =>
        [\A n \in Key : \A d \in draft'[n] \ draft[n] :
           Holds(n, d.hour) /\ log[n] \subseteq blockTs[n] => d.root = TrueRoot(d.hour)]_hourlyVars
  BY <1>1
<1>3. HourlyInv /\ [HourlyNext]_hourlyVars => HourlyInv'  BY HourlyStepKeeps
<1>. QED  BY <1>2, <1>3, HourlyStarts, PTL DEF HourlySpec, ReadersAgree
=============================================================================
