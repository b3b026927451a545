----------------------------- MODULE MeshProofs -----------------------------
(* Proofs about the nodes of a mesh: settlement, placement, the tables of peers,
   the operators' chat, and of a court that settles on them. *)
EXTENDS Settlement, Placement, PeerTable, Chat, CourtClient, FiniteSetTheorems, TLAPS

-----------------------------------------------------------------------------
(* Settlement *)

Counts == [cosigners : SUBSET Witnesses, disputes : SUBSET Witnesses]

(* What is in memory, on disk and under verification rests on letters that
   exist; a submission that got past its intake was admitted. *)
SettlementInv ==
    /\ delta \in [Subs -> Counts]
    /\ onDisk \in [of : Subs \cup {Unsettled}, cosigners : SUBSET Witnesses, disputes : SUBSET Witnesses]
    /\ current \in Subs \cup {Unsettled}
    /\ letters \subseteq Witnesses \X Subs \X BOOLEAN
    /\ checking \subseteq letters \X Subs
    /\ CountsOnlyItsWitnesses
    /\ \A w \in onDisk.cosigners : <<w, onDisk.of, TRUE>> \in letters
    /\ \A w \in onDisk.disputes : <<w, onDisk.of, FALSE>> \in letters

LEMMA SettlementInitKeeps == SettlementInit => SettlementInv
  BY DEF SettlementInit, SettlementInv, CountsOnlyItsWitnesses, Counts, Blank, NoFile

LEMMA SettlementStepKeeps ==
  SettlementInv /\ [SettlementNext]_settlementVars => SettlementInv'
<1> SUFFICES ASSUME SettlementInv, [SettlementNext]_settlementVars PROVE SettlementInv'
  OBVIOUS
<1> USE DEF SettlementInv, CountsOnlyItsWitnesses
<1>1. ASSUME NEW s \in Subs, Receive(s) \/ Replayed(s) PROVE SettlementInv'
  BY <1>1 DEF Receive, Replayed
<1>2. ASSUME NEW s \in Subs, Finish(s) PROVE SettlementInv'
  BY <1>2 DEF Finish
<1>3. ASSUME NEW w \in Witnesses, Sign(w) PROVE SettlementInv'
  <2>1. PICK agrees \in BOOLEAN : letters' = letters \cup {<<w, current, agrees>>}
    BY <1>3 DEF Sign
  <2>2. /\ current \in Subs /\ UNCHANGED <<delta, current, onDisk, checking>>
    BY <1>3 DEF Sign
  <2>3. letters \subseteq letters' /\ letters' \subseteq Witnesses \X Subs \X BOOLEAN
    BY <2>1, <2>2
  <2>4. checking' \subseteq letters' \X Subs
    BY <2>2, <2>3
  <2> QED BY <2>2, <2>3, <2>4
<1>4. ASSUME NEW l \in letters, Open(l) PROVE SettlementInv'
  <2>1. /\ current \in Subs /\ UNCHANGED <<delta, current, onDisk, letters>>
        /\ checking' = checking \cup {<<l, current>>}
    BY <1>4 DEF Open
  <2>2. checking' \subseteq letters' \X Subs
    BY <2>1
  <2> QED BY <2>1, <2>2
<1>5. ASSUME NEW c \in checking, Accept(c) PROVE SettlementInv'
  <2> DEFINE l == c[1]  s == c[2]
  <2>1. l \in letters /\ s \in Subs /\ l \in Witnesses \X Subs \X BOOLEAN
        /\ l = <<l[1], l[2], l[3]>> /\ l[1] \in Witnesses /\ l[3] \in BOOLEAN
    OBVIOUS
  <2>2. checking' \subseteq checking /\ UNCHANGED <<current, letters>>
    BY <1>5 DEF Accept
  <2>3. CASE Genuine(l, s) /\ l[3]
    <3>1. <<l[1], s, TRUE>> \in letters
      BY <2>1, <2>3 DEF Genuine
    <3>2. delta' = [delta EXCEPT ![s].cosigners = @ \cup {l[1]}]
          /\ (onDisk' = onDisk \/ onDisk' = [of |-> s, cosigners |-> delta'[s].cosigners,
                                             disputes |-> delta'[s].disputes])
      BY <1>5, <2>3 DEF Accept
    <3>3. ASSUME NEW t \in Subs
          PROVE  /\ delta'[t].cosigners = IF t = s THEN delta[t].cosigners \cup {l[1]} ELSE delta[t].cosigners
                 /\ delta'[t].disputes = delta[t].disputes /\ delta'[t] \in Counts
      <4>1. delta[t] \in Counts /\ delta[t].cosigners \in SUBSET Witnesses /\ delta[t].disputes \in SUBSET Witnesses
        BY DEF Counts
      <4> QED BY <2>1, <3>2, <4>1 DEF Counts
    <3>4. delta' \in [Subs -> Counts] /\ CountsOnlyItsWitnesses'
      <4>1. delta' \in [Subs -> Counts]
        <5>1. DOMAIN delta' = Subs /\ delta' = [t \in Subs |-> delta'[t]]
          BY <3>2
        <5> QED BY <3>3, <5>1
      <4>2. ASSUME NEW t \in Subs, NEW w \in delta'[t].cosigners PROVE <<w, t, TRUE>> \in letters
        <5>1. CASE t = s
          <6>1. w \in delta[s].cosigners \/ w = l[1]
            BY <3>3, <4>2, <5>1
          <6> QED BY <2>1, <3>1, <5>1, <6>1
        <5>2. CASE t # s
          BY <3>3, <4>2, <5>2
        <5> QED BY <5>1, <5>2
      <4>3. ASSUME NEW t \in Subs, NEW w \in delta'[t].disputes PROVE <<w, t, FALSE>> \in letters
        BY <3>1, <3>3, <4>3
      <4> QED BY <2>2, <4>1, <4>2, <4>3
    <3>5. delta'[s].cosigners \in SUBSET Witnesses /\ delta'[s].disputes \in SUBSET Witnesses
      BY <2>1, <3>4 DEF Counts
    <3>6. CASE onDisk' = onDisk
      BY <2>2, <3>4, <3>6
    <3>7. CASE onDisk' = [of |-> s, cosigners |-> delta'[s].cosigners, disputes |-> delta'[s].disputes]
      BY <2>1, <2>2, <3>4, <3>5, <3>7
    <3> QED BY <3>2, <3>6, <3>7
  <2>4. CASE Genuine(l, s) /\ ~l[3]
    <3>1. <<l[1], s, FALSE>> \in letters
      BY <2>1, <2>4 DEF Genuine
    <3>2. delta' = [delta EXCEPT ![s].disputes = @ \cup {l[1]}]
          /\ (onDisk' = onDisk \/ onDisk' = [of |-> s, cosigners |-> delta'[s].cosigners,
                                             disputes |-> delta'[s].disputes])
      BY <1>5, <2>4 DEF Accept
    <3>3. ASSUME NEW t \in Subs
          PROVE  /\ delta'[t].disputes = IF t = s THEN delta[t].disputes \cup {l[1]} ELSE delta[t].disputes
                 /\ delta'[t].cosigners = delta[t].cosigners /\ delta'[t] \in Counts
      <4>1. delta[t] \in Counts /\ delta[t].disputes \in SUBSET Witnesses /\ delta[t].cosigners \in SUBSET Witnesses
        BY DEF Counts
      <4> QED BY <2>1, <3>2, <4>1 DEF Counts
    <3>4. delta' \in [Subs -> Counts] /\ CountsOnlyItsWitnesses'
      <4>1. delta' \in [Subs -> Counts]
        <5>1. DOMAIN delta' = Subs /\ delta' = [t \in Subs |-> delta'[t]]
          BY <3>2
        <5> QED BY <3>3, <5>1
      <4>2. ASSUME NEW t \in Subs, NEW w \in delta'[t].cosigners PROVE <<w, t, TRUE>> \in letters
        BY <3>3, <4>2
      <4>3. ASSUME NEW t \in Subs, NEW w \in delta'[t].disputes PROVE <<w, t, FALSE>> \in letters
        <5>1. CASE t = s
          <6>1. w \in delta[s].disputes \/ w = l[1]
            BY <3>3, <4>3, <5>1
          <6> QED BY <2>1, <3>1, <5>1, <6>1
        <5>2. CASE t # s
          BY <3>3, <4>3, <5>2
        <5> QED BY <5>1, <5>2
      <4> QED BY <2>2, <4>1, <4>2, <4>3
    <3>5. delta'[s].cosigners \in SUBSET Witnesses /\ delta'[s].disputes \in SUBSET Witnesses
      BY <2>1, <3>4 DEF Counts
    <3>6. CASE onDisk' = onDisk
      BY <2>2, <3>4, <3>6
    <3>7. CASE onDisk' = [of |-> s, cosigners |-> delta'[s].cosigners, disputes |-> delta'[s].disputes]
      BY <2>1, <2>2, <3>4, <3>5, <3>7
    <3> QED BY <3>2, <3>6, <3>7
  <2>5. CASE ~Genuine(l, s)
    <3>1. UNCHANGED <<delta, onDisk>>
      BY <1>5, <2>5 DEF Accept
    <3> QED BY <2>2, <3>1
  <2> QED BY <2>3, <2>4, <2>5
<1>6. ASSUME NEW h \in Hours, Freeze(h) PROVE SettlementInv'
  BY <1>6 DEF Freeze
<1>7. CASE NextHour
  BY <1>7 DEF NextHour
<1>8. CASE RestartNode
  <2>1. /\ checking' = {} /\ current' = onDisk.of /\ UNCHANGED <<onDisk, letters>>
        /\ delta' = [s \in Subs |-> IF s = onDisk.of
                                    THEN [cosigners |-> onDisk.cosigners, disputes |-> onDisk.disputes]
                                    ELSE delta[s]]
    BY <1>8 DEF RestartNode
  <2>2. delta' \in [Subs -> Counts]
    BY <2>1 DEF Counts
  <2>3. CountsOnlyItsWitnesses'
    BY <2>1
  <2> QED BY <2>1, <2>2, <2>3
<1>9. CASE UNCHANGED settlementVars
  BY <1>9 DEF settlementVars
<1> QED BY <1>1, <1>2, <1>3, <1>4, <1>5, <1>6, <1>7, <1>8, <1>9 DEF SettlementNext

(* Signatures are verified across an await, may be late, twice, or over a delta
   that another has replaced: for any number of submissions, witnesses and
   restarts, what a delta counts was signed over that delta. *)
THEOREM EveryCountIsSigned == SettlementSpec => []CountsOnlyItsWitnesses
<1>1. SettlementInv => CountsOnlyItsWitnesses
  BY DEF SettlementInv
<1> QED BY <1>1, SettlementInitKeeps, SettlementStepKeeps, PTL DEF SettlementSpec

(* Past its intake a submission was admitted. *)
IntakeInv ==
    /\ kindOf \in [Subs -> Kinds]
    /\ phase \in [Subs -> {"posted", "replaying", "signing", "settled", "existing", "refused"}]
    /\ \A s \in Subs : phase[s] \in {"replaying", "signing", "settled"} => Admits(kindOf[s])
    /\ sent \in Subs \cup {Unsettled}
    /\ \A s \in Subs : sent = s /\ s # Unsettled =>
         Admits(kindOf[s]) /\ kindOf[s].ranked /\ kindOf[s].placed

LEMMA IntakeInitKeeps == SettlementInit => IntakeInv
  BY DEF SettlementInit, IntakeInv

LEMMA IntakeStepKeeps == IntakeInv /\ [SettlementNext]_settlementVars => IntakeInv'
<1> SUFFICES ASSUME IntakeInv, [SettlementNext]_settlementVars PROVE IntakeInv'
  OBVIOUS
<1> USE DEF IntakeInv
<1>1. ASSUME NEW s \in Subs, Receive(s) PROVE IntakeInv'
  BY <1>1 DEF Receive
<1>2. ASSUME NEW s \in Subs, Replayed(s) PROVE IntakeInv'
  BY <1>2 DEF Replayed
<1>3. ASSUME NEW s \in Subs, Finish(s) PROVE IntakeInv'
  BY <1>3 DEF Finish
<1>4. CASE RestartNode
  BY <1>4 DEF RestartNode
<1>5. CASE UNCHANGED <<kindOf, phase, sent>>
  BY <1>5
<1> QED BY <1>1, <1>2, <1>3, <1>4, <1>5
        DEF SettlementNext, Sign, Open, Accept, Freeze, NextHour, settlementVars

(* A ranked result reaches the chain only over the signature of somebody beside
   the host that hands it in. *)
THEOREM NothingUnsignedIsSent == SettlementSpec => []SentIsSigned
<1>1. IntakeInv => SentIsSigned
  BY DEF IntakeInv, SentIsSigned, Admits
<1> QED BY <1>1, IntakeInitKeeps, IntakeStepKeeps, PTL DEF SettlementSpec

LEMMA MoreAgree ==
  ASSUME SettlementInv, IntakeInv, NEW s \in Subs, phase[s] = "settled", Official(s)
  PROVE  /\ Admits(kindOf[s]) /\ (Registry => ~kindOf[s].fixture)
         /\ Cardinality({w \in Witnesses : <<w, s, TRUE>> \in letters}) > Cardinality(delta[s].disputes)
<1> DEFINE signed == {w \in Witnesses : <<w, s, TRUE>> \in letters}
           d == delta[s]
<1>1. d.cosigners \subseteq signed /\ d.cosigners \subseteq Witnesses /\ d.disputes \subseteq Witnesses
  BY DEF SettlementInv, CountsOnlyItsWitnesses, Counts
<1>2. IsFiniteSet(signed) /\ IsFiniteSet(d.cosigners) /\ IsFiniteSet(d.disputes)
  BY <1>1, SettlementAssumption, FS_Subset
<1>3. Cardinality(d.cosigners) <= Cardinality(signed)
  BY <1>1, <1>2, FS_Subset
<1>4. /\ Cardinality(d.cosigners) \in Nat /\ Cardinality(d.disputes) \in Nat
      /\ Cardinality(signed) \in Nat
      /\ (Cardinality(d.cosigners) = 0 <=> d.cosigners = {})
      /\ (Cardinality(d.disputes) = 0 <=> d.disputes = {})
  BY <1>2, FS_CardinalityType, FS_EmptySet
<1>5. Verification(d, kindOf[s]) = "verified" /\ kindOf[s].ranked
  BY DEF Official
<1>6. ~(d.disputes # {} /\ Cardinality(d.disputes) >= Cardinality(d.cosigners))
      /\ d.cosigners # {}
  BY <1>5 DEF Verification
<1>7. Admits(kindOf[s])
  BY DEF IntakeInv
<1> QED BY <1>3, <1>4, <1>5, <1>6, <1>7 DEF Admits

(* The official standings, for any witnesses: more of them agree with a result
   than object to it, and its intake let it through. *)
THEOREM StandingsAreEarned == SettlementSpec => []OfficialIsEarned
<1>1. SettlementInv /\ IntakeInv => OfficialIsEarned
  BY MoreAgree DEF OfficialIsEarned
<1> QED BY <1>1, SettlementInitKeeps, SettlementStepKeeps, IntakeInitKeeps, IntakeStepKeeps, PTL
        DEF SettlementSpec

-----------------------------------------------------------------------------
(* Placement *)

(* What a node brought on chain it holds, marked as done, until its placement is
   past; no placement was computed before its bucket was closed. *)
PlacementInv ==
    /\ clock \in Buckets /\ commits \in [MeshNodes -> SUBSET Ids]
    /\ book \in [MeshNodes -> [Ids -> Entry \cup {NoMatch}]]
    /\ \A n \in MeshNodes : \A id \in Holds(n) : book[n][id].computed >= id[1] + 2
    /\ \A n \in MeshNodes : \A id \in commits[n] :
         <<n, id>> \notin unheard => IsPast(id) \/ (id \in Holds(n) /\ book[n][id].commit = "done")

LEMMA EntriesAreMatches == NoMatch \notin Entry
<1>1. DOMAIN NoMatch = {"host"} /\ \A e \in Entry : DOMAIN e = {"host", "computed", "commitAt", "commit"}
  BY DEF NoMatch, Entry
<1> QED BY <1>1

LEMMA HeldEntries ==
  ASSUME PlacementInv, NEW n \in MeshNodes, NEW i \in Holds(n)
  PROVE  i \in Ids /\ book[n][i] \in Entry
  BY DEF PlacementInv, Holds

LEMMA PlacementInitKeeps == PlacementInit => PlacementInv
  BY PlacementAssumption DEF PlacementInit, PlacementInv, Buckets, Holds

(* An entry as Placed writes it. *)
IsFresh(id, e) ==
    /\ e \in Entry /\ e.commitAt = clock + CommitWait
    /\ e.commit \in {"no", "done"} /\ (e.commit = "done" => id \in OnChain)

LEMMA PlacedIsFresh ==
  ASSUME clock \in Buckets, NEW n \in MeshNodes, NEW id \in Ids, NEW host \in MeshNodes,
         NEW computed \in Buckets, NEW e \in Placed(n, id, host, computed)
  PROVE  IsFresh(id, e) /\ e.computed = computed
<1>1. /\ e.host = host /\ e.computed = computed /\ e.commitAt = clock + CommitWait
      /\ e.commit \in {"no"} \cup {x \in {"done"} : host = n /\ id \in OnChain}
      /\ e = [host |-> e.host, computed |-> e.computed, commitAt |-> e.commitAt, commit |-> e.commit]
  BY DEF Placed
<1>2. clock + CommitWait \in Nat
  BY PlacementAssumption DEF Buckets
<1>3. e \in Entry
  BY <1>1, <1>2 DEF Entry
<1> QED BY <1>1, <1>3 DEF IsFresh

(* The four ways a book changes: an entry is added, one makes room for another,
   the old ones go, an entry is marked. *)
Adds(n, id, e) == id \in Ids /\ id \notin Holds(n) /\ book' = [book EXCEPT ![n][id] = e]
Swaps(n, r, id, e) ==
    id \in Ids /\ id \notin Holds(n) /\ r \in Holds(n) /\ book' = [book EXCEPT ![n][r] = NoMatch, ![n][id] = e]
Marks(n, id, how) ==
    /\ id \in Holds(n) /\ how \in {"sending", "done", "failed"}
    /\ book' = [book EXCEPT ![n][id].commit = how]

LEMMA AddedBook ==
  ASSUME PlacementInv, NEW n \in MeshNodes, NEW id, NEW e \in Entry, Adds(n, id, e)
  PROVE  /\ book' \in [MeshNodes -> [Ids -> Entry \cup {NoMatch}]]
         /\ \A k \in MeshNodes : Holds(k)' = IF k = n THEN Holds(n) \cup {id} ELSE Holds(k)
         /\ \A k \in MeshNodes : \A i \in Holds(k) : book'[k][i] = book[k][i]
         /\ book'[n][id] = e
  BY EntriesAreMatches DEF Adds, PlacementInv, Holds

LEMMA SwappedBook ==
  ASSUME PlacementInv, NEW n \in MeshNodes, NEW id, NEW r, NEW e \in Entry, Swaps(n, r, id, e)
  PROVE  /\ book' \in [MeshNodes -> [Ids -> Entry \cup {NoMatch}]]
         /\ \A k \in MeshNodes : Holds(k)' = IF k = n THEN (Holds(n) \ {r}) \cup {id} ELSE Holds(k)
         /\ \A k \in MeshNodes : \A i \in Holds(k) : ~(k = n /\ i = r) => book'[k][i] = book[k][i]
         /\ book'[n][id] = e
<1>1. id \in Ids /\ r \in Ids /\ r # id
  BY DEF Swaps, Holds
<1>2. book' = [[book EXCEPT ![n][r] = NoMatch] EXCEPT ![n][id] = e]
  BY DEF Swaps
<1> QED BY <1>1, <1>2, EntriesAreMatches DEF Swaps, PlacementInv, Holds

LEMMA SweptBook ==
  ASSUME PlacementInv, NEW n \in MeshNodes, Sweep(n)
  PROVE  /\ book' \in [MeshNodes -> [Ids -> Entry \cup {NoMatch}]]
         /\ \A k \in MeshNodes : Holds(k)' = IF k = n THEN {i \in Holds(n) : ~IsAged(book[n][i])}
                                             ELSE Holds(k)
         /\ \A k \in MeshNodes : \A i \in Holds(k)' : book'[k][i] = book[k][i]
<1> DEFINE left == [id \in Ids |-> IF id \in Holds(n) /\ IsAged(book[n][id]) THEN NoMatch
                                   ELSE book[n][id]]
<1>1. book' = [book EXCEPT ![n] = left]
  BY DEF Sweep
<1>2. \A i \in Ids : left[i] = IF i \in Holds(n) /\ IsAged(book[n][i]) THEN NoMatch ELSE book[n][i]
  OBVIOUS
<1>3. left \in [Ids -> Entry \cup {NoMatch}]
  BY DEF PlacementInv
<1> HIDE DEF left
<1>4. \A k \in MeshNodes : book'[k] = IF k = n THEN left ELSE book[k]
  BY <1>1 DEF PlacementInv
<1>5. \A k \in MeshNodes : k # n => Holds(k)' = Holds(k)
  BY <1>4 DEF Holds
<1>6. Holds(n)' = {i \in Holds(n) : ~IsAged(book[n][i])}
  <2>1. Holds(n)' = {i \in Ids : left[i] # NoMatch}
    BY <1>4 DEF Holds
  <2> QED BY <1>2, <2>1 DEF Holds
<1>7. \A k \in MeshNodes : \A i \in Holds(k)' : book'[k][i] = book[k][i]
  <2> SUFFICES ASSUME NEW k \in MeshNodes, NEW i \in Holds(k)' PROVE book'[k][i] = book[k][i]
    OBVIOUS
  <2>1. CASE k = n
    <3>1. i \in Ids /\ ~IsAged(book[n][i])
      BY <1>6, <2>1 DEF Holds
    <3> QED BY <1>2, <1>4, <2>1, <3>1
  <2> QED BY <1>4, <2>1
<1> QED BY <1>1, <1>3, <1>5, <1>6, <1>7 DEF PlacementInv

LEMMA MarkedBook ==
  ASSUME PlacementInv, NEW n \in MeshNodes, NEW id, NEW how, Marks(n, id, how)
  PROVE  /\ book' \in [MeshNodes -> [Ids -> Entry \cup {NoMatch}]]
         /\ \A k \in MeshNodes : Holds(k)' = Holds(k)
         /\ \A k \in MeshNodes : \A i \in Holds(k) : ~(k = n /\ i = id) => book'[k][i] = book[k][i]
         /\ book'[n][id].commit = how
         /\ book'[n][id].computed = book[n][id].computed
         /\ book'[n][id].commitAt = book[n][id].commitAt
<1>1. id \in Ids /\ book[n][id] \in Entry
  BY HeldEntries DEF Marks
<1> DEFINE e == [book[n][id] EXCEPT !.commit = how]
<1>2. book' = [book EXCEPT ![n][id] = e]
  BY DEF Marks
<1>3. /\ e \in Entry /\ e.commit = how /\ e.computed = book[n][id].computed
      /\ e.commitAt = book[n][id].commitAt
  BY <1>1 DEF Entry, Marks
<1> HIDE DEF e
<1>4. book'[n][id] = e
  BY <1>1, <1>2 DEF PlacementInv
<1>5. book' \in [MeshNodes -> [Ids -> Entry \cup {NoMatch}]]
  BY <1>1, <1>2, <1>3 DEF PlacementInv
<1>6. \A k \in MeshNodes : \A i \in Ids : ~(k = n /\ i = id) => book'[k][i] = book[k][i]
  BY <1>1, <1>2 DEF PlacementInv
<1>7. \A k \in MeshNodes : Holds(k)' = Holds(k)
  <2>1. book[n][id] # NoMatch /\ book'[n][id] # NoMatch
    BY <1>1, <1>3, <1>4, EntriesAreMatches
  <2> QED BY <1>1, <1>6, <2>1 DEF Holds
<1> QED BY <1>3, <1>4, <1>5, <1>6, <1>7 DEF Holds

(* What is left of an entry is past. *)
LEMMA AgedIsPast ==
  ASSUME PlacementInv, NEW n \in MeshNodes, NEW i \in Holds(n), IsAged(book[n][i])
  PROVE  IsPast(i)
<1>1. book[n][i].computed >= i[1] + 2
  BY DEF PlacementInv
<1>2. i \in Ids /\ book[n][i] \in Entry
  BY HeldEntries
<1>3. i[1] \in Nat /\ book[n][i].computed \in Nat /\ clock \in Nat
  BY <1>2 DEF PlacementInv, Entry, Ids, Buckets
<1> QED BY <1>1, <1>3, PlacementAssumption DEF IsAged, IsPast

(* The steps, by what they do to the books. *)
LEMMA ComputeAdds ==
  ASSUME PlacementInv, NEW n \in MeshNodes, Compute(n)
  PROVE  \E b \in Buckets : \E P \in Drawn(n, b) : \E e \in Entry :
           /\ Adds(n, <<b, P>>, e) /\ IsFresh(<<b, P>>, e) /\ e.computed = clock
           /\ IsClosed(b) /\ ~IsStale(b) /\ made' = made \cup {<<b, P>>}
           /\ UNCHANGED <<clock, late, told, commits, unheard>>
<1>1. PICK b \in Buckets : \E P \in Drawn(n, b), host \in MeshNodes :
        \E e \in Placed(n, <<b, P>>, host, clock) :
        /\ book' = [book EXCEPT ![n][<<b, P>>] = e] /\ <<b, P>> \notin Holds(n)
        /\ IsClosed(b) /\ ~IsStale(b) /\ made' = made \cup {<<b, P>>}
        /\ UNCHANGED <<clock, late, told, commits, unheard>>
  BY DEF Compute
<1>2. PICK P \in Drawn(n, b), host \in MeshNodes :
        \E e \in Placed(n, <<b, P>>, host, clock) :
        /\ book' = [book EXCEPT ![n][<<b, P>>] = e] /\ <<b, P>> \notin Holds(n)
        /\ IsClosed(b) /\ ~IsStale(b) /\ made' = made \cup {<<b, P>>}
        /\ UNCHANGED <<clock, late, told, commits, unheard>>
  BY <1>1
<1>3. PICK e \in Placed(n, <<b, P>>, host, clock) :
        /\ book' = [book EXCEPT ![n][<<b, P>>] = e] /\ <<b, P>> \notin Holds(n)
        /\ IsClosed(b) /\ ~IsStale(b) /\ made' = made \cup {<<b, P>>}
        /\ UNCHANGED <<clock, late, told, commits, unheard>>
  BY <1>2
<1>4. <<b, P>> \in Ids
  BY DEF Drawn, Ids
<1>5. IsFresh(<<b, P>>, e) /\ e.computed = clock /\ e \in Entry
  BY <1>4, PlacedIsFresh DEF PlacementInv, IsFresh
<1> QED BY <1>3, <1>4, <1>5 DEF Adds

LEMMA TellAddsOrSwaps ==
  ASSUME PlacementInv, NEW n \in MeshNodes, NEW m \in MeshNodes, NEW id \in Ids, Tell(n, m, id)
  PROVE  /\ id \in Holds(n) /\ told' = told \cup {<<n, m, id>>}
         /\ UNCHANGED <<clock, late, commits, unheard, made>>
         /\ \/ UNCHANGED book /\ (id \in Holds(m) \/ IsAged(book[n][id]))
            \/ \E r \in Rivals(m, id) : UNCHANGED book /\ ~(Earlier(id, r) /\ Yields(m, r))
            \/ \E e \in Entry : /\ Adds(m, id, e) /\ IsFresh(id, e) /\ Rivals(m, id) = {}
                                /\ e.computed = book[n][id].computed
            \/ \E e \in Entry : \E r \in Rivals(m, id) :
                 /\ Swaps(m, r, id, e) /\ IsFresh(id, e) /\ e.computed = book[n][id].computed
                 /\ Earlier(id, r) /\ Yields(m, r)
<1>1. /\ id \in Holds(n) /\ told' = told \cup {<<n, m, id>>}
      /\ UNCHANGED <<clock, late, commits, unheard, made>>
  BY DEF Tell
<1>2. book[n][id].host \in MeshNodes /\ book[n][id].computed \in Buckets
  BY <1>1, HeldEntries DEF Entry
<1>3. PICK e \in Placed(m, id, book[n][id].host, book[n][id].computed) :
        IF id \in Holds(m) \/ IsAged(e) THEN UNCHANGED book
        ELSE IF Rivals(m, id) = {} THEN book' = [book EXCEPT ![m][id] = e]
        ELSE \E r \in Rivals(m, id) :
               IF Earlier(id, r) /\ Yields(m, r)
               THEN book' = [book EXCEPT ![m][r] = NoMatch, ![m][id] = e]
               ELSE UNCHANGED book
  BY DEF Tell
<1>4. IsFresh(id, e) /\ e.computed = book[n][id].computed /\ e \in Entry
  BY <1>2, PlacedIsFresh DEF PlacementInv, IsFresh
<1>5. CASE id \in Holds(m) \/ IsAged(e)
  BY <1>1, <1>3, <1>4, <1>5 DEF IsAged
<1>6. CASE id \notin Holds(m) /\ ~IsAged(e) /\ Rivals(m, id) = {}
  <2>1. Adds(m, id, e)
    BY <1>3, <1>6 DEF Adds
  <2> QED BY <1>1, <1>4, <1>6, <2>1
<1>7. CASE id \notin Holds(m) /\ ~IsAged(e) /\ Rivals(m, id) # {}
  <2>1. PICK r \in Rivals(m, id) :
          IF Earlier(id, r) /\ Yields(m, r)
          THEN book' = [book EXCEPT ![m][r] = NoMatch, ![m][id] = e]
          ELSE UNCHANGED book
    BY <1>3, <1>7
  <2>2. CASE Earlier(id, r) /\ Yields(m, r)
    <3>1. r \in Holds(m)
      BY DEF Rivals
    <3>2. book' = [book EXCEPT ![m][r] = NoMatch, ![m][id] = e]
      BY <2>1, <2>2
    <3>3. Swaps(m, r, id, e)
      BY <1>7, <3>1, <3>2 DEF Swaps
    <3> QED BY <1>1, <1>4, <2>2, <3>3
  <2>3. CASE ~(Earlier(id, r) /\ Yields(m, r))
    <3>1. UNCHANGED book
      BY <2>1, <2>3
    <3> QED BY <1>1, <2>3, <3>1
  <2> QED BY <2>2, <2>3
<1> QED BY <1>5, <1>6, <1>7

LEMMA CommitsMark ==
  ASSUME PlacementInv, NEW n \in MeshNodes, CommitPlaced(n) \/ CommitAnswered(n)
  PROVE  \E id \in Holds(n), how \in {"sending", "done", "failed"} :
           /\ Marks(n, id, how) /\ UNCHANGED <<clock, late, told, made>>
           /\ \/ /\ clock >= book[n][id].commitAt /\ book[n][id].commit = "no"
                 /\ UNCHANGED <<commits, unheard>>
              \/ /\ book[n][id].commit = "sending"
                 /\ \/ commits' = [commits EXCEPT ![n] = @ \cup {id}]
                    \/ UNCHANGED commits
                 /\ unheard \subseteq unheard'
                 /\ how # "done" => <<n, id>> \in unheard' \/ UNCHANGED commits
<1>1. CASE CommitPlaced(n)
  <2>1. PICK id \in Holds(n) : \E how \in {"sending"} \cup {x \in {"done"} : id \in OnChain} :
          /\ book[n][id].commit = "no" /\ clock >= book[n][id].commitAt
          /\ book' = [book EXCEPT ![n][id].commit = how]
          /\ UNCHANGED <<clock, late, told, commits, unheard, made>>
    BY <1>1 DEF CommitPlaced
  <2> QED BY <2>1 DEF Marks
<1>2. CASE CommitAnswered(n)
  <2>1. PICK id \in Holds(n), how \in {"done", "failed"} :
          /\ book[n][id].commit = "sending"
          /\ book' = [book EXCEPT ![n][id].commit = how]
          /\ \/ /\ id \notin OnChain /\ commits' = [commits EXCEPT ![n] = @ \cup {id}]
                /\ unheard' = IF how = "done" THEN unheard ELSE unheard \cup {<<n, id>>}
             \/ how = "failed" /\ UNCHANGED <<commits, unheard>>
          /\ UNCHANGED <<clock, late, told, made>>
    BY <1>2 DEF CommitAnswered
  <2>2. Marks(n, id, how)
    BY <2>1 DEF Marks
  <2> QED BY <2>1, <2>2
<1> QED BY <1>1, <1>2

LEMMA PlacementStepKeeps ==
  PlacementInv /\ [PlacementNext]_placementVars => PlacementInv'
<1> SUFFICES ASSUME PlacementInv, [PlacementNext]_placementVars PROVE PlacementInv'
  OBVIOUS
<1>0. clock \in Nat /\ \A id \in Ids : id[1] \in Nat
  BY DEF PlacementInv, Buckets, Ids
<1>1. ASSUME NEW p \in Players, Post(p) PROVE PlacementInv'
  BY <1>1 DEF Post, PlacementInv, Holds, IsPast
<1>2. ASSUME NEW n \in MeshNodes, Sweep(n) PROVE PlacementInv'
  <2>1. UNCHANGED <<clock, commits, unheard>>
    BY <1>2 DEF Sweep
  <2>2. ASSUME NEW k \in MeshNodes, NEW i \in Holds(k)'
        PROVE  book'[k][i].computed >= i[1] + 2
    BY <1>2, <2>2, SweptBook DEF PlacementInv
  <2>3. ASSUME NEW k \in MeshNodes, NEW i \in commits[k], <<k, i>> \notin unheard, ~IsPast(i)
        PROVE  i \in Holds(k)' /\ book'[k][i].commit = "done"
    <3>1. i \in Holds(k) /\ book[k][i].commit = "done"
      BY <2>3 DEF PlacementInv
    <3>2. ~IsAged(book[k][i])
      BY <2>3, <3>1, AgedIsPast
    <3>3. i \in Holds(k)'
      BY <1>2, <3>1, <3>2, SweptBook
    <3> QED BY <1>2, <3>1, <3>3, SweptBook
  <2> QED BY <1>2, <2>1, <2>2, <2>3, SweptBook DEF PlacementInv, IsPast
<1>3. ASSUME NEW n \in MeshNodes, NEW id, NEW e \in Entry, Adds(n, id, e), e.computed >= id[1] + 2,
             UNCHANGED <<clock, commits, unheard>>
      PROVE  PlacementInv'
  <2>1. ASSUME NEW k \in MeshNodes, NEW i \in Holds(k)'
        PROVE  book'[k][i].computed >= i[1] + 2
    BY <1>3, <2>1, AddedBook DEF PlacementInv
  <2>2. ASSUME NEW k \in MeshNodes, NEW i \in commits[k], <<k, i>> \notin unheard, ~IsPast(i)
        PROVE  i \in Holds(k)' /\ book'[k][i].commit = "done"
    BY <1>3, <2>2, AddedBook DEF PlacementInv
  <2> QED BY <1>3, <2>1, <2>2, AddedBook DEF PlacementInv, IsPast
<1>4. ASSUME NEW n \in MeshNodes, Compute(n) PROVE PlacementInv'
  <2>1. PICK b \in Buckets : \E P \in Drawn(n, b) : \E e \in Entry :
          /\ Adds(n, <<b, P>>, e) /\ e.computed = clock /\ IsClosed(b)
          /\ UNCHANGED <<clock, commits, unheard>>
    BY <1>4, ComputeAdds
  <2>2. PICK P \in Drawn(n, b), e \in Entry :
          /\ Adds(n, <<b, P>>, e) /\ e.computed = clock /\ IsClosed(b)
          /\ UNCHANGED <<clock, commits, unheard>>
    BY <2>1
  <2>3. e.computed >= <<b, P>>[1] + 2
    BY <1>0, <2>2 DEF IsClosed, Buckets
  <2> QED BY <1>3, <2>2, <2>3
<1>5. ASSUME NEW n \in MeshNodes, CommitPlaced(n) \/ CommitAnswered(n) PROVE PlacementInv'
  <2>1. PICK id \in Holds(n), how \in {"sending", "done", "failed"} :
          /\ Marks(n, id, how) /\ UNCHANGED clock
          /\ \/ book[n][id].commit = "no" /\ UNCHANGED <<commits, unheard>>
             \/ /\ book[n][id].commit = "sending"
                /\ \/ commits' = [commits EXCEPT ![n] = @ \cup {id}]
                   \/ UNCHANGED commits
                /\ unheard \subseteq unheard'
                /\ how # "done" => <<n, id>> \in unheard' \/ UNCHANGED commits
    BY <1>5, CommitsMark
  <2>2. id \in Ids /\ commits' \in [MeshNodes -> SUBSET Ids]
    BY <2>1, HeldEntries DEF PlacementInv
  <2>3. ASSUME NEW k \in MeshNodes, NEW i \in Holds(k)'
        PROVE  book'[k][i].computed >= i[1] + 2
    BY <2>1, <2>3, MarkedBook DEF PlacementInv
  <2>4. ASSUME NEW k \in MeshNodes, NEW i \in commits'[k], <<k, i>> \notin unheard', ~IsPast(i)
        PROVE  i \in Holds(k)' /\ book'[k][i].commit = "done"
    <3>1. i \in commits[k] \/ (k = n /\ i = id /\ ~UNCHANGED commits)
      BY <2>1 DEF PlacementInv
    <3>2. unheard \subseteq unheard'
      BY <2>1
    <3>3. CASE i \in commits[k]
      <4>1. i \in Holds(k) /\ book[k][i].commit = "done"
        BY <2>4, <3>2, <3>3 DEF PlacementInv
      <4>2. ~(k = n /\ i = id)
        BY <2>1, <4>1
      <4> QED BY <2>1, <4>1, <4>2, MarkedBook
    <3>4. CASE k = n /\ i = id /\ ~UNCHANGED commits
      <4>1. how = "done"
        BY <2>1, <2>4, <3>4
      <4> QED BY <2>1, <3>4, <4>1, MarkedBook
    <3> QED BY <3>1, <3>3, <3>4
  <2> QED BY <2>1, <2>2, <2>3, <2>4, MarkedBook DEF PlacementInv, IsPast
<1>6. ASSUME NEW n \in MeshNodes, NEW m \in MeshNodes, NEW id \in Ids, Tell(n, m, id)
      PROVE  PlacementInv'
  <2>1. id \in Holds(n) /\ UNCHANGED <<clock, commits, unheard>>
    BY <1>6, TellAddsOrSwaps
  <2>2. book[n][id].computed >= id[1] + 2
    BY <2>1 DEF PlacementInv
  <2>3. CASE UNCHANGED book
    BY <2>1, <2>3 DEF PlacementInv, Holds, IsPast
  <2>4. ASSUME NEW e \in Entry, Adds(m, id, e), e.computed = book[n][id].computed
        PROVE  PlacementInv'
    BY <1>3, <2>1, <2>2, <2>4
  <2>5. ASSUME NEW e \in Entry, NEW r \in Rivals(m, id), Swaps(m, r, id, e),
               e.computed = book[n][id].computed, Yields(m, r)
        PROVE  PlacementInv'
    <3>1. ASSUME NEW k \in MeshNodes, NEW i \in Holds(k)'
          PROVE  book'[k][i].computed >= i[1] + 2
      BY <2>2, <2>5, <3>1, SwappedBook DEF PlacementInv
    <3>2. ASSUME NEW k \in MeshNodes, NEW i \in commits[k], <<k, i>> \notin unheard, ~IsPast(i)
          PROVE  i \in Holds(k)' /\ book'[k][i].commit = "done"
      <4>1. i \in Holds(k) /\ book[k][i].commit = "done"
        BY <3>2 DEF PlacementInv
      <4>2. ~(k = m /\ i = r)
        BY <2>5, <4>1 DEF Yields
      <4>3. r \in Holds(m)
        BY <2>5 DEF Swaps
      <4>4. i \in Holds(k)'
        BY <2>5, <4>1, <4>2, SwappedBook
      <4>5. book'[k][i] = book[k][i]
        BY <2>5, <4>1, <4>2, SwappedBook
      <4> QED BY <4>1, <4>4, <4>5
    <3> QED BY <2>1, <2>5, <3>1, <3>2, SwappedBook DEF PlacementInv, IsPast
  <2> QED BY <1>6, <2>3, <2>4, <2>5, TellAddsOrSwaps
<1>7. CASE NextBucket
  <2>1. clock' \in Buckets /\ clock' = clock + 1 /\ UNCHANGED <<book, commits, unheard>>
    BY <1>0, <1>7, PlacementAssumption DEF NextBucket, Buckets
  <2>2. \A id \in Ids : IsPast(id) => IsPast(id)'
    BY <1>0, <2>1, PlacementAssumption DEF IsPast
  <2>3. \A k \in MeshNodes : commits[k] \subseteq Ids
    BY DEF PlacementInv
  <2> QED BY <2>1, <2>2, <2>3 DEF PlacementInv, Holds
<1>8. CASE UNCHANGED placementVars
  BY <1>8 DEF placementVars, PlacementInv, Holds, IsPast
<1> QED BY <1>1, <1>2, <1>4, <1>5, <1>6, <1>7, <1>8 DEF PlacementNext

(* A placement heard later never pushes out one that is on chain, whose hash the
   host got: for any mesh and any delays, it is in the host's book until its own
   time is over. *)
THEOREM CommitsStand == PlacementSpec => []CommittedStands
<1>1. PlacementInv => CommittedStands
  BY DEF PlacementInv, CommittedStands
<1> QED BY <1>1, PlacementInitKeeps, PlacementStepKeeps, PTL DEF PlacementSpec

LEMMA EndsOfAPair ==
  ASSUME NEW P \in Pairs
  PROVE  Min(P) \in Nat /\ Max(P) \in Nat /\ P = {Min(P), Max(P)}
<1>1. P \subseteq Nat /\ IsFiniteSet(P) /\ Cardinality(P) = 2
  BY PlacementAssumption, FS_Subset DEF Pairs
<1>2. PICK a \in P : TRUE
  <2>1. P # {}
    BY <1>1, FS_EmptySet
  <2> QED BY <2>1
<1>3. IsFiniteSet(P \ {a}) /\ Cardinality(P \ {a}) = 1
  BY <1>1, <1>2, FS_RemoveElement
<1>4. PICK b : P \ {a} = {b}
  BY <1>3, FS_Singleton
<1>5. P = {a, b} /\ a \in Nat /\ b \in Nat
  BY <1>1, <1>2, <1>4
<1>6. \E x \in P : \A y \in P : x =< y
  <2>1. a =< b \/ b =< a
    BY <1>5
  <2> QED BY <1>5, <2>1
<1>7. \E x \in P : \A y \in P : x >= y
  <2>1. a >= b \/ b >= a
    BY <1>5
  <2> QED BY <1>5, <2>1
<1>8. Min(P) \in P /\ \A y \in P : Min(P) =< y
  BY <1>6, Zenon DEF Min
<1>9. Max(P) \in P /\ \A y \in P : Max(P) >= y
  BY <1>7, Zenon DEF Max
<1> QED BY <1>5, <1>8, <1>9

LEMMA EarlierIsAnOrder ==
  ASSUME NEW i \in Ids, NEW j \in Ids
  PROVE  /\ i = j \/ Earlier(i, j) \/ Earlier(j, i)
         /\ ~(Earlier(i, j) /\ Earlier(j, i))
         /\ \A k \in Ids : Earlier(i, j) /\ Earlier(j, k) => Earlier(i, k)
<1>1. \A k \in Ids : /\ k[1] \in Nat /\ k[2] \in Pairs /\ k = <<k[1], k[2]>>
                     /\ Min(k[2]) \in Nat /\ Max(k[2]) \in Nat
                     /\ k[2] = {Min(k[2]), Max(k[2])}
  BY EndsOfAPair, PlacementAssumption DEF Ids, Buckets
<1> DEFINE lo(k) == Min(k[2])  hi(k) == Max(k[2])
<1>2. \A k, l \in Ids : k[1] = l[1] /\ lo(k) = lo(l) /\ hi(k) = hi(l) => k = l
  BY <1>1
<1>3. \A k, l \in Ids : Earlier(k, l) <=>
        \/ k[1] < l[1]
        \/ k[1] = l[1] /\ lo(k) < lo(l)
        \/ k[1] = l[1] /\ lo(k) = lo(l) /\ hi(k) < hi(l)
  BY DEF Earlier, Smaller
<1>4. \A k \in Ids : k[1] \in Nat /\ lo(k) \in Nat /\ hi(k) \in Nat
  BY <1>1
<1> HIDE DEF lo, hi
<1> QED BY <1>2, <1>3, <1>4

LEMMA RivalsAreMutual ==
  ASSUME NEW i \in Ids, NEW j \in Ids, AreRivals(i, j)
  PROVE  AreRivals(j, i)
<1>1. i[1] \in Int /\ j[1] \in Int /\ SpentBuckets \in Nat
  BY PlacementAssumption DEF Ids, Buckets
<1>2. j[1] - i[1] = -(i[1] - j[1])
  BY <1>1
<1>3. j[1] - i[1] \in -SpentBuckets..SpentBuckets
  BY <1>1 DEF AreRivals
<1> QED BY <1>3 DEF AreRivals

(* A player's placements in the order they were made: who has been told of one
   holds it or an earlier rival. *)
Covers(j, i) == j = i \/ (AreRivals(j, i) /\ Earlier(j, i))

(* A placement that is through: every node holds it, or it is past and its
   rivals are too old to be paired; and no node holds a rival of it. *)
Cleared(i) ==
    /\ IsPast(i) \/ \A m \in MeshNodes : i \in Holds(m)
    /\ \A m \in MeshNodes : \A j \in Holds(m) : ~AreRivals(i, j)
IsYoung(i) == clock <= i[1] + QueueTtl

(* On time, and as long as the rivals of rivals are rivals, the books agree
   bucket by bucket: no book holds two rivals; what is older than this bucket,
   or on its way to the chain, is through; and so is what is on chain. *)
OnTime == late = 0 /\ RivalsOfRivals
Agreed ==
    /\ OneSeatPerPlayer
    /\ \A n, m \in MeshNodes, i \in Ids :
         <<n, m, i>> \in told /\ IsYoung(i) => \E j \in Holds(m) : Covers(j, i)
    /\ \A n \in MeshNodes : \A i \in Holds(n) :
         book[n][i].commitAt < clock + CommitWait \/ book[n][i].commit \in {"sending", "done"}
           => Cleared(i)
    /\ \A n \in MeshNodes : \A i \in Holds(n) : IsYoung(i) \/ Cleared(i)
    /\ \A i \in OnChain : Cleared(i)
    /\ \A i, j \in OnChain : ~AreRivals(i, j)
Gathered ==
    /\ late \in Nat /\ made \subseteq Ids
    /\ told \subseteq MeshNodes \X MeshNodes \X made
    /\ \A n \in MeshNodes : Holds(n) \subseteq made
AgreeInv == PlacementInv /\ Gathered /\ (OnTime => Agreed)

LEMMA AgreeInitKeeps == PlacementInit => AgreeInv
<1> SUFFICES ASSUME PlacementInit PROVE Gathered /\ Agreed
  BY PlacementInitKeeps DEF AgreeInv
<1>1. (\A n \in MeshNodes : Holds(n) = {}) /\ OnChain = {}
  BY DEF PlacementInit, Holds, OnChain
<1>2. Gathered
  BY <1>1, PlacementAssumption DEF PlacementInit, Gathered
<1>3. Agreed
  BY <1>1 DEF PlacementInit, Agreed, OneSeatPerPlayer
<1> QED BY <1>2, <1>3

(* Transitivity, in the form the steps use it. *)
LEMMA CoversPassOn ==
  ASSUME RivalsOfRivals, made \subseteq Ids,
         NEW i \in made, NEW j \in made, NEW k \in made,
         AreRivals(k, j), Earlier(k, j), Covers(j, i)
  PROVE  Covers(k, i)
<1>1. CASE j = i
  BY <1>1 DEF Covers
<1>2. CASE AreRivals(j, i) /\ Earlier(j, i)
  <2>1. Earlier(k, i)
    BY <1>2, EarlierIsAnOrder
  <2>2. k = i \/ AreRivals(k, i)
    BY <1>2 DEF RivalsOfRivals
  <2> QED BY <2>1, <2>2 DEF Covers
<1> QED BY <1>1, <1>2 DEF Covers

(* A node pairs nobody it has seated in a neighbouring bucket. *)
LEMMA WaitingHaveNoSeat ==
  ASSUME PlacementInv, NEW n \in MeshNodes, NEW b \in Buckets, NEW P \in Drawn(n, b),
         NEW r \in Holds(n)
  PROVE  ~AreRivals(r, <<b, P>>)
<1> SUFFICES ASSUME AreRivals(r, <<b, P>>) PROVE FALSE
  OBVIOUS
<1>1. PICK p \in Seats(r) : p \in P
  BY DEF AreRivals, Seats
<1>2. ~IsSpent(n, p, b)
  BY <1>1 DEF Drawn, Waiting
<1>3. ~(b <= r[1] + SpentBuckets)
  BY <1>1, <1>2 DEF IsSpent
<1>4. r[1] \in Int /\ b \in Int /\ SpentBuckets \in Nat
  BY PlacementAssumption DEF Holds, Ids, Buckets
<1>5. r[1] - b \in -SpentBuckets..SpentBuckets
  BY DEF AreRivals
<1> QED BY <1>3, <1>4, <1>5

LEMMA RivalsAreNear ==
  ASSUME NEW i \in Ids, NEW j \in Ids, AreRivals(i, j)
  PROVE  i[1] <= j[1] + SpentBuckets /\ j[1] <= i[1] + SpentBuckets
<1>1. i[1] \in Int /\ j[1] \in Int /\ SpentBuckets \in Nat
  BY PlacementAssumption DEF Ids, Buckets
<1>2. i[1] - j[1] \in -SpentBuckets..SpentBuckets
  BY DEF AreRivals
<1> QED BY <1>1, <1>2

(* What is young is not past, and neither are its rivals. *)
LEMMA YoungIsNotPast ==
  ASSUME clock \in Buckets, NEW i \in Ids, NEW j \in Ids, IsYoung(i), j = i \/ AreRivals(j, i)
  PROVE  ~IsPast(j)
<1>1. /\ i[1] \in Nat /\ j[1] \in Nat /\ clock \in Nat
      /\ SpentBuckets \in Nat /\ QueueTtl \in Nat /\ MatchTtl \in Nat
      /\ QueueTtl + SpentBuckets <= MatchTtl + 2
  BY PlacementAssumption DEF Ids, Buckets
<1>2. i[1] <= j[1] + SpentBuckets
  BY <1>1, RivalsAreNear
<1> QED BY <1>1, <1>2 DEF IsYoung, IsPast

(* Nothing a step adds is a rival of what is through. *)
LEMMA ClearedStays ==
  ASSUME clock \in Nat, clock' \in Nat, clock' >= clock, NEW i \in Ids, Cleared(i),
         \A m \in MeshNodes : \A j \in Holds(m)' : j \in Holds(m) \/ ~AreRivals(i, j),
         \A m \in MeshNodes : i \in Holds(m) => i \in Holds(m)' \/ IsPast(i)
  PROVE  Cleared(i)'
<1>1. IsPast(i) => IsPast(i)'
  <2>1. i[1] + 2 + MatchTtl \in Nat
    BY PlacementAssumption DEF Ids, Buckets
  <2> QED BY <2>1 DEF IsPast
<1>2. \A m \in MeshNodes : \A j \in Holds(m)' : ~AreRivals(i, j)
  BY DEF Cleared
<1>3. IsPast(i)' \/ \A m \in MeshNodes : i \in Holds(m)'
  BY <1>1 DEF Cleared
<1> QED BY <1>2, <1>3 DEF Cleared, AreRivals, Seats

(* Everyone told everyone: what a node holds is through. *)
LEMMA ToldIsCleared ==
  ASSUME PlacementInv, Gathered, RivalsOfRivals, Agreed,
         NEW n \in MeshNodes, NEW i \in Holds(n),
         \A a, b \in MeshNodes : a # b => \A id \in Holds(a) : <<a, b, id>> \in told
  PROVE  Cleared(i)
<1>1. i \in Ids /\ i \in made
  BY HeldEntries DEF Gathered
<1>2. CASE ~IsYoung(i)
  BY <1>2 DEF Agreed
<1>3. ASSUME IsYoung(i), NEW m \in MeshNodes, m # n PROVE i \in Holds(m)
  <2>1. PICK j \in Holds(m) : Covers(j, i)
    BY <1>1, <1>3 DEF Agreed
  <2>2. j \in Ids /\ j \in made
    BY HeldEntries DEF Gathered
  <2>3. CASE j # i
    <3>1. AreRivals(j, i) /\ Earlier(j, i)
      BY <2>1, <2>3 DEF Covers
    <3>2. ~Cleared(j)
      BY <3>1 DEF Cleared
    <3>3. IsYoung(j)
      BY <3>2 DEF Agreed
    <3>4. PICK k \in Holds(n) : Covers(k, j)
      BY <1>3, <2>2, <3>3 DEF Agreed
    <3>5. k \in Ids /\ k \in made
      BY HeldEntries DEF Gathered
    <3>6. ~AreRivals(k, i)
      BY DEF Agreed, OneSeatPerPlayer
    <3>7. k # j
      BY <3>1, <3>6
    <3>8. AreRivals(k, j) /\ Earlier(k, j)
      BY <3>4, <3>7 DEF Covers
    <3>9. Earlier(k, i)
      BY <1>1, <2>2, <3>1, <3>5, <3>8, EarlierIsAnOrder
    <3>10. k = i
      BY <1>1, <2>2, <3>1, <3>5, <3>6, <3>8 DEF RivalsOfRivals
    <3> QED BY <1>1, <3>9, <3>10, EarlierIsAnOrder
  <2> QED BY <2>1, <2>3
<1>4. CASE IsYoung(i)
  <2>1. \A m \in MeshNodes : i \in Holds(m)
    BY <1>3, <1>4
  <2>2. \A m \in MeshNodes : \A j \in Holds(m) : ~AreRivals(i, j)
    BY <2>1 DEF Agreed, OneSeatPerPlayer
  <2> QED BY <2>1, <2>2 DEF Cleared
<1> QED BY <1>2, <1>4

(* A node may add a placement of which it holds no rival, and which rivals
   nothing that is through. *)
LEMMA AFreshEntryKeeps ==
  ASSUME PlacementInv, Gathered, Agreed,
         NEW n \in MeshNodes, NEW id \in Ids, NEW e \in Entry, Adds(n, id, e), IsFresh(id, e),
         \A r \in Holds(n) : ~AreRivals(r, id),
         \A i \in Ids : Cleared(i) => ~AreRivals(i, id),
         IsYoung(id) \/ Cleared(id),
         UNCHANGED <<clock, commits>>,
         \A a, b \in MeshNodes, i \in Ids :
           <<a, b, i>> \in told' => <<a, b, i>> \in told \/ (b = n /\ i = id)
  PROVE  Agreed'
<1>0. clock \in Nat /\ OnChain \subseteq Ids /\ OnChain' = OnChain
  BY DEF PlacementInv, Buckets, OnChain
<1>1. \A k \in MeshNodes : Holds(k)' = IF k = n THEN Holds(n) \cup {id} ELSE Holds(k)
  BY AddedBook
<1>2. \A k \in MeshNodes : \A i \in Holds(k) : book'[k][i] = book[k][i]
  BY AddedBook
<1>3. ASSUME NEW i \in Ids, Cleared(i) PROVE Cleared(i)'
  BY <1>0, <1>1, <1>3, ClearedStays
<1>4. OneSeatPerPlayer'
  <2> SUFFICES ASSUME NEW k \in MeshNodes, NEW i \in Holds(k)', NEW j \in Holds(k)', AreRivals(i, j)
               PROVE  FALSE
    BY DEF OneSeatPerPlayer, AreRivals, Seats
  <2>1. AreRivals(j, i)
    BY RivalsAreMutual DEF Holds
  <2>2. i # j
    BY DEF AreRivals
  <2> QED BY <1>1, <2>1, <2>2 DEF Agreed, OneSeatPerPlayer
<1>5. ASSUME NEW a \in MeshNodes, NEW b \in MeshNodes, NEW i \in Ids, <<a, b, i>> \in told', IsYoung(i)
      PROVE  \E j \in Holds(b)' : Covers(j, i)
  <2>1. CASE <<a, b, i>> \in told
    BY <1>1, <1>5, <2>1 DEF Agreed
  <2>2. CASE b = n /\ i = id
    BY <1>1, <2>2 DEF Covers
  <2> QED BY <1>5, <2>1, <2>2
<1>6. ASSUME NEW k \in MeshNodes, NEW i \in Holds(k)'
      PROVE  /\ \/ book'[k][i].commitAt < clock' + CommitWait
                \/ book'[k][i].commit \in {"sending", "done"}
                => Cleared(i)'
             /\ IsYoung(i)' \/ Cleared(i)'
  <2>1. i \in Ids /\ (i \in Holds(k) \/ (k = n /\ i = id))
    BY <1>1, HeldEntries
  <2>2. CASE i \in Holds(k)
    BY <1>2, <1>3, <2>1, <2>2 DEF Agreed, IsYoung
  <2>3. CASE k = n /\ i = id
    <3>1. book'[k][i] = e
      BY <2>3, AddedBook
    <3>2. clock + CommitWait \in Int
      BY <1>0, PlacementAssumption
    <3>3. ~(e.commitAt < clock' + CommitWait)
      BY <3>2 DEF IsFresh
    <3>4. e.commit \in {"sending", "done"} => id \in OnChain
      BY DEF IsFresh
    <3> QED BY <1>3, <2>3, <3>1, <3>3, <3>4 DEF Agreed, IsYoung
  <2> QED BY <2>1, <2>2, <2>3
<1>7. \A i \in OnChain' : Cleared(i)'
  BY <1>0, <1>3 DEF Agreed
<1> QED BY <1>0, <1>4, <1>5, <1>6, <1>7 DEF Agreed, Covers, AreRivals, Earlier, Seats, IsYoung

(* A later rival makes room for an earlier one that another node holds: nothing
   that is through is lost, and whoever was covered stays so. *)
LEMMA AnEarlierOneKeeps ==
  ASSUME PlacementInv, Gathered, RivalsOfRivals, Agreed,
         NEW n \in MeshNodes, NEW m \in MeshNodes, NEW id \in Holds(n), NEW r \in Holds(m),
         NEW e \in Entry, Swaps(m, r, id, e), IsFresh(id, e), AreRivals(r, id), Earlier(id, r),
         UNCHANGED <<clock, commits>>,
         \A a, b \in MeshNodes, i \in Ids :
           <<a, b, i>> \in told' => <<a, b, i>> \in told \/ (b = m /\ i = id)
  PROVE  Agreed'
<1>0. id \in Ids /\ id \in made /\ r \in Ids /\ r \in made /\ AreRivals(id, r)
  BY HeldEntries, RivalsAreMutual DEF Gathered
<1>1. \A k \in MeshNodes : Holds(k)' = IF k = m THEN (Holds(m) \ {r}) \cup {id} ELSE Holds(k)
  BY SwappedBook
<1>2. \A k \in MeshNodes : \A i \in Holds(k) : ~(k = m /\ i = r) => book'[k][i] = book[k][i]
  BY SwappedBook
<1>3. clock \in Nat /\ OnChain \subseteq Ids /\ OnChain' = OnChain
  BY DEF PlacementInv, Buckets, OnChain
<1>4. ASSUME NEW i \in Ids, Cleared(i) PROVE Cleared(i)'
  <2>1. ~AreRivals(i, id) /\ i # r
    BY <1>4 DEF Cleared
  <2> QED BY <1>1, <1>3, <1>4, <2>1, ClearedStays
<1>5. OneSeatPerPlayer'
  <2> SUFFICES ASSUME NEW k \in MeshNodes, NEW i \in Holds(k)', NEW j \in Holds(k)', AreRivals(i, j)
               PROVE  FALSE
    BY DEF OneSeatPerPlayer, AreRivals, Seats
  <2>1. AreRivals(j, i) /\ i # j
    BY RivalsAreMutual DEF Holds, AreRivals
  <2>2. ASSUME NEW x \in Holds(m), AreRivals(x, id) PROVE x = r
    <3>1. x \in made /\ x \in Ids
      BY HeldEntries DEF Gathered
    <3>2. x = r \/ AreRivals(x, r)
      BY <1>0, <2>2, <3>1 DEF RivalsOfRivals
    <3> QED BY <3>2 DEF Agreed, OneSeatPerPlayer
  <2> QED BY <1>1, <2>1, <2>2 DEF Agreed, OneSeatPerPlayer
<1>6. ASSUME NEW a \in MeshNodes, NEW b \in MeshNodes, NEW i \in Ids, <<a, b, i>> \in told', IsYoung(i)
      PROVE  \E j \in Holds(b)' : Covers(j, i)
  <2>1. CASE <<a, b, i>> \in told
    <3>1. PICK j \in Holds(b) : Covers(j, i)
      BY <1>6, <2>1 DEF Agreed
    <3>2. i \in made /\ j \in made
      BY <2>1 DEF Gathered
    <3>3. CASE b = m /\ j = r
      <4>1. Covers(id, i)
        BY <1>0, <3>1, <3>2, <3>3, CoversPassOn DEF Gathered
      <4> QED BY <1>1, <3>3, <4>1
    <3>4. CASE ~(b = m /\ j = r)
      BY <1>1, <3>1, <3>4
    <3> QED BY <3>3, <3>4
  <2>2. CASE b = m /\ i = id
    BY <1>1, <2>2 DEF Covers
  <2> QED BY <1>6, <2>1, <2>2
<1>7. ASSUME NEW k \in MeshNodes, NEW i \in Holds(k)'
      PROVE  /\ \/ book'[k][i].commitAt < clock' + CommitWait
                \/ book'[k][i].commit \in {"sending", "done"}
                => Cleared(i)'
             /\ IsYoung(i)' \/ Cleared(i)'
  <2>1. /\ i \in Ids
        /\ \/ k = m /\ i = id
           \/ i \in Holds(k) /\ ~(k = m /\ i = r)
    BY <1>0, <1>1, HeldEntries DEF AreRivals
  <2>2. CASE i \in Holds(k) /\ ~(k = m /\ i = r)
    BY <1>2, <1>4, <2>1, <2>2 DEF Agreed, IsYoung
  <2>3. CASE k = m /\ i = id
    <3>1. book'[k][i] = e
      BY <2>3, SwappedBook
    <3>2. clock + CommitWait \in Int
      BY <1>3, PlacementAssumption
    <3>3. ~(e.commitAt < clock' + CommitWait)
      BY <3>2 DEF IsFresh
    <3>4. e.commit \in {"sending", "done"} => id \in OnChain
      BY DEF IsFresh
    <3>5. IsYoung(id) \/ Cleared(id)
      BY DEF Agreed
    <3> QED BY <1>0, <1>4, <2>3, <3>1, <3>3, <3>4, <3>5 DEF Agreed, IsYoung
  <2> QED BY <2>1, <2>2, <2>3
<1>8. \A i \in OnChain' : Cleared(i)'
  BY <1>3, <1>4 DEF Agreed
<1> QED BY <1>3, <1>5, <1>6, <1>7, <1>8 DEF Agreed, Covers, AreRivals, Earlier, Seats, IsYoung

(* The host's commit marks an entry that is through. *)
LEMMA ACommitKeeps ==
  ASSUME AgreeInv, OnTime, NEW n \in MeshNodes, CommitPlaced(n) \/ CommitAnswered(n)
  PROVE  Agreed'
<1>0. PlacementInv /\ Agreed
  BY DEF AgreeInv
<1>1. PICK id \in Holds(n), how \in {"sending", "done", "failed"} :
        /\ Marks(n, id, how) /\ UNCHANGED <<clock, told>>
        /\ \/ clock >= book[n][id].commitAt /\ UNCHANGED commits
           \/ /\ book[n][id].commit = "sending"
              /\ commits' = [commits EXCEPT ![n] = @ \cup {id}] \/ UNCHANGED commits
  BY <1>0, CommitsMark
<1>2. id \in Ids /\ book[n][id] \in Entry /\ clock \in Nat
  BY <1>0, HeldEntries DEF PlacementInv, Buckets
<1>3. \A k \in MeshNodes : Holds(k)' = Holds(k)
  BY <1>0, <1>1, MarkedBook
<1>4. OnChain \subseteq Ids /\ OnChain' \subseteq OnChain \cup {id}
  BY <1>0, <1>1, <1>2 DEF PlacementInv, OnChain
<1>5. Cleared(id)
  <2>1. CASE clock >= book[n][id].commitAt
    <3>1. CommitWait \in Nat /\ CommitWait > 0 /\ book[n][id].commitAt \in Nat
      BY <1>2, PlacementAssumption DEF Entry
    <3>2. book[n][id].commitAt < clock + CommitWait
      BY <1>2, <2>1, <3>1
    <3> QED BY <1>0, <3>2 DEF Agreed
  <2>2. CASE book[n][id].commit = "sending"
    BY <1>0, <2>2 DEF Agreed
  <2> QED BY <1>1, <2>1, <2>2
<1>6. ASSUME NEW i \in Ids, Cleared(i) PROVE Cleared(i)'
  BY <1>1, <1>2, <1>3, <1>6, ClearedStays
<1>7. ASSUME NEW k \in MeshNodes, NEW i \in Holds(k)'
      PROVE  /\ \/ book'[k][i].commitAt < clock' + CommitWait
                \/ book'[k][i].commit \in {"sending", "done"}
                => Cleared(i)'
             /\ IsYoung(i)' \/ Cleared(i)'
  <2>1. i \in Holds(k) /\ i \in Ids
    BY <1>0, <1>3, HeldEntries
  <2>2. CASE k = n /\ i = id
    BY <1>2, <1>5, <1>6, <2>2
  <2>3. CASE ~(k = n /\ i = id)
    <3>1. book'[k][i] = book[k][i]
      BY <1>0, <1>1, <2>1, <2>3, MarkedBook
    <3> QED BY <1>0, <1>1, <1>6, <2>1, <3>1 DEF Agreed, IsYoung
  <2> QED BY <2>2, <2>3
<1>8. OneSeatPerPlayer'
  BY <1>0, <1>3 DEF Agreed, OneSeatPerPlayer, AreRivals, Seats
<1>9. ASSUME NEW a \in MeshNodes, NEW b \in MeshNodes, NEW i \in Ids, <<a, b, i>> \in told', IsYoung(i)
      PROVE  \E j \in Holds(b)' : Covers(j, i)
  BY <1>0, <1>1, <1>3, <1>9 DEF Agreed
<1>10. \A i \in OnChain' : Cleared(i)'
  BY <1>0, <1>2, <1>4, <1>5, <1>6 DEF Agreed
<1>11. ASSUME NEW i \in OnChain', NEW j \in OnChain' PROVE ~AreRivals(i, j)
  <2>1. i \in Ids /\ j \in Ids
    BY <1>2, <1>4
  <2>2. ASSUME NEW c \in OnChain PROVE ~AreRivals(c, id) /\ ~AreRivals(id, c)
    <3>1. ~AreRivals(c, id)
      BY <1>0 DEF Agreed, Cleared
    <3> QED BY <1>2, <1>4, <3>1, RivalsAreMutual
  <2>3. ~AreRivals(id, id)
    BY DEF AreRivals
  <2> QED BY <1>0, <1>4, <2>2, <2>3 DEF Agreed
<1> QED BY <1>1, <1>7, <1>8, <1>9, <1>10, <1>11 DEF Agreed, Covers, AreRivals, Earlier, Seats, IsYoung

(* What a sweep takes is past, and covers nobody who is young. *)
LEMMA ASweepKeeps ==
  ASSUME PlacementInv, Agreed, NEW n \in MeshNodes, Sweep(n)
  PROVE  Agreed'
<1>0. clock \in Nat /\ OnChain \subseteq Ids /\ OnChain' = OnChain /\ UNCHANGED <<clock, told>>
  BY DEF PlacementInv, Buckets, OnChain, Sweep
<1>1. \A k \in MeshNodes : Holds(k)' = IF k = n THEN {i \in Holds(n) : ~IsAged(book[n][i])}
                                       ELSE Holds(k)
  BY SweptBook
<1>2. \A k \in MeshNodes : \A i \in Holds(k) : i \in Holds(k)' \/ IsPast(i)
  BY <1>1, AgedIsPast
<1>3. ASSUME NEW i \in Ids, Cleared(i) PROVE Cleared(i)'
  BY <1>0, <1>1, <1>2, <1>3, ClearedStays
<1>4. \A k \in MeshNodes : \A i \in Holds(k)' : i \in Holds(k) /\ i \in Ids /\ book'[k][i] = book[k][i]
  BY <1>1, SweptBook, HeldEntries
<1>5. OneSeatPerPlayer'
  BY <1>4 DEF Agreed, OneSeatPerPlayer, AreRivals, Seats
<1>6. ASSUME NEW a \in MeshNodes, NEW b \in MeshNodes, NEW i \in Ids, <<a, b, i>> \in told', IsYoung(i)
      PROVE  \E j \in Holds(b)' : Covers(j, i)
  <2>1. PICK j \in Holds(b) : Covers(j, i)
    BY <1>0, <1>6 DEF Agreed
  <2>2. j \in Ids
    BY HeldEntries
  <2>3. ~IsPast(j)
    BY <1>6, <2>1, <2>2, YoungIsNotPast DEF Covers, PlacementInv
  <2> QED BY <1>2, <2>1, <2>3
<1>7. ASSUME NEW k \in MeshNodes, NEW i \in Holds(k)'
      PROVE  /\ \/ book'[k][i].commitAt < clock' + CommitWait
                \/ book'[k][i].commit \in {"sending", "done"}
                => Cleared(i)'
             /\ IsYoung(i)' \/ Cleared(i)'
  BY <1>0, <1>3, <1>4 DEF Agreed, IsYoung
<1>8. \A i \in OnChain' : Cleared(i)'
  BY <1>0, <1>3 DEF Agreed
<1> QED BY <1>0, <1>5, <1>6, <1>7, <1>8 DEF Agreed, Covers, AreRivals, Earlier, Seats, IsYoung

(* A bucket passes on time only when everyone told everyone. *)
LEMMA ABucketKeeps ==
  ASSUME AgreeInv, OnTime, NextBucket, late' = 0
  PROVE  Agreed'
<1>0. PlacementInv /\ Gathered /\ Agreed /\ RivalsOfRivals
  BY DEF AgreeInv, OnTime
<1>1. \A a, b \in MeshNodes : a # b => \A id \in Holds(a) : <<a, b, id>> \in told
  <2>1. late + 1 # 0
    BY <1>0 DEF Gathered
  <2> QED BY <2>1 DEF NextBucket
<1>2. told' = {} /\ UNCHANGED <<book, commits>>
  BY DEF NextBucket
<1>3. (\A k \in MeshNodes : Holds(k)' = Holds(k)) /\ OnChain' = OnChain /\ OnChain \subseteq Ids
  BY <1>0, <1>2 DEF Holds, OnChain, PlacementInv
<1>4. clock \in Nat /\ clock' = clock + 1
  BY <1>0 DEF NextBucket, PlacementInv, Buckets
<1>5. ASSUME NEW i \in Ids, Cleared(i) PROVE Cleared(i)'
  BY <1>3, <1>4, <1>5, ClearedStays
<1>6. \A k \in MeshNodes : \A i \in Holds(k) : i \in Ids /\ Cleared(i)
  BY <1>0, <1>1, ToldIsCleared, HeldEntries
<1>7. \A k \in MeshNodes : \A i \in Holds(k)' : Cleared(i)'
  BY <1>3, <1>5, <1>6
<1>8. \A i \in OnChain' : Cleared(i)'
  BY <1>0, <1>3, <1>5 DEF Agreed
<1>9. OneSeatPerPlayer'
  BY <1>0, <1>3 DEF Agreed, OneSeatPerPlayer, AreRivals, Seats
<1> QED BY <1>0, <1>2, <1>3, <1>7, <1>8, <1>9 DEF Agreed, AreRivals, Seats

(* What a step leaves: the ids that are held or told of were computed. *)
LEMMA GatheredStepKeeps ==
  PlacementInv /\ Gathered /\ [PlacementNext]_placementVars => Gathered' /\ made \subseteq made'
<1> SUFFICES ASSUME PlacementInv, Gathered, [PlacementNext]_placementVars
             PROVE  Gathered' /\ made \subseteq made'
  OBVIOUS
<1>1. ASSUME NEW p \in Players, Post(p) PROVE Gathered' /\ made \subseteq made'
  BY <1>1 DEF Post, Gathered, Holds
<1>2. ASSUME NEW n \in MeshNodes, Sweep(n) PROVE Gathered' /\ made \subseteq made'
  <2>1. \A k \in MeshNodes : Holds(k)' \subseteq Holds(k)
    BY <1>2, SweptBook
  <2> QED BY <1>2, <2>1 DEF Sweep, Gathered
<1>3. ASSUME NEW n \in MeshNodes, Compute(n) PROVE Gathered' /\ made \subseteq made'
  <2>1. PICK b \in Buckets : \E P \in Drawn(n, b) : \E e \in Entry :
          /\ Adds(n, <<b, P>>, e) /\ made' = made \cup {<<b, P>>} /\ UNCHANGED <<late, told>>
    BY <1>3, ComputeAdds
  <2>2. PICK P \in Drawn(n, b), e \in Entry :
          /\ Adds(n, <<b, P>>, e) /\ made' = made \cup {<<b, P>>} /\ UNCHANGED <<late, told>>
    BY <2>1
  <2>3. \A k \in MeshNodes : Holds(k)' \subseteq Holds(k) \cup {<<b, P>>}
    BY <2>2, AddedBook
  <2>4. <<b, P>> \in Ids
    BY <2>2 DEF Adds
  <2> QED BY <2>2, <2>3, <2>4 DEF Gathered
<1>4. ASSUME NEW n \in MeshNodes, CommitPlaced(n) \/ CommitAnswered(n)
      PROVE  Gathered' /\ made \subseteq made'
  <2>1. PICK id \in Holds(n), how \in {"sending", "done", "failed"} :
          Marks(n, id, how) /\ UNCHANGED <<late, told, made>>
    BY <1>4, CommitsMark
  <2>2. \A k \in MeshNodes : Holds(k)' = Holds(k)
    BY <2>1, MarkedBook
  <2> QED BY <2>1, <2>2 DEF Gathered
<1>5. ASSUME NEW n \in MeshNodes, NEW m \in MeshNodes, NEW id \in Ids, Tell(n, m, id)
      PROVE  Gathered' /\ made \subseteq made'
  <2>1. id \in Holds(n) /\ told' = told \cup {<<n, m, id>>} /\ UNCHANGED <<late, made>>
    BY <1>5, TellAddsOrSwaps
  <2>2. \A k \in MeshNodes : Holds(k)' \subseteq Holds(k) \cup {id}
    <3>1. CASE UNCHANGED book
      BY <3>1 DEF Holds
    <3>2. ASSUME NEW e \in Entry, Adds(m, id, e)
          PROVE  \A k \in MeshNodes : Holds(k)' \subseteq Holds(k) \cup {id}
      BY <3>2, AddedBook
    <3>3. ASSUME NEW e \in Entry, NEW r \in Rivals(m, id), Swaps(m, r, id, e)
          PROVE  \A k \in MeshNodes : Holds(k)' \subseteq Holds(k) \cup {id}
      BY <3>3, SwappedBook
    <3> QED BY <1>5, <3>1, <3>2, <3>3, TellAddsOrSwaps
  <2> QED BY <2>1, <2>2 DEF Gathered
<1>6. CASE NextBucket
  BY <1>6 DEF NextBucket, Gathered, Holds
<1>7. CASE UNCHANGED placementVars
  BY <1>7 DEF placementVars, Gathered, Holds
<1> QED BY <1>1, <1>2, <1>3, <1>4, <1>5, <1>6, <1>7 DEF PlacementNext

(* What is paired now is no rival of anything that is through: the node holds
   that, or it is so old that its rivals' entries are stale. *)
LEMMA APairIsNew ==
  ASSUME PlacementInv, NEW n \in MeshNodes, NEW b \in Buckets, NEW P \in Drawn(n, b), ~IsStale(b),
         <<b, P>> \in Ids, NEW i \in Ids, Cleared(i)
  PROVE  ~AreRivals(i, <<b, P>>)
<1> SUFFICES ASSUME AreRivals(i, <<b, P>>) PROVE FALSE
  OBVIOUS
<1>1. i \notin Holds(n)
  BY WaitingHaveNoSeat
<1>2. IsPast(i)
  BY <1>1 DEF Cleared
<1>3. clock \in Nat /\ b \in Nat /\ QueueTtl \in Nat
  BY PlacementAssumption DEF PlacementInv, Buckets
<1>4. IsYoung(<<b, P>>)
  BY <1>3 DEF IsStale, IsYoung
<1> QED BY <1>2, <1>4, YoungIsNotPast DEF PlacementInv

LEMMA AgreeStepKeeps == AgreeInv /\ [PlacementNext]_placementVars => AgreeInv'
<1> SUFFICES ASSUME AgreeInv, [PlacementNext]_placementVars, OnTime' PROVE Agreed'
  BY PlacementStepKeeps, GatheredStepKeeps DEF AgreeInv
<1>0. OnTime
  <2>1. made \subseteq made' /\ late \in Nat
    BY GatheredStepKeeps DEF AgreeInv, Gathered
  <2>2. RivalsOfRivals
    BY <2>1 DEF OnTime, RivalsOfRivals, AreRivals, Seats
  <2>3. late = 0
    <3>1. late' = late \/ late' = late + 1
      BY DEF PlacementNext, Post, Sweep, Compute, CommitPlaced, CommitAnswered, Tell, NextBucket,
             placementVars
    <3> QED BY <2>1, <3>1 DEF OnTime
  <2> QED BY <2>2, <2>3 DEF OnTime
<1>7. PlacementInv /\ Gathered /\ Agreed /\ RivalsOfRivals
  BY <1>0 DEF AgreeInv, OnTime
<1>8. ASSUME UNCHANGED <<clock, book, told, commits>> PROVE Agreed'
  <2>1. (\A k \in MeshNodes : Holds(k)' = Holds(k)) /\ OnChain' = OnChain
    BY <1>8 DEF Holds, OnChain
  <2>2. OneSeatPerPlayer'
    BY <2>1, <1>7 DEF Agreed, OneSeatPerPlayer, AreRivals, Seats
  <2> QED BY <1>8, <1>7, <2>1, <2>2
          DEF Agreed, Cleared, IsPast, IsYoung, Covers, AreRivals, Earlier, Seats
<1>1. ASSUME NEW p \in Players, Post(p) PROVE Agreed'
  BY <1>1, <1>8 DEF Post
<1>2. ASSUME NEW n \in MeshNodes, Compute(n) PROVE Agreed'
  <2>1. PICK b \in Buckets : \E P \in Drawn(n, b) : \E e \in Entry :
          /\ Adds(n, <<b, P>>, e) /\ IsFresh(<<b, P>>, e) /\ ~IsStale(b)
          /\ UNCHANGED <<clock, told, commits>>
    BY <1>2, <1>7, ComputeAdds
  <2>2. PICK P \in Drawn(n, b), e \in Entry :
          /\ Adds(n, <<b, P>>, e) /\ IsFresh(<<b, P>>, e) /\ ~IsStale(b)
          /\ UNCHANGED <<clock, told, commits>>
    BY <2>1
  <2>3. <<b, P>> \in Ids
    BY <2>2 DEF Adds
  <2>4. \A r \in Holds(n) : ~AreRivals(r, <<b, P>>)
    BY <1>7, WaitingHaveNoSeat
  <2>5. \A i \in Ids : Cleared(i) => ~AreRivals(i, <<b, P>>)
    BY <1>7, <2>2, <2>3, APairIsNew
  <2>6. IsYoung(<<b, P>>)
    <3>1. clock \in Nat /\ b \in Nat /\ QueueTtl \in Nat
      BY <1>7, PlacementAssumption DEF PlacementInv, Buckets
    <3> QED BY <2>2, <3>1 DEF IsStale, IsYoung
  <2> QED BY <1>7, <2>2, <2>3, <2>4, <2>5, <2>6, AFreshEntryKeeps
<1>3. ASSUME NEW n \in MeshNodes, CommitPlaced(n) \/ CommitAnswered(n) PROVE Agreed'
  BY <1>0, <1>3, ACommitKeeps
<1>9. ASSUME NEW n \in MeshNodes, Sweep(n) PROVE Agreed'
  BY <1>7, <1>9, ASweepKeeps
<1>4. ASSUME NEW n \in MeshNodes, NEW m \in MeshNodes, NEW id \in Ids, Tell(n, m, id)
      PROVE  Agreed'
  <2>1. /\ id \in Holds(n) /\ told' = told \cup {<<n, m, id>>} /\ UNCHANGED <<clock, commits>>
    BY <1>4, <1>7, TellAddsOrSwaps
  <2>2. IsYoung(id) \/ Cleared(id)
    BY <1>7, <2>1 DEF Agreed
  <2>3. ASSUME UNCHANGED book, IsYoung(id) => \E j \in Holds(m) : Covers(j, id) PROVE Agreed'
    <3>1. (\A k \in MeshNodes : Holds(k)' = Holds(k)) /\ OnChain' = OnChain
      BY <2>1, <2>3 DEF Holds, OnChain
    <3>2. OneSeatPerPlayer'
      BY <3>1, <1>7 DEF Agreed, OneSeatPerPlayer, AreRivals, Seats
    <3>3. ASSUME NEW a \in MeshNodes, NEW b \in MeshNodes, NEW i \in Ids, <<a, b, i>> \in told',
                 IsYoung(i)
          PROVE  \E x \in Holds(b)' : Covers(x, i)
      <4>1. <<a, b, i>> \in told \/ (b = m /\ i = id)
        BY <2>1, <3>3
      <4> QED BY <1>7, <2>3, <3>1, <3>3, <4>1 DEF Agreed
    <3> QED BY <1>7, <2>1, <2>3, <3>1, <3>2, <3>3
            DEF Agreed, Cleared, IsPast, IsYoung, Covers, AreRivals, Earlier, Seats
  <2>4. CASE UNCHANGED book /\ id \in Holds(m)
    BY <2>3, <2>4 DEF Covers
  <2>5. CASE UNCHANGED book /\ IsAged(book[n][id])
    <3>1. IsPast(id)
      BY <1>7, <2>1, <2>5, AgedIsPast
    <3>2. ~IsYoung(id)
      BY <1>7, <3>1, YoungIsNotPast DEF PlacementInv
    <3> QED BY <2>3, <2>5, <3>2
  <2>6. ASSUME NEW r \in Rivals(m, id), UNCHANGED book, ~(Earlier(id, r) /\ Yields(m, r))
        PROVE  Agreed'
    <3>1. r \in Holds(m) /\ AreRivals(r, id) /\ r \in Ids
      BY DEF Rivals, Holds
    <3>2. CASE ~Earlier(id, r)
      <4>1. Earlier(r, id)
        BY <3>1, <3>2, EarlierIsAnOrder DEF AreRivals
      <4> QED BY <2>3, <2>6, <3>1, <4>1 DEF Covers
    <3>3. CASE ~Yields(m, r)
      <4>1. Cleared(r)
        BY <1>7, <3>1, <3>3 DEF Yields, Agreed
      <4> QED BY <2>1, <3>1, <4>1 DEF Cleared
    <3> QED BY <2>6, <3>2, <3>3
  <2>7. ASSUME NEW e \in Entry, Adds(m, id, e), IsFresh(id, e), Rivals(m, id) = {}
        PROVE  Agreed'
    <3>1. \A r \in Holds(m) : ~AreRivals(r, id)
      BY <2>7 DEF Rivals
    <3>2. \A i \in Ids : Cleared(i) => ~AreRivals(i, id)
      BY <2>1 DEF Cleared
    <3> QED BY <1>7, <2>1, <2>2, <2>7, <3>1, <3>2, AFreshEntryKeeps
  <2>8. ASSUME NEW e \in Entry, NEW r \in Rivals(m, id), Swaps(m, r, id, e), IsFresh(id, e),
               Earlier(id, r)
        PROVE  Agreed'
    <3>1. r \in Holds(m) /\ AreRivals(r, id)
      BY DEF Rivals
    <3> QED BY <1>7, <2>1, <2>8, <3>1, AnEarlierOneKeeps
  <2> QED BY <1>4, <1>7, <2>4, <2>5, <2>6, <2>7, <2>8, TellAddsOrSwaps
<1>5. CASE NextBucket
  BY <1>0, <1>5, ABucketKeeps DEF OnTime
<1>6. CASE UNCHANGED placementVars
  BY <1>6, <1>8 DEF placementVars
<1> QED BY <1>1, <1>2, <1>3, <1>4, <1>5, <1>6, <1>9 DEF PlacementNext

(* Nobody pays twice for one player's neighbouring buckets, for any mesh, any
   players and any wait of a bucket or more, as long as gossip is on time and
   rivals of rivals are rivals: what is on its way to the chain every node holds,
   no book holds two rivals, and when its time is over the entries its rivals
   would be paired from are stale. *)
THEOREM OneCommitEach == PlacementSpec => []OneCommitPerPlayer
<1>1. AgreeInv => OneCommitPerPlayer
  BY DEF AgreeInv, OnTime, Agreed, OneCommitPerPlayer
<1> QED BY <1>1, AgreeInitKeeps, AgreeStepKeeps, PTL DEF PlacementSpec

-----------------------------------------------------------------------------
(* Frozen hours *)

FreezeInv == DOMAIN frozen = Hours

(* No late signature, settlement or restart changes an hour that is frozen, for
   any number of them. *)
THEOREM HoursStayFrozen == SettlementSpec => FrozenStands
<1>1. SettlementInit => FreezeInv
  BY DEF SettlementInit, FreezeInv
<1>2. FreezeInv /\ [SettlementNext]_settlementVars =>
        FreezeInv' /\ \A h \in Hours : frozen[h] # "open" => frozen'[h] = frozen[h]
  <2> SUFFICES ASSUME FreezeInv, [SettlementNext]_settlementVars
               PROVE  FreezeInv' /\ \A h \in Hours : frozen[h] # "open" => frozen'[h] = frozen[h]
    OBVIOUS
  <2>1. ASSUME NEW g \in Hours, Freeze(g)
        PROVE  FreezeInv' /\ \A h \in Hours : frozen[h] # "open" => frozen'[h] = frozen[h]
    BY <2>1 DEF Freeze, MayFreeze, FreezeInv
  <2>2. CASE UNCHANGED frozen
    BY <2>2 DEF FreezeInv
  <2> QED BY <2>1, <2>2 DEF SettlementNext, Receive, Replayed, Finish, Sign, Open, Accept,
             NextHour, RestartNode, settlementVars
<1> QED BY <1>1, <1>2, PTL DEF SettlementSpec, FrozenStands

-----------------------------------------------------------------------------
(* The tables of peers *)

PeerInv ==
    /\ envelopes \in [Keys -> Times]
    /\ \A h \in flying : h.at \in Epochs

(* What a step may take out of the forwarding table. *)
LeavesRightly ==
    \A k \in Keys : stakes[k] = "bonded" /\ stakes'[k] = "bonded"
      /\ envelopes[k] # NotHeld /\ envelopes'[k] = NotHeld => TooOld(envelopes[k])

LEMMA PeerStepKeeps ==
  PeerInv /\ [PeerNext]_peerVars => PeerInv' /\ LeavesRightly
<1> SUFFICES ASSUME PeerInv, [PeerNext]_peerVars PROVE PeerInv' /\ LeavesRightly
  OBVIOUS
<1>t. LastEpoch \in Nat /\ NotHeld \in Times /\ NotHeld \notin Epochs /\ Epochs \subseteq Times
  BY PeerAssumption DEF NotHeld, Times, Epochs
<1>1. ASSUME NEW k \in Keys, NEW at \in Epochs, NEW kind \in MessageKinds, Hear(k, at, kind)
      PROVE  PeerInv' /\ LeavesRightly
  BY <1>1 DEF Hear, PeerInv, LeavesRightly
<1>2. ASSUME NEW h \in flying, Check(h) PROVE PeerInv' /\ LeavesRightly
  <2> DEFINE learning == (flying \ {h}) \cup {[h EXCEPT !.stage = "learning"]}
  <2>1. h.at \in Epochs /\ [h EXCEPT !.stage = "learning"].at = h.at
    BY DEF PeerInv
  <2>2. /\ UNCHANGED stakes /\ \A g \in flying' : g.at \in Epochs
    BY <1>2, <2>1 DEF Check, PeerInv
  <2>3. CASE envelopes' = [envelopes EXCEPT ![h.key] = h.at]
    BY <1>t, <2>1, <2>2, <2>3 DEF PeerInv, LeavesRightly
  <2>4. CASE \E k \in Stalest : envelopes' = [[envelopes EXCEPT ![k] = NotHeld] EXCEPT ![h.key] = h.at]
    <3>1. PICK k \in Stalest : envelopes' = [[envelopes EXCEPT ![k] = NotHeld] EXCEPT ![h.key] = h.at]
      BY <2>4
    <3>2. stakes[k] # "bonded"
      BY DEF Stalest, IsUnbonded
    <3> QED BY <1>t, <2>1, <2>2, <3>1, <3>2 DEF PeerInv, LeavesRightly
  <2>5. CASE UNCHANGED envelopes
    BY <2>2, <2>5 DEF PeerInv, LeavesRightly
  <2> QED BY <1>2, <2>3, <2>4, <2>5 DEF Check, Evicting
<1>3. ASSUME NEW h \in flying, Learn(h) PROVE PeerInv' /\ LeavesRightly
  BY <1>3 DEF Learn, PeerInv, LeavesRightly
<1>4. CASE ForgetStale
  BY <1>t, <1>4 DEF ForgetStale, Fresh, PeerInv, LeavesRightly
<1>5. CASE MergeStakes
  <2>1. PICK K \in Trimmed(stakes') :
          envelopes' = [k \in Keys |-> IF k \in K THEN NotHeld ELSE envelopes[k]]
    BY <1>5 DEF MergeStakes, Evicting
  <2>2. \A k \in K : stakes'[k] = "unbonded"
    BY DEF Trimmed
  <2>3. UNCHANGED flying
    BY <1>5 DEF MergeStakes
  <2> QED BY <1>t, <2>1, <2>2, <2>3 DEF PeerInv, LeavesRightly
<1>6. CASE NextEpoch \/ ReadStakes \/ UNCHANGED peerVars
  BY <1>6 DEF NextEpoch, ReadStakes, peerVars, PeerInv, LeavesRightly
<1> QED BY <1>1, <1>2, <1>3, <1>4, <1>5, <1>6 DEF PeerNext

(* A flood of keys, whatever its size and whichever reads and checks run at the
   same time, costs no bonded operator its place in the forwarding table. *)
THEOREM BondedStay == PeerSpec => BondedKeepTheirPlace
<1>1. PeerInit => PeerInv
  BY PeerAssumption DEF PeerInit, PeerInv, Nowhere, Times
<1> QED BY <1>1, PeerStepKeeps, PTL DEF PeerSpec, BondedKeepTheirPlace, LeavesRightly

(* What is counted of a peer. *)
CountInv ==
    /\ heartbeats \in [Keys -> Times]
    /\ \A h \in flying : h.at \in Epochs

CountsForward ==
    /\ \A k \in Keys : heartbeats[k] # NotHeld /\ heartbeats'[k] # NotHeld
         => heartbeats'[k] >= heartbeats[k]
    /\ \A k \in Keys : stakes[k] # stakes'[k] /\ heartbeats[k] # NotHeld => k \in reading.keys

LEMMA CountStepKeeps == CountInv /\ [PeerNext]_peerVars => CountInv' /\ CountsForward
<1> SUFFICES ASSUME CountInv, [PeerNext]_peerVars PROVE CountInv' /\ CountsForward
  OBVIOUS
<1> USE DEF CountInv, CountsForward
<1>t. LastEpoch \in Nat /\ NotHeld \in Times /\ NotHeld \notin Epochs
      /\ (\A t \in Epochs : t \in Times) /\ (\A t \in Times : t \in Nat)
  BY PeerAssumption DEF NotHeld, Times, Epochs
<1>1. ASSUME UNCHANGED <<heartbeats, stakes>>, \A h \in flying' : h.at \in Epochs
      PROVE  CountInv' /\ CountsForward
  BY <1>t, <1>1
<1>2. ASSUME NEW k \in Keys, NEW at \in Epochs, NEW kind \in MessageKinds, Hear(k, at, kind)
      PROVE  CountInv' /\ CountsForward
  BY <1>1, <1>2 DEF Hear
<1>3. ASSUME NEW h \in flying, Check(h) PROVE CountInv' /\ CountsForward
  <2>1. h.at \in Epochs /\ [h EXCEPT !.stage = "learning"].at = h.at
    OBVIOUS
  <2>2. UNCHANGED stakes /\ \A g \in flying' : g.at \in Epochs
    BY <1>3, <2>1 DEF Check
  <2>3. CASE UNCHANGED heartbeats
    BY <1>1, <2>2, <2>3
  <2>4. CASE \E K \in SUBSET Keys :
               heartbeats' = [k \in Keys |-> IF k \in K THEN NotHeld ELSE heartbeats[k]]
    BY <1>t, <2>2, <2>4
  <2>5. \A k \in Stalest : {k} \in SUBSET Keys
    BY DEF Stalest, Cached
  <2> QED BY <1>3, <2>3, <2>4, <2>5 DEF Check, Evicting
<1>4. ASSUME NEW h \in flying, Learn(h) PROVE CountInv' /\ CountsForward
  <2>1. /\ UNCHANGED stakes /\ \A g \in flying' : g.at \in Epochs
        /\ h.at \in Times
    BY <1>t, <1>4 DEF Learn
  <2>2. PICK at \in Times :
          /\ heartbeats' = [heartbeats EXCEPT ![h.key] = at]
          /\ at = NotHeld \/ at = heartbeats[h.key] \/ Newer(h.key, at)
    BY <1>t, <1>4, <2>1 DEF Learn
  <2>3. \A k \in Keys : heartbeats[k] \in Nat /\ heartbeats'[k] \in Nat /\ at \in Nat
    BY <1>t, <2>2
  <2>4. \A k \in Keys : heartbeats'[k] = heartbeats[k] \/ (k = h.key /\ heartbeats'[k] = at)
    BY <2>2
  <2>5. \A k \in Keys : heartbeats[k] # NotHeld /\ heartbeats'[k] # NotHeld
                           => heartbeats'[k] >= heartbeats[k]
    BY <2>2, <2>3, <2>4 DEF Newer
  <2>6. heartbeats' \in [Keys -> Times]
    BY <2>2
  <2> QED BY <2>1, <2>5, <2>6
<1>5. CASE ForgetStale
  <2>1. UNCHANGED <<stakes, flying>> /\ heartbeats' = Fresh(heartbeats)
    BY <1>5 DEF ForgetStale
  <2> QED BY <1>t, <2>1 DEF Fresh
<1>6. CASE MergeStakes
  <2>1. PICK K \in Trimmed(stakes') :
          heartbeats' = [k \in Keys |-> IF k \in K THEN NotHeld ELSE heartbeats[k]]
    BY <1>6 DEF MergeStakes, Evicting
  <2>2. UNCHANGED flying /\ stakes' = [k \in Keys |-> Merged(k)]
    BY <1>6 DEF MergeStakes
  <2>3. \A k \in Keys : stakes'[k] # stakes[k] /\ heartbeats[k] # NotHeld => k \in reading.keys
    BY <2>2 DEF Merged
  <2> QED BY <1>t, <2>1, <2>2, <2>3
<1>7. CASE NextEpoch \/ ReadStakes \/ UNCHANGED peerVars
  BY <1>1, <1>7 DEF NextEpoch, ReadStakes, peerVars
<1> QED BY <1>2, <1>3, <1>4, <1>5, <1>6, <1>7 DEF PeerNext

LEMMA CountsStart == PeerInit => CountInv
  BY PeerAssumption DEF PeerInit, CountInv, Nowhere, Times

(* Late and doubled messages never turn a peer's clock back. *)
THEOREM PeersNeverGoBack == PeerSpec => HeartbeatsAdvance
  BY CountsStart, CountStepKeeps, PTL DEF PeerSpec, HeartbeatsAdvance, CountsForward

(* However many reads fail, and whatever is heard or evicted while they run, a
   standing goes only by a read of that key. *)
THEOREM FailedReadsTakeNothing == PeerSpec => StandingOutlastsAFailedRead
  BY CountsStart, CountStepKeeps, PTL DEF PeerSpec, StandingOutlastsAFailedRead, CountsForward

-----------------------------------------------------------------------------
(* Chat *)

ChatInv == DOMAIN ring = Hosts

DropsOldest ==
    \A n \in Hosts : \A l \in ring[n] \ ring'[n] :
      Expired(l) \/ (Cardinality(ring'[n]) = Ring /\ \A o \in ring'[n] : o.at >= l.at)

LEMMA PruningDropsOldest ==
  ASSUME NEW L, NEW R \in Pruned(L), NEW l \in L \ R
  PROVE  Expired(l) \/ (Cardinality(R) = Ring /\ \A o \in R : l.at <= o.at)
  BY DEF Pruned, kSubset

LEMMA ChatStepKeeps == ChatInv /\ [ChatNext]_chatVars => ChatInv' /\ DropsOldest
<1> SUFFICES ASSUME ChatInv, [ChatNext]_chatVars PROVE ChatInv' /\ DropsOldest
  OBVIOUS
<1>1. ASSUME NEW n \in Hosts, NEW L, ring[n] \subseteq L, NEW R \in Pruned(L),
             ring' = [ring EXCEPT ![n] = R]
      PROVE  ChatInv' /\ DropsOldest
  <2>1. \A l \in L \ R : Expired(l) \/ (Cardinality(R) = Ring /\ \A o \in R : l.at <= o.at)
    BY <1>1, PruningDropsOldest
  <2> QED BY <1>1, <2>1 DEF ChatInv, DropsOldest
<1>2. CASE UNCHANGED ring
  BY <1>2 DEF ChatInv, DropsOldest
<1>3. ASSUME NEW n \in Hosts, NEW l \in Lines, HoldLine(n, l) PROVE ChatInv' /\ DropsOldest
  BY <1>1, <1>2, <1>3 DEF HoldLine
<1>4. ASSUME NEW n \in Hosts, Prune(n) PROVE ChatInv' /\ DropsOldest
  BY <1>1, <1>4 DEF Prune
<1> QED BY <1>2, <1>3, <1>4 DEF ChatNext, OpenLine, DropForgery, ReadTier, ChatTick, chatVars

(* A full ring gives up its oldest lines, in whatever order the lines arrive
   and however many are being checked. *)
THEOREM NewestStay == ChatSpec => NewestLinesStay
<1>1. ChatInit => ChatInv
  BY DEF ChatInit, ChatInv
<1> QED BY <1>1, ChatStepKeeps, PTL DEF ChatSpec, NewestLinesStay, DropsOldest

(* A speaker's lines in one window of stamps. *)
InWindow(R, s, from) == {l \in R : l.by = s /\ l.at \in from..from + RateWindow - 1}

WithinRate(R) ==
    \A s \in Speakers, from \in 0..LastTick : Cardinality(InWindow(R, s, from)) <= Burst

RateInv ==
    /\ DOMAIN ring = Hosts
    /\ \A n \in Hosts : ring[n] \subseteq Lines /\ IsFiniteSet(ring[n]) /\ WithinRate(ring[n])

LEMMA FewerStayWithinRate ==
  ASSUME NEW L, IsFiniteSet(L), WithinRate(L), NEW R \in SUBSET L
  PROVE  IsFiniteSet(R) /\ WithinRate(R)
<1>1. IsFiniteSet(R)
  BY FS_Subset
<1>2. ASSUME NEW s \in Speakers, NEW from \in 0..LastTick
      PROVE  Cardinality(InWindow(R, s, from)) <= Burst
  <2>1. InWindow(R, s, from) \subseteq InWindow(L, s, from)
        /\ InWindow(L, s, from) \subseteq L /\ InWindow(R, s, from) \subseteq R
    BY DEF InWindow
  <2>2. IsFiniteSet(InWindow(L, s, from)) /\ IsFiniteSet(InWindow(R, s, from))
    BY <1>1, <2>1, FS_Subset
  <2>3. Cardinality(InWindow(R, s, from)) <= Cardinality(InWindow(L, s, from))
    BY <2>1, <2>2, FS_Subset
  <2>4. Cardinality(InWindow(R, s, from)) \in Nat /\ Cardinality(InWindow(L, s, from)) \in Nat
    BY <2>2, FS_CardinalityType
  <2>5. Cardinality(InWindow(L, s, from)) <= Burst
    BY DEF WithinRate
  <2> QED BY <2>3, <2>4, <2>5, ChatAssumption
<1> QED BY <1>1, <1>2 DEF WithinRate

(* Every window a line falls in lies in the two windows around its stamp. *)
LEMMA OneMoreWithinRate ==
  ASSUME NEW L \in SUBSET Lines, IsFiniteSet(L), WithinRate(L), NEW l \in Lines, RateOk(L, l)
  PROVE  IsFiniteSet(L \cup {l}) /\ WithinRate(L \cup {l})
<1>c. RateWindow \in Nat /\ LastTick \in Nat /\ Burst \in Nat
  BY ChatAssumption
<1>1. IsFiniteSet(L \cup {l})
  BY FS_AddElement
<1>2. ASSUME NEW s \in Speakers, NEW from \in 0..LastTick
      PROVE  Cardinality(InWindow(L \cup {l}, s, from)) <= Burst
  <2> DEFINE W == InWindow(L, s, from)
             Around == {o \in L : o.by = l.by /\ o.at \in l.at - RateWindow + 1..l.at + RateWindow - 1}
  <2>1. CASE l.by = s /\ l.at \in from..from + RateWindow - 1
    <3>1. \A o \in L : o.at \in Nat
      BY <1>c DEF Lines
    <3>2. l.at \in Nat
      BY <1>c DEF Lines
    <3>3. W \subseteq Around
      BY <1>c, <2>1, <3>1, <3>2 DEF InWindow
    <3>4. InWindow(L \cup {l}, s, from) = W \cup {l} /\ W \subseteq L /\ Around \subseteq L
      BY <2>1 DEF InWindow
    <3>5. Cardinality(Around) < Burst
      BY DEF RateOk
    <3> HIDE DEF W, Around
    <3>6. IsFiniteSet(W) /\ IsFiniteSet(Around)
      BY <3>4, FS_Subset
    <3>7. Cardinality(W) <= Cardinality(Around)
      BY <3>3, <3>6, FS_Subset
    <3>8. Cardinality(W \cup {l}) <= Cardinality(W) + 1
      <4>1. Cardinality(W \cup {l}) = IF l \in W THEN Cardinality(W) ELSE Cardinality(W) + 1
        BY <3>6, FS_AddElement
      <4> QED BY <4>1, <3>6, FS_CardinalityType
    <3>9. Cardinality(W) \in Nat /\ Cardinality(Around) \in Nat /\ Cardinality(W \cup {l}) \in Nat
      BY <3>6, FS_AddElement, FS_CardinalityType
    <3>10. Cardinality(W \cup {l}) <= Burst
      BY <1>c, <3>5, <3>7, <3>8, <3>9
    <3> QED BY <3>4, <3>10
  <2>2. CASE ~(l.by = s /\ l.at \in from..from + RateWindow - 1)
    <3>1. InWindow(L \cup {l}, s, from) = W
      BY <2>2 DEF InWindow
    <3> QED BY <3>1 DEF WithinRate
  <2> QED BY <2>1, <2>2
<1> QED BY <1>1, <1>2 DEF WithinRate

LEMMA PruningOnlyDrops == ASSUME NEW L, NEW R \in Pruned(L) PROVE R \in SUBSET L
  BY DEF Pruned, kSubset

LEMMA RateStepKeeps == RateInv /\ [ChatNext]_chatVars => RateInv'
<1> SUFFICES ASSUME RateInv, [ChatNext]_chatVars PROVE RateInv'
  OBVIOUS
<1> USE DEF RateInv
<1>1. ASSUME NEW n \in Hosts, NEW L \in SUBSET Lines, IsFiniteSet(L), WithinRate(L),
             NEW R \in Pruned(L), ring' = [ring EXCEPT ![n] = R]
      PROVE  RateInv'
  <2>1. R \in SUBSET L /\ IsFiniteSet(R) /\ WithinRate(R)
    BY <1>1, PruningOnlyDrops, FewerStayWithinRate
  <2>2. \A m \in Hosts : ring'[m] = R \/ ring'[m] = ring[m]
    BY <1>1
  <2>3. \A m \in Hosts : ring'[m] \subseteq Lines /\ IsFiniteSet(ring'[m]) /\ WithinRate(ring'[m])
    BY <1>1, <2>1, <2>2
  <2>4. \A m \in Hosts : WithinRate(ring[m])'
    BY <2>3 DEF WithinRate, InWindow
  <2> QED BY <1>1, <2>3, <2>4
<1>2. ASSUME UNCHANGED ring PROVE RateInv'
  <2>1. \A m \in Hosts : WithinRate(ring[m])'
    BY <1>2 DEF WithinRate, InWindow
  <2> QED BY <1>2, <2>1
<1>3. ASSUME NEW n \in Hosts, NEW l \in Lines, HoldLine(n, l) PROVE RateInv'
  <2>1. CASE UNCHANGED ring
    BY <1>2, <2>1
  <2>2. CASE RateOk(ring[n], l) /\ \E R \in Pruned(ring[n] \cup {l}) : ring' = [ring EXCEPT ![n] = R]
    <3>1. ring[n] \cup {l} \in SUBSET Lines
          /\ IsFiniteSet(ring[n] \cup {l}) /\ WithinRate(ring[n] \cup {l})
      BY <2>2, OneMoreWithinRate
    <3> QED BY <1>1, <2>2, <3>1
  <2> QED BY <1>3, <2>1, <2>2 DEF HoldLine
<1>4. ASSUME NEW n \in Hosts, Prune(n) PROVE RateInv'
  BY <1>1, <1>4 DEF Prune
<1>5. ASSUME NEW n \in Hosts, NEW l \in Lines, OpenLine(n, l) \/ DropForgery(n, l) PROVE RateInv'
  BY <1>2, <1>5 DEF OpenLine, DropForgery
<1>6. CASE ChatTick \/ (\E s \in Speakers : ReadTier(s)) \/ UNCHANGED chatVars
  BY <1>2, <1>6 DEF ChatTick, ReadTier, chatVars
<1> QED BY <1>3, <1>4, <1>5, <1>6 DEF ChatNext

(* No order of delivery, no number of checks under way and no pruning lets a
   speaker put more lines into a window than a burst. *)
THEOREM NobodyFloods == ChatSpec => []BurstBounded
<1>1. ChatInit => RateInv
  <2> SUFFICES ASSUME ChatInit PROVE RateInv
    OBVIOUS
  <2>1. \A n \in Hosts : ring[n] = {}
    BY DEF ChatInit
  <2>2. \A s \in Speakers, from \in 0..LastTick : InWindow({}, s, from) = {}
    BY DEF InWindow
  <2>3. IsFiniteSet({}) /\ Cardinality({}) = 0
    BY FS_EmptySet
  <2>4. WithinRate({})
    BY <2>2, <2>3, ChatAssumption DEF WithinRate
  <2> QED BY <2>1, <2>3, <2>4 DEF ChatInit, RateInv
<1>2. RateInv => BurstBounded
  BY DEF RateInv, WithinRate, InWindow, BurstBounded
<1> QED BY <1>1, <1>2, RateStepKeeps, PTL DEF ChatSpec

-----------------------------------------------------------------------------
(* A court that looks for a node *)

(* A call has passed over one node per attempt, none of them steady, and is at
   one it has not tried. *)
CallType == [at : {"new", "health", "delta", "post", "ended", "no chain"},
             base : Settlers \cup {NoNode}, exclude : SUBSET (Settlers \ Steady), attempt : Nat, tries : Nat,
             status : {"unreachable", "no role", "settled", "already", "refused"}]
Failed(S) == S.status \in {"unreachable", "no role"}
CallOk(S) ==
    /\ Cardinality(S.exclude) = S.attempt
    /\ S.at \notin {"ended", "no chain"} => S.attempt <= Fallbacks
    /\ S.at \in {"health", "delta", "post"} => S.base \in Settlers \ S.exclude
    /\ S.at = "ended" /\ Failed(S) => S.attempt > Fallbacks \/ Steady = {}

CourtInv ==
    /\ settler \in Settlers \cup {NoNode}
    /\ settle \in [Settles -> CallType] /\ \A c \in Settles : CallOk(settle[c])

LEMMA CourtInitKeeps == CourtInit => CourtInv
<1> SUFFICES ASSUME CourtInit PROVE CourtInv
  OBVIOUS
<1>1. Cardinality({}) = 0
  BY FS_EmptySet
<1>2. NewCall \in CallType /\ CallOk(NewCall)
  BY <1>1, CourtAssumption DEF NewCall, CallType, CallOk
<1> QED BY <1>2 DEF CourtInit, CourtInv

LEMMA OneMore ==
  \A a, f \in Nat : a + 1 \in Nat /\ (a < f => a + 1 <= f) /\ (~(a < f) => a + 1 > f)
  OBVIOUS

(* What passing over an unsteady node leaves. *)
LEMMA PassedIsOk ==
  ASSUME NEW S \in CallType, CallOk(S), S.at \in {"health", "delta", "post"}, S.base \notin Steady,
         NEW status \in {"unreachable", "no role"}
  PROVE  Passed(S, status) \in CallType /\ CallOk(Passed(S, status))
<1> DEFINE R == Passed(S, status)
           tried == S.exclude \cup {S.base}
<1>1. S.base \in Settlers \ S.exclude /\ S.attempt <= Fallbacks /\ Cardinality(S.exclude) = S.attempt
  BY DEF CallOk
<1>2. tried \in SUBSET (Settlers \ Steady)
  BY <1>1 DEF CallType
<1>3. IsFiniteSet(S.exclude)
  BY CourtAssumption, FS_Subset DEF CallType
<1>4. Cardinality(tried) = S.attempt + 1
  BY <1>1, <1>3, FS_AddElement
<1>5. S.attempt \in Nat /\ Fallbacks \in Nat
  BY CourtAssumption DEF CallType
<1>6. CASE S.attempt < Fallbacks
  <2>1. R = [at |-> "new", base |-> NoNode, tries |-> 0, exclude |-> tried, attempt |-> S.attempt + 1,
             status |-> status]
    BY <1>6 DEF Passed
  <2>2. S.attempt + 1 \in Nat /\ S.attempt + 1 <= Fallbacks
    BY <1>5, <1>6, OneMore
  <2> HIDE DEF R, tried
  <2>3. R \in CallType
    BY <1>2, <2>1, <2>2 DEF CallType
  <2>4. CallOk(R)
    BY <1>4, <2>1, <2>2 DEF CallOk
  <2> QED BY <2>3, <2>4 DEF R
<1>7. CASE ~(S.attempt < Fallbacks)
  <2>1. R = [at |-> "ended", base |-> NoNode, tries |-> 0, exclude |-> tried, attempt |-> S.attempt + 1,
             status |-> status]
    BY <1>7 DEF Passed
  <2>2. S.attempt + 1 \in Nat /\ S.attempt + 1 > Fallbacks
    BY <1>5, <1>7, OneMore
  <2> HIDE DEF R, tried
  <2>3. R \in CallType
    BY <1>2, <2>1, <2>2 DEF CallType
  <2>4. CallOk(R)
    BY <1>4, <2>1, <2>2 DEF CallOk
  <2> QED BY <2>3, <2>4 DEF R
<1> QED BY <1>6, <1>7

LEMMA CourtStepKeeps == CourtInv /\ [CourtNext]_courtVars => CourtInv'
<1> SUFFICES ASSUME CourtInv, [CourtNext]_courtVars PROVE CourtInv'
  OBVIOUS
<1>1. \A c \in Settles : settle[c] \in CallType /\ CallOk(settle[c])
  BY DEF CourtInv
<1>2. ASSUME NEW c \in Settles, NEW R \in CallType, CallOk(R), settle' = [settle EXCEPT ![c] = R],
             settler' \in Settlers \cup {NoNode}
      PROVE  CourtInv'
  <2>1. settle' \in [Settles -> CallType]
    BY <1>2 DEF CourtInv
  <2>2. ASSUME NEW d \in Settles PROVE CallOk(settle'[d])
    BY <1>1, <1>2, <2>2 DEF CourtInv
  <2> QED BY <1>2, <2>1, <2>2 DEF CourtInv, CallOk, Failed
<1>3. ASSUME NEW c \in Settles, NEW status \in {"unreachable", "no role"}, PassOver(c, status),
             settle[c].at \in {"health", "delta", "post"}, Unsteady(c)
      PROVE  CourtInv'
  <2> DEFINE R == Passed(settle[c], status)
  <2>1. R \in CallType /\ CallOk(R)
    BY <1>1, <1>3, PassedIsOk DEF Unsteady
  <2> QED BY <1>2, <1>3, <2>1 DEF PassOver
<1>4. ASSUME NEW c \in Settles, NEW status \in {"settled", "already", "refused"}, Ends(c, status)
      PROVE  CourtInv'
  <2> DEFINE R == [settle[c] EXCEPT !.at = "ended", !.status = status]
  <2>1. R \in CallType /\ R.exclude = settle[c].exclude /\ R.attempt = settle[c].attempt
        /\ R.at = "ended" /\ R.status = status
    BY <1>1 DEF CallType
  <2>2. CallOk(R)
    BY <1>1, <2>1 DEF CallOk, Failed
  <2>3. settle' = [settle EXCEPT ![c] = R] /\ settler' \in Settlers \cup {NoNode}
    BY <1>1, <1>4 DEF Ends, CourtInv, CallType
  <2> QED BY <1>2, <2>1, <2>2, <2>3
<1>5. ASSUME NEW c \in Settles, NEW n \in Settlers \ settle[c].exclude, settle[c].at \notin {"ended", "no chain"},
             NEW at \in {"health", "delta", "post"}, Turns(c, at, n), settler' = settler
      PROVE  CourtInv'
  <2> DEFINE R == [settle[c] EXCEPT !.at = at, !.base = n]
  <2>1. R \in CallType /\ R.exclude = settle[c].exclude /\ R.attempt = settle[c].attempt
        /\ R.at = at /\ R.base = n
    BY <1>1 DEF CallType
  <2>2. CallOk(R)
    BY <1>1, <1>5, <2>1 DEF CallOk
  <2>3. settle' = [settle EXCEPT ![c] = R] /\ settler' \in Settlers \cup {NoNode}
    BY <1>5 DEF Turns, CourtInv
  <2> QED BY <1>2, <2>1, <2>2, <2>3
<1>6. ASSUME NEW c \in Settles, Recall(c) \/ Find(c)
      PROVE  CourtInv'
  <2>1. CASE Recall(c)
    <3>1. settler \in Settlers \ settle[c].exclude
      BY <2>1 DEF Recall, Remembered, CourtInv
    <3> QED BY <1>5, <2>1, <3>1 DEF Recall
  <2>2. CASE Find(c)
    BY <1>5, <2>2 DEF Find, Candidates
  <2> QED BY <1>6, <2>1, <2>2
<1>7. ASSUME NEW c \in Settles, FindNone(c)
      PROVE  CourtInv'
  <2>1. PICK at \in {"ended", "no chain"} :
          (at = "ended" => Candidates(c) \cap Steady = {}) /\ Turns(c, at, NoNode)
    BY <1>7 DEF FindNone
  <2> DEFINE R == [settle[c] EXCEPT !.at = at, !.base = NoNode]
  <2>2. R \in CallType /\ R.exclude = settle[c].exclude /\ R.attempt = settle[c].attempt /\ R.at = at
    BY <1>1 DEF CallType
  <2>3. at = "ended" => Steady = {}
    BY <1>1, <2>1, CourtAssumption DEF Candidates, CallType
  <2>4. CallOk(R)
    BY <1>1, <2>2, <2>3 DEF CallOk
  <2>5. settle' = [settle EXCEPT ![c] = R] /\ settler' \in Settlers \cup {NoNode}
    BY <1>7, <2>1 DEF FindNone, CourtInv, Turns
  <2> QED BY <1>2, <2>2, <2>4, <2>5
<1>8. ASSUME NEW c \in Settles, Health(c)
      PROVE  CourtInv'
  <2>1. settle[c].base \in Settlers \ settle[c].exclude
    BY <1>1, <1>8 DEF Health, CallOk
  <2> QED BY <1>3, <1>5, <1>8, <2>1 DEF Health
<1>9. ASSUME NEW c \in Settles, AskDelta(c)
      PROVE  CourtInv'
  <2>1. settle[c].base \in Settlers \ settle[c].exclude
    BY <1>1, <1>9 DEF AskDelta, CallOk
  <2> QED BY <1>4, <1>5, <1>9, <2>1 DEF AskDelta
<1>10. ASSUME NEW c \in Settles, PostAnswered(c) \/ PostRefused(c) \/ PostNoRole(c)
       PROVE  CourtInv'
  BY <1>3, <1>4, <1>10 DEF PostAnswered, PostRefused, PostNoRole
<1>11. ASSUME NEW c \in Settles, PostLost(c)
       PROVE  CourtInv'
  <2>1. CASE settle[c].tries < PostRetries
    <3> DEFINE R == [settle[c] EXCEPT !.tries = @ + 1]
    <3>6. settle[c] \in CallType
      BY <1>1
    <3>7. settle[c].tries \in Nat
      BY <3>6 DEF CallType
    <3>5. settle[c] \in CallType /\ settle[c].tries + 1 \in Nat
      BY <3>6, <3>7
    <3>1. R \in CallType /\ R.exclude = settle[c].exclude /\ R.attempt = settle[c].attempt
          /\ R.at = settle[c].at /\ R.base = settle[c].base
      BY <3>5 DEF CallType
    <3>2. settle[c].at = "post"
      BY <1>11 DEF PostLost
    <3>3. CallOk(R)
      BY <1>1, <3>1, <3>2 DEF CallOk
    <3>4. settle' = [settle EXCEPT ![c] = R] /\ settler' \in Settlers \cup {NoNode}
      BY <1>11, <2>1 DEF PostLost, CourtInv
    <3> QED BY <1>2, <3>1, <3>3, <3>4
  <2>2. CASE ~(settle[c].tries < PostRetries)
    BY <1>3, <1>11, <2>2 DEF PostLost
  <2> QED BY <2>1, <2>2
<1>12. CASE ForgetSettler \/ UNCHANGED courtVars
  <2>1. settle' = settle /\ settler' \in Settlers \cup {NoNode}
    BY <1>12 DEF ForgetSettler, courtVars, CourtInv
  <2> QED BY <2>1 DEF CourtInv, CallOk, Failed
<1> QED BY <1>6, <1>7, <1>8, <1>9, <1>10, <1>11, <1>12 DEF CourtNext

(* A court that can read the chain, and whose mesh has a steady node and no more
   unsteady ones than it has fallbacks, gives no match up, however its calls
   overlap on the settler they share (sdk/court/index.js settle). *)
THEOREM AGoodNodeIsFound == CourtSpec => []GoodNodeIsFound
<1>1. ASSUME CourtInv PROVE GoodNodeIsFound
  <2> SUFFICES ASSUME NEW c \in Settles, GaveUp(c), Steady # {}
               PROVE  Cardinality(Settlers \ Steady) > Fallbacks
    BY DEF GoodNodeIsFound
  <2>1. settle[c] \in CallType /\ CallOk(settle[c])
    BY <1>1 DEF CourtInv
  <2>2. settle[c].attempt > Fallbacks /\ Cardinality(settle[c].exclude) = settle[c].attempt
    BY <2>1 DEF GaveUp, CallOk, Failed
  <2>3. IsFiniteSet(Settlers \ Steady)
    BY CourtAssumption, FS_Subset
  <2>4. Cardinality(settle[c].exclude) <= Cardinality(Settlers \ Steady)
    BY <2>1, <2>3, FS_Subset DEF CallType
  <2>5. Cardinality(Settlers \ Steady) \in Nat
    BY <2>3, FS_CardinalityType
  <2>6. settle[c].attempt \in Nat /\ Fallbacks \in Nat
    BY <2>1, CourtAssumption DEF CallType
  <2> QED BY <2>2, <2>4, <2>5, <2>6
<1> QED BY <1>1, CourtInitKeeps, CourtStepKeeps, PTL DEF CourtSpec
=============================================================================
