---------------------------- MODULE MatchBookProofs ----------------------------
(***************************************************************************)
(* MatchBook composed with the bonds it slashes is sound for any keys,     *)
(* panels, windows and number of matches: the ledger's books still balance *)
(* while matches cut bonds, a result is final only if replays earned it,   *)
(* nobody is slashed who was not outvoted, a second panel is independent,  *)
(* and every match keeps the promise of MatchOutcome.  If somebody calls   *)
(* what is due, and the windows of the code stand, no match outlasts its   *)
(* windows and no bond leaves before a slash can reach it.                 *)
(***************************************************************************)
EXTENDS MatchBook, NodeStakeProofs

Claimed == {"Settled", "Escalating", "Escalated", "Final"}

(* One match: nothing is claimed or voted before the host settles; the two
   tallies of an open panel count its votes; a final result was earned. *)
Earned(m) ==
    \/ /\ PanelVoters(m) = PanelAgreeing(m)
       /\ Cardinality(PanelAgreeing(m)) >= 2
    \/ Majority(m, match[m].resultHash)

MatchOK(m) ==
    /\ match[m].status # "None" =>
         match[m].hostKey \in Key /\ Cardinality(match[m].panel) = PanelSize
    /\ match[m].status \in {"None", "Committed"} =>
         /\ match[m].resultHash = NoHash
         /\ match[m].attests = 0 /\ match[m].agreeing = 0
         /\ \A k \in Key : voteOf[m][k] = NoHash
    /\ match[m].status \in Claimed => match[m].resultHash \in Hash
    /\ match[m].status = "Settled" =>
         /\ match[m].attests = Cardinality(PanelVoters(m))
         /\ match[m].agreeing = Cardinality(PanelAgreeing(m))
    /\ match[m].status = "Final" => Earned(m)

BookInv == BondInv /\ BookTypeOK /\ \A m \in Match : MatchOK(m)

-----------------------------------------------------------------------------
(* Votes on a panel *)

(* The votes of a panel are finite, and those for the claim are among them. *)
LEMMA PanelSets ==
    ASSUME BookTypeOK, NEW m \in Match
    PROVE  /\ IsFiniteSet(PanelVoters(m)) /\ IsFiniteSet(PanelAgreeing(m))
           /\ Cardinality(PanelAgreeing(m)) \in Nat
           /\ Cardinality(PanelAgreeing(m)) <= Cardinality(PanelVoters(m))
           /\ Cardinality(PanelVoters(m)) \in Nat
           /\ Cardinality(PanelVoters(m)) <= Cardinality(match[m].panel)
           /\ Cardinality(PanelAgreeing(m)) = Cardinality(PanelVoters(m))
                => PanelAgreeing(m) = PanelVoters(m)
<1>1. match[m].panel \subseteq Key /\ IsFiniteSet(Key)
  BY NodeStakeAssumption DEF BookTypeOK, MatchType
<1>2. IsFiniteSet(match[m].panel)
  BY <1>1, FS_Subset
<1>3. PanelVoters(m) \in SUBSET match[m].panel /\ PanelAgreeing(m) \in SUBSET PanelVoters(m)
  BY DEF PanelVoters, PanelAgreeing
<1>4. /\ IsFiniteSet(PanelVoters(m))
      /\ Cardinality(PanelVoters(m)) <= Cardinality(match[m].panel)
  BY <1>2, <1>3, FS_Subset
<1>5. /\ IsFiniteSet(PanelAgreeing(m))
      /\ Cardinality(PanelAgreeing(m)) <= Cardinality(PanelVoters(m))
      /\ Cardinality(PanelVoters(m)) = Cardinality(PanelAgreeing(m))
           => PanelVoters(m) = PanelAgreeing(m)
  BY <1>3, <1>4, FS_Subset
<1> QED BY <1>4, <1>5, FS_CardinalityType

(* A match nothing is written about stays as it was. *)
LEMMA UntouchedStands ==
    ASSUME NEW m \in Match, MatchOK(m), match'[m] = match[m], voteOf'[m] = voteOf[m],
           weightOf'[m] = weightOf[m], nine'[m] = nine[m]
    PROVE  MatchOK(m)'
<1>1. PanelVoters(m)' = PanelVoters(m)
  BY DEF PanelVoters
<1>2. PanelAgreeing(m)' = PanelAgreeing(m)
  BY <1>1 DEF PanelAgreeing
<1>3. Voted(m)' = Voted(m) /\ \A h : For(m, h)' = For(m, h)
  BY DEF Voted, For
<1>4. \A h : Majority(m, h)' = Majority(m, h)
  BY <1>3 DEF Majority, Weight
<1>5. Earned(m)' = Earned(m)
  BY <1>1, <1>2, <1>4 DEF Earned
<1> QED BY <1>1, <1>2, <1>5 DEF MatchOK

(* A call that writes one match keeps the invariant if it keeps it there. *)
LEMMA OneMatchKeeps ==
    ASSUME BookInv, BondInv', NEW m \in Match, NEW r \in MatchType,
           match' = [match EXCEPT ![m] = r], MatchOK(m)',
           voteOf' \in [Match -> [Key -> HashOrNone]],
           weightOf' \in [Match -> [Key -> Nat]], nine' \in [Match -> SUBSET Key],
           \A j \in Match \ {m} :
              voteOf'[j] = voteOf[j] /\ weightOf'[j] = weightOf[j] /\ nine'[j] = nine[j],
           UNCHANGED <<pool, maxPool, params, height>>
    PROVE  BookInv'
<1>1. match \in [Match -> MatchType]
  BY DEF BookInv, BookTypeOK
<1>2. match' \in [Match -> MatchType] /\ \A j \in Match \ {m} : match'[j] = match[j]
  BY <1>1
<1>3. BookTypeOK'
  BY <1>2 DEF BookInv, BookTypeOK
<1>4. ASSUME NEW j \in Match PROVE MatchOK(j)'
  <2>1. CASE j = m
    BY <2>1
  <2>2. CASE j # m
    BY <1>2, <2>2, UntouchedStands DEF BookInv
  <2> QED BY <2>1, <2>2
<1> QED BY <1>3, <1>4 DEF BookInv

(* A step that writes no match keeps what is said of them. *)
LEMMA NoMatchKeeps ==
    ASSUME BookInv, BondInv', UNCHANGED <<match, voteOf, weightOf, nine>>,
           pool' \subseteq Key, maxPool' \in 1..MaxPoolCap,
           params' \in BookTermType, height' \in Nat
    PROVE  BookInv'
<1>1. BookTypeOK'
  BY DEF BookInv, BookTypeOK
<1>2. ASSUME NEW j \in Match PROVE MatchOK(j)'
  BY UntouchedStands DEF BookInv
<1> QED BY <1>1, <1>2 DEF BookInv

(* The record of a match nobody committed is a record. *)
LEMMA NoMatchTyped == NoMatch \in MatchType
<1> QED BY MatchBookAssumption DEF NoMatch, MatchType, Status, HashOrNone, Holder

(* The first state: no match was committed. *)
LEMMA BookInitKeeps == Init /\ BookInit => BookInv
<1> SUFFICES ASSUME Init, BookInit PROVE BookInv
  OBVIOUS
<1>1. BondInv
  BY InitKeeps
<1>2. NoMatch \in MatchType
  BY NoMatchTyped
<1>3. BookTypeOK
  BY <1>2, MatchBookAssumption DEF BookInit, BookTypeOK, HashOrNone
<1>4. ASSUME NEW m \in Match PROVE MatchOK(m)
  BY DEF BookInit, MatchOK, NoMatch, Claimed
<1> QED BY <1>1, <1>3, <1>4 DEF BookInv

-----------------------------------------------------------------------------
(* The invariant, call by call: play *)

(* commit(): a fresh record, with a panel of the right size. *)
LEMMA CommitKeeps ==
    ASSUME BookInv, BondInv', NEW m \in Match, NEW o \in Offers, Commit(m, o[1], o[2])
    PROVE  BookInv'
<1> DEFINE host == o[1]
           panel == o[2]
           r == [[[[[NoMatch EXCEPT !.status = "Committed"] EXCEPT !.hostKey = host]
                   EXCEPT !.hostOperator = Operator(host)] EXCEPT !.panel = panel]
                   EXCEPT !.committedAt = now]
<1>1. host \in Key /\ panel \in SUBSET Key /\ Cardinality(panel) = PanelSize
  BY MatchBookAssumption
<1>2. Operator(host) \in Holder /\ now \in Nat
  BY <1>1 DEF Operator, BookInv, BondInv, TypeOK, BondType
<1>3. /\ r \in MatchType /\ r.status = "Committed" /\ r.panel = panel /\ r.hostKey = host
      /\ r.resultHash = NoHash /\ r.attests = 0 /\ r.agreeing = 0
  <2>1. /\ NoMatch.resultHash = NoHash /\ NoMatch.attests = 0 /\ NoMatch.agreeing = 0
    BY DEF NoMatch
  <2> QED BY <1>1, <1>2, <2>1, NoMatchTyped DEF MatchType, Status
<1>4. /\ match[m].status = "None" /\ match' = [match EXCEPT ![m] = r]
      /\ UNCHANGED <<stakeVars, voteOf, weightOf, nine, pool, maxPool, params, height>>
  <2>1. r = [NoMatch EXCEPT !.status = "Committed", !.hostKey = host,
                            !.hostOperator = Operator(host), !.panel = panel,
                            !.committedAt = now]
    BY NoMatchTyped DEF MatchType
  <2> QED BY <2>1 DEF Commit
<1> HIDE DEF r
<1>5. \A k \in Key : voteOf[m][k] = NoHash
  BY <1>4 DEF BookInv, MatchOK
<1>6. match'[m] = r
  BY <1>4 DEF BookInv, BookTypeOK
<1>7. MatchOK(m)'
  BY <1>1, <1>3, <1>4, <1>5, <1>6 DEF MatchOK, Claimed
<1>8. /\ voteOf \in [Match -> [Key -> HashOrNone]]
      /\ weightOf \in [Match -> [Key -> Nat]] /\ nine \in [Match -> SUBSET Key]
  BY DEF BookInv, BookTypeOK
<1> QED BY <1>3, <1>4, <1>7, <1>8, OneMatchKeeps

(* settle(): the claim, before anybody voted. *)
LEMMA SettleKeeps ==
    ASSUME BookInv, BondInv', NEW m \in Match, NEW h \in Hash, Settle(m, h)
    PROVE  BookInv'
<1> DEFINE r == [[[match[m] EXCEPT !.status = "Settled"] EXCEPT !.resultHash = h]
                   EXCEPT !.settledAt = now]
<1>1. /\ match \in [Match -> MatchType] /\ match[m] \in MatchType /\ now \in Nat
      /\ voteOf \in [Match -> [Key -> HashOrNone]]
      /\ weightOf \in [Match -> [Key -> Nat]] /\ nine \in [Match -> SUBSET Key]
  BY DEF BookInv, BookTypeOK, BondInv, TypeOK
<1>2. /\ match[m].status = "Committed"
      /\ match' = [match EXCEPT ![m] = r]
      /\ UNCHANGED <<stakeVars, voteOf, weightOf, nine, pool, maxPool, params, height>>
  BY <1>1 DEF Settle, Settleable
<1>3. /\ r \in MatchType /\ r.status = "Settled" /\ r.resultHash = h
      /\ r.panel = match[m].panel /\ r.attests = match[m].attests
      /\ r.agreeing = match[m].agreeing /\ r.hostKey = match[m].hostKey
  BY <1>1 DEF MatchType, Status, HashOrNone
<1> HIDE DEF r
<1>4. match'[m] = r
  BY <1>1, <1>2
<1>5. /\ \A k \in Key : voteOf'[m][k] = NoHash
      /\ match[m].attests = 0 /\ match[m].agreeing = 0
      /\ Cardinality(match[m].panel) = PanelSize /\ match[m].panel \subseteq Key
      /\ match[m].hostKey \in Key
  BY <1>1, <1>2 DEF BookInv, MatchOK, MatchType
<1>6. PanelVoters(m)' = {} /\ PanelAgreeing(m)' = {}
  BY <1>3, <1>4, <1>5 DEF PanelVoters, PanelAgreeing
<1>7. MatchOK(m)'
  BY <1>3, <1>4, <1>5, <1>6, FS_EmptySet DEF MatchOK, Claimed
<1> QED BY <1>1, <1>2, <1>3, <1>7, OneMatchKeeps

(* attest() of the panel: both tallies follow the votes. *)
LEMMA PanelAttestKeeps ==
    ASSUME BookInv, BondInv', NEW m \in Match, NEW w \in Key, NEW h \in Hash,
           PanelAttest(m, w, h)
    PROVE  BookInv'
<1> DEFINE claim == match[m].resultHash
           agrees == IF h = claim THEN match[m].agreeing + 1 ELSE match[m].agreeing
           r == [[match[m] EXCEPT !.attests = match[m].attests + 1]
                   EXCEPT !.agreeing = agrees]
<1>1. /\ match \in [Match -> MatchType] /\ match[m] \in MatchType
      /\ voteOf \in [Match -> [Key -> HashOrNone]]
      /\ weightOf \in [Match -> [Key -> Nat]] /\ nine \in [Match -> SUBSET Key]
  BY DEF BookInv, BookTypeOK
<1>2. /\ match[m].status = "Settled" /\ voteOf[m][w] = NoHash /\ w \in match[m].panel
      /\ voteOf' = [voteOf EXCEPT ![m][w] = h]
      /\ UNCHANGED <<stakeVars, weightOf, nine, pool, maxPool, params, height>>
  BY DEF PanelAttest, Unvoted
<1>3. match' = [match EXCEPT ![m] = r]
  BY <1>1 DEF PanelAttest
<1>4. /\ match[m].attests \in Nat /\ match[m].agreeing \in Nat
      /\ match[m].attests = Cardinality(PanelVoters(m))
      /\ match[m].agreeing = Cardinality(PanelAgreeing(m))
      /\ claim \in Hash /\ h # NoHash /\ match[m].hostKey \in Key
      /\ Cardinality(match[m].panel) = PanelSize
  BY <1>1, <1>2, MatchBookAssumption DEF BookInv, MatchOK, Claimed, MatchType
<1>5. /\ r.status = "Settled" /\ r.panel = match[m].panel /\ r.resultHash = claim
      /\ r.attests = match[m].attests + 1 /\ r.agreeing = agrees
      /\ r.hostKey = match[m].hostKey
  BY <1>1, <1>2 DEF MatchType
<1>6. match'[m] = r
  BY <1>1, <1>3
<1>7. /\ voteOf' \in [Match -> [Key -> HashOrNone]]
      /\ \A k \in Key : voteOf'[m][k] = IF k = w THEN h ELSE voteOf[m][k]
      /\ \A j \in Match \ {m} : voteOf'[j] = voteOf[j]
  BY <1>1, <1>2 DEF HashOrNone
<1>8. match[m].panel \subseteq Key
  BY <1>1 DEF MatchType
<1>9. PanelVoters(m)' = PanelVoters(m) \cup {w} /\ w \notin PanelVoters(m)
  <2> HIDE DEF r
  <2> QED BY <1>2, <1>4, <1>5, <1>6, <1>7, <1>8 DEF PanelVoters
<1>10. PanelAgreeing(m)' = IF h = claim THEN PanelAgreeing(m) \cup {w} ELSE PanelAgreeing(m)
  <2> HIDE DEF r
  <2>1. match'[m].resultHash = match[m].resultHash /\ w \notin PanelAgreeing(m)
    BY <1>5, <1>6, <1>9 DEF PanelAgreeing
  <2>2. \A k \in PanelVoters(m) : k \in Key /\ k # w /\ voteOf'[m][k] = voteOf[m][k]
    BY <1>7, <1>8, <1>9 DEF PanelVoters
  <2>3. voteOf'[m][w] = h
    BY <1>7
  <2>4. CASE h = claim
    BY <1>9, <2>1, <2>2, <2>3, <2>4 DEF PanelAgreeing
  <2>5. CASE h # claim
    BY <1>9, <2>1, <2>2, <2>3, <2>5 DEF PanelAgreeing
  <2> QED BY <2>4, <2>5
<1>11. /\ IsFiniteSet(PanelVoters(m)) /\ IsFiniteSet(PanelAgreeing(m))
       /\ w \notin PanelAgreeing(m)
  BY <1>9, PanelSets DEF BookInv, PanelAgreeing
<1>12. /\ Cardinality(PanelVoters(m)') = match[m].attests + 1
       /\ Cardinality(PanelAgreeing(m)') = agrees
  <2>1. /\ Cardinality(PanelVoters(m) \cup {w}) = Cardinality(PanelVoters(m)) + 1
        /\ Cardinality(PanelAgreeing(m) \cup {w}) = Cardinality(PanelAgreeing(m)) + 1
    BY <1>9, <1>11, FS_AddElement
  <2> QED BY <1>4, <1>9, <1>10, <2>1
<1>13. MatchOK(m)'
  <2> HIDE DEF r, agrees
  <2> QED BY <1>4, <1>5, <1>6, <1>12 DEF MatchOK, Claimed
<1>14. r \in MatchType
  <2>1. PanelVoters(m)' \in SUBSET match[m].panel /\ PanelAgreeing(m)' \in SUBSET match[m].panel
    BY <1>2, <1>9, <1>10 DEF PanelVoters, PanelAgreeing
  <2>2. IsFiniteSet(match[m].panel)
    BY <1>8, NodeStakeAssumption, FS_Subset
  <2>3. match[m].attests + 1 <= PanelSize /\ agrees <= PanelSize
    <3> HIDE DEF agrees
    <3> QED BY <1>4, <1>12, <2>1, <2>2, FS_Subset
  <2>4. match[m].attests + 1 \in 0..PanelSize /\ agrees \in 0..PanelSize
    BY <1>4, <2>3, MatchBookAssumption
  <2> HIDE DEF agrees
  <2> QED BY <1>1, <2>4 DEF MatchType
<1> QED
  <2> HIDE DEF r
  <2> QED BY <1>1, <1>2, <1>3, <1>7, <1>13, <1>14, OneMatchKeeps

(* attest() of the second panel: the record itself is not written. *)
LEMMA SeatAttestKeeps ==
    ASSUME BookInv, BondInv', NEW m \in Match, NEW w \in Key, NEW h \in Hash,
           SeatAttest(m, w, h)
    PROVE  BookInv'
<1>1. /\ match \in [Match -> MatchType] /\ match[m] \in MatchType
      /\ voteOf \in [Match -> [Key -> HashOrNone]]
      /\ weightOf \in [Match -> [Key -> Nat]] /\ nine \in [Match -> SUBSET Key]
  BY DEF BookInv, BookTypeOK
<1>2. /\ match[m].status = "Escalated"
      /\ voteOf' = [voteOf EXCEPT ![m][w] = h]
      /\ UNCHANGED <<match, weightOf, nine, pool, maxPool, params, height>>
  BY DEF SeatAttest
<1>3. match' = [match EXCEPT ![m] = match[m]]
  BY <1>1, <1>2
<1>4. /\ voteOf' \in [Match -> [Key -> HashOrNone]]
      /\ \A j \in Match \ {m} : voteOf'[j] = voteOf[j]
  BY <1>1, <1>2 DEF HashOrNone
<1>5. MatchOK(m)'
  BY <1>2 DEF BookInv, MatchOK, Claimed
<1> QED BY <1>1, <1>2, <1>3, <1>4, <1>5, OneMatchKeeps

-----------------------------------------------------------------------------
(* The invariant, call by call: judgement *)

(* What the verdict calls share: the votes stand, and a record that goes on
   with its panel, its claim and its tallies, in a status whose own part of
   the invariant holds. *)
LEMMA RecordKeeps ==
    ASSUME BookInv, BondInv', NEW m \in Match,
           match[m].status \in {"Settled", "Escalating", "Escalated"},
           match' \in [Match -> MatchType],
           match'[m].hostKey = match[m].hostKey, match'[m].panel = match[m].panel,
           match'[m].resultHash = match[m].resultHash,
           match'[m].attests = match[m].attests, match'[m].agreeing = match[m].agreeing,
           match'[m].status # "None", match'[m].status # "Committed",
           match'[m].status = "Settled" => match[m].status = "Settled",
           match'[m].status = "Final" => Earned(m)',
           weightOf' \in [Match -> [Key -> Nat]], nine' \in [Match -> SUBSET Key],
           \A j \in Match \ {m} :
              match'[j] = match[j] /\ weightOf'[j] = weightOf[j] /\ nine'[j] = nine[j],
           UNCHANGED <<voteOf, pool, maxPool, params, height>>
    PROVE  BookInv'
<1>1. /\ match \in [Match -> MatchType] /\ voteOf \in [Match -> [Key -> HashOrNone]]
  BY DEF BookInv, BookTypeOK
<1>2. PICK r \in MatchType : r = match'[m]
  OBVIOUS
<1>3. match' = [match EXCEPT ![m] = r]
  BY <1>1, <1>2
<1>4. PanelVoters(m)' = PanelVoters(m)
  BY DEF PanelVoters
<1>5. PanelAgreeing(m)' = PanelAgreeing(m)
  BY <1>4 DEF PanelAgreeing
<1>6. MatchOK(m)'
  BY <1>4, <1>5 DEF BookInv, MatchOK, Claimed
<1> QED BY <1>1, <1>3, <1>6, OneMatchKeeps

(* finalize(): final only on two agreeing answers and no dissent. *)
LEMMA FinalizeKeeps ==
    ASSUME BookInv, BondInv', NEW m \in Match, Finalize(m)
    PROVE  BookInv'
<1> DEFINE old == match[m]
           won == [old EXCEPT !.status = "Final"]
           longer == [[old EXCEPT !.extended = TRUE] EXCEPT !.settledAt = now]
           drawn == [[[old EXCEPT !.status = "Escalating"] EXCEPT !.finalizedAt = now]
                       EXCEPT !.drawBlock = height + params.drawDelay]
<1>1. /\ match \in [Match -> MatchType] /\ old \in MatchType /\ now \in Nat
      /\ height + params.drawDelay \in Nat
      /\ weightOf \in [Match -> [Key -> Nat]] /\ nine \in [Match -> SUBSET Key]
  BY DEF BookInv, BookTypeOK, BondInv, TypeOK, BookTermType
<1>2. /\ old.status = "Settled"
      /\ UNCHANGED <<stakeVars, voteOf, weightOf, nine, pool, maxPool, params, height>>
  BY DEF Finalize
<1>3. PICK r \in {won, longer, drawn} :
        /\ match' = [match EXCEPT ![m] = r]
        /\ r = won => ~Dissent(m) /\ old.agreeing >= 2
  <2>1. longer = Extended(old)
    BY <1>1 DEF Extended, MatchType
  <2>2. drawn = [old EXCEPT !.status = "Escalating", !.finalizedAt = now,
                            !.drawBlock = height + params.drawDelay]
    BY <1>1 DEF MatchType
  <2>3. won.status = "Final" /\ drawn.status = "Escalating" /\ longer.status = "Settled"
    BY <1>1, <1>2 DEF MatchType
  <2>4. match' = [match EXCEPT ![m] =
         CASE ~Dissent(m) /\ old.agreeing >= 2 -> won
           [] ~Dissent(m) /\ old.agreeing < 2 /\ ~old.extended -> longer
           [] OTHER -> drawn]
    BY <2>1, <2>2 DEF Finalize
  <2> DEFINE first == ~Dissent(m) /\ old.agreeing >= 2
             second == ~Dissent(m) /\ old.agreeing < 2 /\ ~old.extended
  <2>5. ~(first /\ second)
    BY <1>1 DEF MatchType
  <2>6. CASE first
    BY <2>4, <2>5, <2>6
  <2>7. CASE ~first /\ second
    <3>1. match' = [match EXCEPT ![m] = longer]
      BY <2>4, <2>7
    <3>2. longer # won
      <4> HIDE DEF longer, won
      <4> QED BY <2>3
    <3> QED BY <3>1, <3>2
  <2>8. CASE ~first /\ ~second
    <3>1. match' = [match EXCEPT ![m] = drawn]
      BY <2>4, <2>8
    <3>2. drawn # won
      <4> HIDE DEF drawn, won
      <4> QED BY <2>3
    <3> QED BY <3>1, <3>2
  <2> QED BY <2>6, <2>7, <2>8
<1>4. /\ r \in MatchType /\ r.panel = old.panel /\ r.resultHash = old.resultHash
      /\ r.attests = old.attests /\ r.agreeing = old.agreeing /\ r.hostKey = old.hostKey
      /\ r.status = "Escalating" \/ r.status = "Settled" \/ (r.status = "Final" /\ r = won)
  <2>1. CASE r = won
    BY <1>1, <1>2, <2>1 DEF MatchType, Status
  <2>2. CASE r = longer
    BY <1>1, <1>2, <2>2 DEF MatchType, Status
  <2>3. CASE r = drawn
    BY <1>1, <1>2, <2>3 DEF MatchType, Status
  <2> QED BY <1>3, <2>1, <2>2, <2>3
<1>5. ASSUME r.status = "Final" PROVE Earned(m)'
  <2>1. old.agreeing = old.attests /\ old.agreeing >= 2
    BY <1>3, <1>4, <1>5 DEF Dissent
  <2>2. PanelVoters(m) = PanelAgreeing(m) /\ Cardinality(PanelAgreeing(m)) >= 2
    BY <1>2, <2>1, PanelSets DEF BookInv, MatchOK
  <2>3. match'[m].panel = old.panel /\ match'[m].resultHash = old.resultHash
    BY <1>1, <1>3, <1>4
  <2>4. PanelVoters(m)' = PanelVoters(m)
    BY <1>2, <2>3 DEF PanelVoters
  <2>5. PanelAgreeing(m)' = PanelAgreeing(m)
    BY <1>2, <2>3, <2>4 DEF PanelAgreeing
  <2> QED BY <2>2, <2>4, <2>5 DEF Earned
<1> QED
  <2>1. match'[m] = r /\ match' \in [Match -> MatchType]
    BY <1>1, <1>3, <1>4
  <2>2. \A j \in Match \ {m} : match'[j] = match[j]
    BY <1>1, <1>3
  <2> HIDE DEF won, longer, drawn
  <2> QED BY <1>1, <1>2, <1>4, <1>5, <2>1, <2>2, RecordKeeps

(* Every way a match is voided, or sent on with a seated panel. *)
LEMMA StatusKeeps ==
    ASSUME BookInv, BondInv', NEW m \in Match, NEW s, s = "Final" \/ s = "Void",
           match[m].status \in {"Committed", "Settled", "Escalating", "Escalated"},
           match' = [match EXCEPT ![m].status = s],
           UNCHANGED <<voteOf, weightOf, nine, pool, maxPool, params, height>>,
           s = "Final" => match[m].status = "Escalated" /\ Earned(m)'
    PROVE  BookInv'
<1> DEFINE r == [match[m] EXCEPT !.status = s]
<1>1. /\ match \in [Match -> MatchType] /\ match[m] \in MatchType
      /\ voteOf \in [Match -> [Key -> HashOrNone]]
      /\ weightOf \in [Match -> [Key -> Nat]] /\ nine \in [Match -> SUBSET Key]
  BY DEF BookInv, BookTypeOK
<1>2. match' = [match EXCEPT ![m] = r]
  BY <1>1
<1>3. r \in MatchType
  BY <1>1 DEF MatchType, Status
<1>4. /\ r.status = s /\ r.hostKey = match[m].hostKey
      /\ r.panel = match[m].panel /\ r.resultHash = match[m].resultHash
      /\ r.attests = match[m].attests /\ r.agreeing = match[m].agreeing
  BY <1>1 DEF MatchType, Status
<1> HIDE DEF r
<1>5. match'[m] = r
  BY <1>1, <1>2
<1>6. /\ match'[m].status = s /\ match'[m].hostKey = match[m].hostKey
      /\ match'[m].panel = match[m].panel /\ match'[m].resultHash = match[m].resultHash
      /\ match'[m].attests = match[m].attests /\ match'[m].agreeing = match[m].agreeing
  BY <1>4, <1>5
<1>7. CASE match[m].status # "Committed"
  <2>1. match' \in [Match -> MatchType]
    BY <1>1, <1>2, <1>3
  <2>2. \A j \in Match \ {m} : match'[j] = match[j]
    BY <1>1, <1>2
  <2>3. match[m].status \in {"Settled", "Escalating", "Escalated"}
    BY <1>7
  <2> QED BY <1>1, <1>6, <2>1, <2>2, <2>3, RecordKeeps
<1>8. CASE match[m].status = "Committed"
  <2>1. match'[m] = r /\ s = "Void"
    BY <1>1, <1>2, <1>8
  <2>2. MatchOK(m)'
    BY <1>8, <1>6, <2>1 DEF BookInv, MatchOK, Claimed
  <2> QED BY <1>1, <1>2, <1>3, <2>2, OneMatchKeeps
<1> QED BY <1>7, <1>8

(* escalate(): seats the nine with their stakes, or voids the match. *)
LEMMA EscalateKeeps ==
    ASSUME BookInv, BondInv', NEW m \in Match, Escalate(m)
    PROVE  BookInv'
<1>1. /\ match \in [Match -> MatchType] /\ match[m] \in MatchType /\ now \in Nat
      /\ weightOf \in [Match -> [Key -> Nat]] /\ nine \in [Match -> SUBSET Key]
      /\ pool \subseteq Key /\ node \in [Key -> BondType]
  BY DEF BookInv, BookTypeOK, BondInv, TypeOK
<1>2. /\ match[m].status = "Escalating"
      /\ UNCHANGED <<stakeVars, voteOf, pool, maxPool, params, height>>
  BY DEF Escalate
<1>3. ASSUME NEW D \in Draws(m), nine' = [nine EXCEPT ![m] = D],
             weightOf' = [weightOf EXCEPT ![m] =
                            [k \in Key |-> IF k \in D THEN node[k].amount ELSE 0]],
             match' = [match EXCEPT ![m].status = "Escalated", ![m].escalatedAt = now]
      PROVE  BookInv'
  <2> DEFINE r == [[match[m] EXCEPT !.status = "Escalated"] EXCEPT !.escalatedAt = now]
             w == [k \in Key |-> IF k \in D THEN node[k].amount ELSE 0]
  <2>1. match' = [match EXCEPT ![m] = r]
    BY <1>1, <1>3
  <2>2. r \in MatchType
    BY <1>1 DEF MatchType, Status
  <2>3. /\ r.status = "Escalated" /\ r.hostKey = match[m].hostKey
        /\ r.panel = match[m].panel /\ r.resultHash = match[m].resultHash
        /\ r.attests = match[m].attests /\ r.agreeing = match[m].agreeing
    BY <1>1 DEF MatchType, Status
  <2>4. D \in SUBSET Key
    BY <1>1 DEF Draws, Candidates
  <2>5. nine' \in [Match -> SUBSET Key]
        /\ \A j \in Match \ {m} : nine'[j] = nine[j]
    BY <1>1, <1>3, <2>4
  <2>6. w \in [Key -> Nat]
    BY <1>1 DEF BondType
  <2>7. /\ weightOf' \in [Match -> [Key -> Nat]]
        /\ \A j \in Match \ {m} : weightOf'[j] = weightOf[j]
    <3> HIDE DEF w
    <3>1. weightOf' = [weightOf EXCEPT ![m] = w]
      BY <1>3 DEF w
    <3> QED BY <1>1, <2>6, <3>1
  <2> HIDE DEF r
  <2>8. match'[m] = r
    BY <1>1, <2>1
  <2>9. match' \in [Match -> MatchType]
    BY <1>1, <2>1, <2>2
  <2>10. /\ match'[m].status = "Escalated" /\ match'[m].hostKey = match[m].hostKey
        /\ match'[m].panel = match[m].panel /\ match'[m].resultHash = match[m].resultHash
        /\ match'[m].attests = match[m].attests /\ match'[m].agreeing = match[m].agreeing
    BY <2>3, <2>8
  <2>11. \A j \in Match \ {m} : match'[j] = match[j]
    BY <1>1, <2>1
  <2> QED BY <1>2, <2>5, <2>7, <2>11, <2>9, <2>10, RecordKeeps
<1>4. ASSUME Voided(m), UNCHANGED <<nine, weightOf>> PROVE BookInv'
  BY <1>2, <1>4, StatusKeeps DEF Voided
<1> QED BY <1>2, <1>3, <1>4 DEF Escalate

(* resolve(): final only with the majority behind the claim. *)
LEMMA ResolveKeeps ==
    ASSUME BookInv, BondInv', NEW m \in Match, Resolve(m)
    PROVE  BookInv'
<1>1. /\ match \in [Match -> MatchType] /\ match[m] \in MatchType
  BY DEF BookInv, BookTypeOK
<1>2. /\ match[m].status = "Escalated"
      /\ UNCHANGED <<voteOf, weightOf, nine, pool, maxPool, params, height>>
  BY DEF Resolve, VoteClosed
<1>3. ASSUME NEW h \in Hash, Majority(m, h),
             match' = [match EXCEPT ![m].status =
                         IF h = match[m].resultHash THEN "Final" ELSE "Void"]
      PROVE  BookInv'
  <2>1. CASE h = match[m].resultHash
    <3>1. match' = [match EXCEPT ![m].status = "Final"]
      BY <1>3, <2>1
    <3>2. match'[m].resultHash = h
      BY <1>1, <2>1, <3>1 DEF MatchType
    <3>3. Majority(m, h)'
      BY <1>2, <1>3 DEF Majority, For, Voted, Weight
    <3>4. Earned(m)'
      BY <3>2, <3>3 DEF Earned
    <3> QED BY <1>2, <3>1, <3>4, StatusKeeps
  <2>2. CASE h # match[m].resultHash
    <3>1. match' = [match EXCEPT ![m].status = "Void"]
      BY <1>3, <2>2
    <3> QED BY <1>2, <3>1, StatusKeeps
  <2> QED BY <2>1, <2>2
<1>4. ASSUME Voided(m) PROVE BookInv'
  BY <1>2, <1>4, StatusKeeps DEF Voided
<1> QED BY <1>3, <1>4 DEF Resolve

(* expire(): voids a match whose next step never came. *)
LEMMA ExpireKeeps ==
    ASSUME BookInv, BondInv', NEW m \in Match, Expire(m)
    PROVE  BookInv'
<1>1. match[m].status \in {"Committed", "Escalating", "Escalated"}
  BY DEF Expire, Expirable, Expirable_NotSeated
<1> QED BY <1>1, StatusKeeps DEF Expire, Voided

-----------------------------------------------------------------------------
(* The bonds under play *)

(* What resolve() condemns are keys, at rates a slash may have. *)
LEMMA SentenceKeepsBonds ==
    ASSUME BookInv, NEW m \in Match, NEW h \in Hash, match[m].status = "Escalated",
           Sentence(m, h), UNCHANGED <<adjudicators, terms, tokenUp, now>>
    PROVE  BondInv'
<1> DEFINE guilty == Against(m, h) \cup Rejected(m, h)
           rate == [k \in guilty |-> IF k \in Rejected(m, h) THEN params.hostSlashBps
                                                             ELSE params.witnessSlashBps]
<1>1. /\ match[m].panel \subseteq Key /\ nine[m] \subseteq Key /\ match[m].hostKey \in Key
      /\ params.hostSlashBps \in Nat /\ params.witnessSlashBps \in Nat
  BY DEF BookInv, BookTypeOK, MatchType, MatchOK, BookTermType
<1>2. guilty \in SUBSET Key
  BY <1>1 DEF Against, Rejected
<1>3. rate \in [guilty -> Nat]
  BY <1>1
<1>4. IF guilty = {} THEN UNCHANGED <<node, totalActive, wallet, vault>>
                     ELSE SlashAll(Book, rate)
  BY DEF Sentence
<1>5. Book \in Address /\ BondInv
  BY MatchBookAssumption DEF BookInv
<1> HIDE DEF guilty, rate
<1>6. CASE guilty = {}
  BY <1>4, <1>5, <1>6, RestKeeps DEF stakeVars
<1>7. CASE guilty # {}
  BY <1>2, <1>3, <1>4, <1>5, <1>7, SlashKeeps
<1> QED BY <1>6, <1>7

(* Whatever happens to matches and the pool, the ledger's books balance. *)
LEMMA BondsUnderPlay ==
    ASSUME BookInv, BookNext
    PROVE  BondInv'
<1>1. BondInv
  BY DEF BookInv
<1>2. ASSUME UNCHANGED stakeVars PROVE BondInv'
  BY <1>1, <1>2, RestKeeps
<1>3. ASSUME NEW m \in Match, Resolve(m) PROVE BondInv'
  <2>1. match[m].status = "Escalated" /\ UNCHANGED <<adjudicators, terms, tokenUp, now>>
    BY <1>3 DEF Resolve, VoteClosed
  <2>2. CASE \E h \in Hash : Sentence(m, h)
    BY <2>1, <2>2, SentenceKeepsBonds
  <2>3. CASE UNCHANGED <<node, totalActive, wallet, vault>>
    BY <1>2, <2>1, <2>3 DEF stakeVars
  <2> QED BY <1>3, <2>2, <2>3 DEF Resolve
<1>4. ASSUME StakeNext PROVE BondInv'
  BY <1>1, <1>4, OperatorKeeps, RestKeeps DEF StakeNext
<1>5. ASSUME NewBlock PROVE BondInv'
  BY <1>1, <1>5, RestKeeps DEF NewBlock
<1>6. ASSUME PoolNext PROVE BondInv'
  BY <1>2, <1>6 DEF PoolNext, Enroll, LeavePool, Prune, SetMaxPool
<1>7. ASSUME NEW m \in Match, PlayNext(m) PROVE BondInv'
  BY <1>2, <1>7 DEF PlayNext, Commit, Settle, PanelAttest, SeatAttest
<1>8. ASSUME NEW m \in Match, Finalize(m) \/ Escalate(m) \/ Expire(m) PROVE BondInv'
  BY <1>2, <1>8 DEF Finalize, Escalate, Expire
<1>9. ASSUME NEW p \in BookTerms, SetBookParams(p) PROVE BondInv'
  BY <1>2, <1>9 DEF SetBookParams
<1> QED
  BY <1>3, <1>4, <1>5, <1>6, <1>7, <1>8, <1>9 DEF BookNext, CallNext, JudgeNext

(* Calls that write no match: the pool's, the admin's, the bonds', a block. *)
LEMMA AsideKeeps ==
    ASSUME BookInv, BondInv',
           \/ PoolNext
           \/ \E p \in BookTerms : SetBookParams(p)
           \/ StakeNext
           \/ NewBlock
           \/ UNCHANGED vars
    PROVE  BookInv'
<1>1. /\ pool \subseteq Key /\ maxPool \in 1..MaxPoolCap
      /\ params \in BookTermType /\ height \in Nat
  BY DEF BookInv, BookTypeOK
<1>2. ASSUME PoolNext PROVE BookInv'
  <2>1. UNCHANGED <<match, voteOf, weightOf, nine, params, height>>
    BY <1>2 DEF PoolNext, Enroll, LeavePool, Prune, SetMaxPool
  <2>2. pool' \subseteq Key /\ maxPool' \in 1..MaxPoolCap
    BY <1>1, <1>2, MatchBookAssumption DEF PoolNext, Enroll, LeavePool, Prune, SetMaxPool
  <2> QED BY <1>1, <2>1, <2>2, NoMatchKeeps
<1>3. ASSUME NEW p \in BookTerms, SetBookParams(p) PROVE BookInv'
  BY <1>1, <1>3, NoMatchKeeps, MatchBookAssumption DEF SetBookParams
<1>4. ASSUME StakeNext \/ UNCHANGED vars PROVE BookInv'
  BY <1>1, <1>4, NoMatchKeeps DEF StakeNext, bookVars, vars
<1>5. ASSUME NewBlock PROVE BookInv'
  BY <1>1, <1>5, NoMatchKeeps DEF NewBlock
<1> QED BY <1>2, <1>3, <1>4, <1>5

(* Every step of the two contracts keeps the invariant. *)
LEMMA BookStepKeeps == BookInv /\ [BookNext]_vars => BookInv'
<1> SUFFICES ASSUME BookInv, [BookNext]_vars PROVE BookInv'
  OBVIOUS
<1>1. BondInv'
  <2>1. CASE UNCHANGED vars
    BY <2>1, RestKeeps DEF vars, BookInv
  <2> QED BY <2>1, BondsUnderPlay
<1>2. ASSUME NEW m \in Match, PlayNext(m) PROVE BookInv'
  BY <1>1, <1>2, CommitKeeps, SettleKeeps, PanelAttestKeeps, SeatAttestKeeps DEF PlayNext
<1>3. ASSUME NEW m \in Match, JudgeNext(m) PROVE BookInv'
  BY <1>1, <1>3, FinalizeKeeps, EscalateKeeps, ResolveKeeps, ExpireKeeps DEF JudgeNext
<1> QED BY <1>1, <1>2, <1>3, AsideKeeps DEF BookNext, CallNext

(* The invariant holds of every run of the two contracts. *)
THEOREM BookInvariant == BookSpec => []BookInv
<1> QED BY BookInitKeeps, BookStepKeeps, PTL DEF BookSpec

(* Type correctness of MatchBook, for any keys, panels, windows and rates. *)
THEOREM BookTypeCorrect == BookSpec => []BookTypeOK
<1>1. BookInv => BookTypeOK
  BY DEF BookInv
<1> QED BY <1>1, BookInvariant, PTL

(* A final result was carried by two undissented answers of its panel, or by
   most of the weight that voted in the second one. *)
THEOREM FinalsAreEarned == BookSpec => []FinalIsEarned
<1>1. BookInv => FinalIsEarned
  BY DEF BookInv, MatchOK, FinalIsEarned, Earned
<1> QED BY <1>1, BookInvariant, PTL

(* The ledger holds what it owes, and its quorum denominator is right, while
   matches slash it. *)
THEOREM SolventUnderPlay == BookSpec => [](Solvent /\ TotalActiveIsSum)
<1>1. BookInv => Solvent /\ TotalActiveIsSum
  BY DEF BookInv, BondInv
<1> QED BY <1>1, BookInvariant, PTL

-----------------------------------------------------------------------------
(* What a step may do *)

(* Keys of different operators have as many operators as there are keys. *)
LEMMA OperatorsCounted ==
    ASSUME NEW D, IsFiniteSet(D), DistinctOperators(D)
    PROVE  Cardinality(Operators(D)) = Cardinality(D)
<1> DEFINE f == [k \in D |-> Operator(k)]
<1>1. f \in Surjection(D, Operators(D)) /\ f \in Injection(D, Operators(D))
  BY DEF Surjection, Injection, IsInjective, Operators, DistinctOperators
<1> QED BY <1>1, FS_Surjection

(* Only escalate() seats a second panel, and it seats independent keys. *)
LEMMA StepSeats ==
    ASSUME BookInv, BookNext, NEW m \in Match, nine'[m] # nine[m]
    PROVE  /\ Cardinality(Operators(nine'[m])) = Seats
           /\ match[m].hostOperator \notin Operators(nine'[m])
           /\ Operators(nine'[m]) \cap Operators(match[m].panel) = {}
<1>1. nine \in [Match -> SUBSET Key] /\ pool \subseteq Key /\ IsFiniteSet(Key)
  BY NodeStakeAssumption DEF BookInv, BookTypeOK
<1>2. PICK x \in Match : Escalate(x)
  <2>1. ~UNCHANGED nine
    OBVIOUS
  <2>2. ~PoolNext /\ ~StakeNext /\ ~NewBlock /\ \A p \in BookTerms : ~SetBookParams(p)
    BY <2>1 DEF PoolNext, Enroll, LeavePool, Prune, SetMaxPool, StakeNext, bookVars, NewBlock,
                SetBookParams
  <2>3. \A x \in Match : ~PlayNext(x)
    BY <2>1 DEF PlayNext, Commit, Settle, PanelAttest, SeatAttest
  <2>4. \A x \in Match : ~Finalize(x) /\ ~Resolve(x) /\ ~Expire(x)
    BY <2>1 DEF Finalize, Resolve, Expire
  <2> QED BY <2>2, <2>3, <2>4 DEF BookNext, CallNext, JudgeNext
<1>3. PICK D \in Draws(x) : nine' = [nine EXCEPT ![x] = D]
  BY <1>2 DEF Escalate
<1>4. x = m /\ nine'[m] = D
  BY <1>1, <1>3
<1>5. /\ D \in SUBSET Candidates(m) /\ Cardinality(D) = Seats /\ DistinctOperators(D)
  BY <1>3, <1>4 DEF Draws
<1>6. IsFiniteSet(D)
  <2>1. D \in SUBSET Key
    BY <1>1, <1>5 DEF Candidates
  <2> QED BY <1>1, <2>1, FS_Subset
<1>7. Cardinality(Operators(D)) = Seats
  BY <1>5, <1>6, OperatorsCounted
<1>8. \A k \in D : /\ Operator(k) # match[m].hostOperator
                   /\ Operator(k) \notin Operators(match[m].panel)
  BY <1>5 DEF Candidates
<1> QED BY <1>4, <1>7, <1>8 DEF Operators

(* A second panel is independent of the host, of the first panel and within
   itself, when it is seated, for any pool and any operators. *)
THEOREM SeatsIndependent == BookSpec => SeatsAreIndependent
<1>1. BookInv /\ [BookNext]_vars =>
        [\A m \in Match : nine'[m] # nine[m] =>
           /\ Cardinality(Operators(nine'[m])) = Seats
           /\ match[m].hostOperator \notin Operators(nine'[m])
           /\ Operators(nine'[m]) \cap Operators(match[m].panel) = {}]_vars
  BY StepSeats
<1> QED BY <1>1, BookInvariant, PTL DEF BookSpec, SeatsAreIndependent

(* When h has most of the weight that voted, any other hash is outvoted. *)
LEMMA LosersAreOutvoted ==
    ASSUME BookInv, NEW m \in Match, NEW h \in Hash, Majority(m, h),
           NEW v \in Hash, v # h
    PROVE  Outvoted(m, v)
<1> DEFINE A == For(m, h)
           B == For(m, v)
           V == Voted(m)
           w == weightOf[m]
<1>1. nine[m] \subseteq Key /\ \A k \in Key : w[k] \in Nat
  BY DEF BookInv, BookTypeOK
<1>2. A \subseteq V /\ B \subseteq V /\ A \cap B = {} /\ V \subseteq Key
  BY <1>1, MatchBookAssumption DEF For, Voted
<1>3. IsFiniteSet(V) /\ IsFiniteSet(A) /\ IsFiniteSet(B)
  <2>1. IsFiniteSet(Key)
    BY NodeStakeAssumption
  <2>2. IsFiniteSet(V)
    BY <1>2, <2>1, FS_Subset
  <2> QED BY <1>2, <2>2, FS_Subset
<1>4. 2 * TotalOf(A, w) > TotalOf(V, w)
  BY DEF Majority, Weight
<1> HIDE DEF A, B, V, w
<1>5. \A k \in V : w[k] \in Nat
  BY <1>1, <1>2
<1>6. TotalOf(A \cup B, w) = TotalOf(A, w) + TotalOf(B, w)
  BY <1>2, <1>3, <1>5, TotalSplits
<1>7. TotalOf(A \cup B, w) <= TotalOf(V, w)
  BY <1>2, <1>3, <1>5, TotalMonotone
<1>8. TotalOf(A, w) \in Nat /\ TotalOf(B, w) \in Nat /\ TotalOf(V, w) \in Nat
  BY <1>2, <1>3, <1>5, TotalType
<1>9. 2 * TotalOf(B, w) < TotalOf(V, w)
  BY <1>4, <1>6, <1>7, <1>8
<1> QED BY <1>9 DEF Outvoted, Weight, A, B, V, w

(* A bond that shrinks without leaving was cut by resolve(). *)
LEMMA OnlyResolveCuts ==
    ASSUME BookInv, BookNext, NEW k \in Key,
           node'[k].amount < node[k].amount, node'[k].unbondAt = node[k].unbondAt
    PROVE  \E m \in Match : Resolve(m)
<1>1. /\ node \in [Key -> BondType] /\ now \in Nat
      /\ \A j \in Key : node[j].amount \in Nat
  BY DEF BookInv, BondInv, TypeOK, BondType
<1>2. ~UNCHANGED node
  BY <1>1
<1>3. ASSUME NEW a \in Address, NEW j \in Key, OperatorNext(a, j) PROVE FALSE
  <2>1. ASSUME NEW amt \in Nat, NEW r \in BondType, r.amount = node[j].amount,
               node' = [node EXCEPT ![j] = Credited(r, amt)]
        PROVE  FALSE
    <3>1. Credited(r, amt).amount = r.amount + amt
      BY DEF Credited, BondType
    <3> QED BY <1>1, <2>1, <3>1
  <2>2. ASSUME NEW amt \in Amounts, Bond(a, j, amt) PROVE FALSE
    <3>1. [node[j] EXCEPT !.operator = a] \in BondType
      BY <1>1 DEF BondType, Holder
    <3>2. [node[j] EXCEPT !.operator = a].amount = node[j].amount
      BY <1>1 DEF BondType
    <3>3. node' = [node EXCEPT ![j] = Credited([node[j] EXCEPT !.operator = a], amt)]
      BY <2>2 DEF Bond, Add
    <3> QED BY <2>1, <3>1, <3>2, <3>3, NodeStakeAssumption
  <2>3. ASSUME NEW amt \in Amounts, Stake(a, j, amt) PROVE FALSE
    <3>1. node' = [node EXCEPT ![j] = Credited(node[j], amt)]
      BY <2>3 DEF Stake, Add
    <3> QED BY <1>1, <2>1, <3>1, NodeStakeAssumption
  <2>4. ASSUME NEW to, TransferOperator(a, j, to) PROVE FALSE
    BY <1>1, <2>4 DEF TransferOperator, BondType
  <2>5. ASSUME NEW d, SetDelegate(a, j, d) PROVE FALSE
    BY <1>1, <2>5 DEF SetDelegate, BondType
  <2>6. ASSUME Unstake(a, j) PROVE FALSE
    BY <1>1, <2>6 DEF Unstake, BondType
  <2>7. ASSUME Withdraw(a, j) PROVE FALSE
    <3>1. node[j].unbondAt # 0 /\ node' = [node EXCEPT ![j] = Emptied(node[j])]
      BY <1>1, <2>7 DEF Withdraw, Unbonded
    <3>2. Emptied(node[j]).unbondAt = 0
      BY DEF Emptied, Unbound
    <3> QED BY <1>1, <3>1, <3>2
  <2> QED BY <1>3, <2>2, <2>3, <2>4, <2>5, <2>6, <2>7 DEF OperatorNext
<1>4. ~StakeNext
  BY <1>2, <1>3 DEF StakeNext, AdminNext, SetAdjudicator, SetParams, TokenTurns
<1>5. ~NewBlock /\ ~PoolNext /\ \A p \in BookTerms : ~SetBookParams(p)
  BY <1>2 DEF NewBlock, Tick, PoolNext, Enroll, LeavePool, Prune, SetMaxPool, SetBookParams,
              stakeVars
<1>6. \A m \in Match : ~PlayNext(m)
  <2> SUFFICES ASSUME NEW m \in Match PROVE ~PlayNext(m)
    OBVIOUS
  <2>1. \A h, p : ~Commit(m, h, p)
    BY <1>2 DEF Commit, stakeVars
  <2>4. \A h : ~Settle(m, h)
    BY <1>2 DEF Settle, stakeVars
  <2>2. \A w, v : ~PanelAttest(m, w, v)
    BY <1>2 DEF PanelAttest, stakeVars
  <2>3. \A w, v : ~SeatAttest(m, w, v)
    BY <1>2 DEF SeatAttest, stakeVars
  <2> QED BY <2>1, <2>2, <2>3, <2>4 DEF PlayNext
<1>7. \A m \in Match : ~Finalize(m) /\ ~Escalate(m) /\ ~Expire(m)
  BY <1>2 DEF Finalize, Escalate, Expire, stakeVars
<1> QED BY <1>4, <1>5, <1>6, <1>7 DEF BookNext, CallNext, JudgeNext

(* resolve() cuts only the bonds of those the vote went against. *)
LEMMA ResolveCutsLosers ==
    ASSUME BookInv, NEW m \in Match, Resolve(m), NEW k \in Key,
           node'[k].amount < node[k].amount
    PROVE  /\ match[m].status \notin Terminal /\ match'[m].status \in Terminal
           /\ \/ voteOf[m][k] # NoHash /\ Outvoted(m, voteOf[m][k])
              \/ k = match[m].hostKey /\ Outvoted(m, match[m].resultHash)
<1>1. /\ node \in [Key -> BondType] /\ node[k].amount \in Nat
      /\ match \in [Match -> MatchType] /\ voteOf[m][k] \in Hash \cup {NoHash}
  BY DEF BookInv, BookTypeOK, BondInv, TypeOK, BondType, HashOrNone
<1>2. match[m].status = "Escalated" /\ match[m].resultHash \in Hash
  BY DEF Resolve, VoteClosed, BookInv, MatchOK, Claimed
<1>3. ~UNCHANGED node
  BY <1>1
<1>4. PICK h \in Hash :
        /\ Majority(m, h)
        /\ Sentence(m, h)
        /\ match' = [match EXCEPT ![m].status =
                       IF h = match[m].resultHash THEN "Final" ELSE "Void"]
  BY <1>3 DEF Resolve
<1>5. match[m].status \notin Terminal /\ match'[m].status \in Terminal
  BY <1>1, <1>2, <1>4 DEF Terminal, MatchType
<1>6. k \in Against(m, h) \cup Rejected(m, h)
  <2> DEFINE guilty == Against(m, h) \cup Rejected(m, h)
             rate == [j \in guilty |-> IF j \in Rejected(m, h) THEN params.hostSlashBps
                                                               ELSE params.witnessSlashBps]
  <2>1. SlashAll(Book, rate) /\ DOMAIN rate = guilty
    BY <1>3, <1>4 DEF Sentence
  <2> HIDE DEF guilty, rate
  <2>2. k \notin guilty => node'[k] = node[k]
    BY <2>1 DEF SlashAll
  <2>3. k \in guilty
    BY <1>1, <2>2
  <2> QED BY <2>3 DEF guilty
<1>7. CASE k \in Against(m, h)
  <2>1. voteOf[m][k] \in Hash /\ voteOf[m][k] # h
    BY <1>1, <1>7 DEF Against
  <2> QED BY <1>4, <1>5, <2>1, LosersAreOutvoted, MatchBookAssumption
<1>8. CASE k \in Rejected(m, h)
  <2>1. k = match[m].hostKey /\ match[m].resultHash # h
    BY <1>8 DEF Rejected
  <2> QED BY <1>2, <1>4, <1>5, <2>1, LosersAreOutvoted
<1> QED BY <1>6, <1>7, <1>8

(* Nobody's bond is cut who was not outvoted, in any number of matches. *)
THEOREM OnlyTheOutvotedPay == BookSpec => SlashOnlyOutvoted
<1> DEFINE Fair == \A k \in Key :
              (node'[k].amount < node[k].amount /\ node'[k].unbondAt = node[k].unbondAt) =>
                 \E m \in Match :
                    /\ match[m].status \notin Terminal /\ match'[m].status \in Terminal
                    /\ \/ voteOf[m][k] # NoHash /\ Outvoted(m, voteOf[m][k])
                       \/ k = match[m].hostKey /\ Outvoted(m, match[m].resultHash)
<1>1. BookInv /\ [BookNext]_vars => [Fair]_vars
  BY OnlyResolveCuts, ResolveCutsLosers
<1> QED BY <1>1, BookInvariant, PTL DEF BookSpec, SlashOnlyOutvoted

-----------------------------------------------------------------------------
(* MatchBook implements MatchOutcome *)

Claims == [m \in Match |-> match[m].resultHash]
Verdicts == [m \in Match |-> CASE match[m].status = "Final" -> "final"
                               [] match[m].status = "Void" -> "void"
                               [] OTHER -> "open"]

(* The abstract actions, over the state of the contract. *)
LEMMA AbstractActions ==
    ASSUME NEW m \in Match
    PROVE  /\ \A h : Outcome!Claim(m, h) <=>
                /\ Verdicts[m] = "open" /\ Claims[m] = NoHash
                /\ Claims' = [Claims EXCEPT ![m] = h]
                /\ voteOf' = voteOf /\ Verdicts' = Verdicts
           /\ \A k, h : Outcome!Vote(m, k, h) <=>
                /\ Verdicts[m] = "open" /\ Claims[m] # NoHash /\ voteOf[m][k] = NoHash
                /\ voteOf' = [voteOf EXCEPT ![m][k] = h]
                /\ Claims' = Claims /\ Verdicts' = Verdicts
           /\ Outcome!Accept(m) <=>
                /\ Verdicts[m] = "open" /\ Claims[m] # NoHash
                /\ \E k \in Key : voteOf[m][k] = Claims[m]
                /\ Verdicts' = [Verdicts EXCEPT ![m] = "final"]
                /\ Claims' = Claims /\ voteOf' = voteOf
           /\ Outcome!Annul(m) <=>
                /\ Verdicts[m] = "open"
                /\ Verdicts' = [Verdicts EXCEPT ![m] = "void"]
                /\ Claims' = Claims /\ voteOf' = voteOf
<1>1. \A h : Outcome!Claim(m, h) <=>
                /\ Verdicts[m] = "open" /\ Claims[m] = NoHash
                /\ Claims' = [Claims EXCEPT ![m] = h]
                /\ voteOf' = voteOf /\ Verdicts' = Verdicts
  BY DEF Outcome!Claim, Outcome!Open, Claims, Verdicts
<1>2. \A k, h : Outcome!Vote(m, k, h) <=>
                /\ Verdicts[m] = "open" /\ Claims[m] # NoHash /\ voteOf[m][k] = NoHash
                /\ voteOf' = [voteOf EXCEPT ![m][k] = h]
                /\ Claims' = Claims /\ Verdicts' = Verdicts
  BY DEF Outcome!Vote, Outcome!Open, Claims, Verdicts
<1>3. Outcome!Accept(m) <=>
                /\ Verdicts[m] = "open" /\ Claims[m] # NoHash
                /\ \E k \in Key : voteOf[m][k] = Claims[m]
                /\ Verdicts' = [Verdicts EXCEPT ![m] = "final"]
                /\ Claims' = Claims /\ voteOf' = voteOf
  BY DEF Outcome!Accept, Outcome!Open, Claims, Verdicts
<1>4. Outcome!Annul(m) <=>
                /\ Verdicts[m] = "open"
                /\ Verdicts' = [Verdicts EXCEPT ![m] = "void"]
                /\ Claims' = Claims /\ voteOf' = voteOf
  BY DEF Outcome!Annul, Outcome!Open, Claims, Verdicts
<1> QED BY <1>1, <1>2, <1>3, <1>4

(* A step that writes one match changes the abstract state only there. *)
LEMMA OneMatchMaps ==
    ASSUME NEW m \in Match, \A j \in Match \ {m} : match'[j] = match[j]
    PROVE  /\ Claims' = [Claims EXCEPT ![m] = match'[m].resultHash]
           /\ Verdicts' = [Verdicts EXCEPT ![m] = Verdicts'[m]]
           /\ match'[m].resultHash = match[m].resultHash => Claims' = Claims
           /\ Verdicts'[m] = Verdicts[m] => Verdicts' = Verdicts
<1>1. \A j \in Match \ {m} : Claims'[j] = Claims[j] /\ Verdicts'[j] = Verdicts[j]
  BY DEF Claims, Verdicts
<1>2. Claims'[m] = match'[m].resultHash /\ Claims[m] = match[m].resultHash
  BY DEF Claims
<1>3. /\ Claims = [j \in Match |-> Claims[j]] /\ Claims' = [j \in Match |-> Claims'[j]]
      /\ Verdicts = [j \in Match |-> Verdicts[j]]
      /\ Verdicts' = [j \in Match |-> Verdicts'[j]]
  BY DEF Claims, Verdicts
<1> QED BY <1>1, <1>2, <1>3

(* What a match's status says to the reader of the ladder. *)
LEMMA VerdictOfStatus ==
    ASSUME NEW m \in Match
    PROVE  /\ match[m].status = "Final" => Verdicts[m] = "final"
           /\ match[m].status = "Void" => Verdicts[m] = "void"
           /\ match[m].status \notin Terminal => Verdicts[m] = "open"
           /\ Claims[m] = match[m].resultHash
<1> QED BY DEF Verdicts, Claims, Terminal

(* The same, of the next state. *)
LEMMA NextVerdict ==
    ASSUME NEW m \in Match
    PROVE  /\ match'[m].status = "Final" => Verdicts'[m] = "final"
           /\ match'[m].status = "Void" => Verdicts'[m] = "void"
           /\ match'[m].status \notin Terminal => Verdicts'[m] = "open"
<1> QED BY DEF Verdicts, Terminal

(* Before anything happens no claim is made, no vote cast, no verdict given. *)
LEMMA OutcomeInit == Init /\ BookInit => Outcome!Init
<1> SUFFICES ASSUME BookInit PROVE Outcome!Init
  OBVIOUS
<1>1. NoMatch.resultHash = NoHash /\ NoMatch.status = "None"
  BY DEF NoMatch
<1> QED BY <1>1 DEF BookInit, Outcome!Init

(* commit(), settle() and the votes are a stutter, the claim, and a vote. *)
LEMMA PlayMaps ==
    ASSUME BookInv, NEW m \in Match, PlayNext(m)
    PROVE  Outcome!Next \/ UNCHANGED <<Claims, voteOf, Verdicts>>
<1>1. match \in [Match -> MatchType] /\ voteOf \in [Match -> [Key -> HashOrNone]]
  BY DEF BookInv, BookTypeOK
<1>2. ASSUME NEW o \in Offers, Commit(m, o[1], o[2])
      PROVE  UNCHANGED <<Claims, voteOf, Verdicts>>
  <2>1. /\ \A j \in Match \ {m} : match'[j] = match[j]
        /\ voteOf' = voteOf /\ match[m].status = "None"
    BY <1>1, <1>2 DEF Commit
  <2>2. match'[m].resultHash = NoHash /\ match'[m].status = "Committed"
    BY <1>1, <1>2 DEF Commit, NoMatch
  <2>3. match[m].resultHash = NoHash
    BY <2>1 DEF BookInv, MatchOK
  <2>4. Verdicts'[m] = Verdicts[m]
    BY <2>1, <2>2, VerdictOfStatus, NextVerdict DEF Terminal
  <2> QED BY <2>1, <2>2, <2>3, <2>4, OneMatchMaps
<1>3. ASSUME NEW h \in Hash, Settle(m, h) PROVE Outcome!Next
  <2>1. /\ \A j \in Match \ {m} : match'[j] = match[j]
        /\ voteOf' = voteOf /\ match[m].status = "Committed"
    BY <1>1, <1>3 DEF Settle, Settleable
  <2>2. match'[m].resultHash = h /\ match'[m].status = "Settled"
    BY <1>1, <1>3 DEF Settle, MatchType
  <2>3. match[m].resultHash = NoHash
    BY <2>1 DEF BookInv, MatchOK
  <2>4. Verdicts[m] = "open" /\ Verdicts'[m] = "open" /\ Claims[m] = NoHash
    BY <2>1, <2>2, <2>3, VerdictOfStatus, NextVerdict DEF Terminal
  <2>5. Claims' = [Claims EXCEPT ![m] = h] /\ Verdicts' = Verdicts
    BY <2>1, <2>2, <2>4, OneMatchMaps
  <2>6. Outcome!Claim(m, h)
    BY <2>1, <2>4, <2>5, AbstractActions
  <2> QED BY <2>6 DEF Outcome!Next
<1>4. ASSUME NEW w \in Key, NEW h \in Hash, PanelAttest(m, w, h) \/ SeatAttest(m, w, h)
      PROVE  Outcome!Next
  <2>1. /\ \A j \in Match \ {m} : match'[j] = match[j]
        /\ voteOf' = [voteOf EXCEPT ![m][w] = h] /\ voteOf[m][w] = NoHash
        /\ match[m].status \in {"Settled", "Escalated"}
    BY <1>1, <1>4 DEF PanelAttest, SeatAttest, Unvoted
  <2>2. match'[m].resultHash = match[m].resultHash /\ match'[m].status = match[m].status
    BY <1>1, <1>4 DEF PanelAttest, SeatAttest, MatchType
  <2>3. match[m].resultHash # NoHash
    BY <2>1, MatchBookAssumption DEF BookInv, MatchOK, Claimed
  <2>4. Verdicts[m] = "open" /\ Verdicts'[m] = "open" /\ Claims[m] # NoHash
    BY <2>1, <2>2, <2>3, VerdictOfStatus, NextVerdict DEF Terminal
  <2>5. Claims' = Claims /\ Verdicts' = Verdicts
    BY <2>1, <2>2, <2>4, OneMatchMaps
  <2>6. Outcome!Vote(m, w, h)
    BY <2>1, <2>4, <2>5, AbstractActions
  <2> QED BY <2>6 DEF Outcome!Next
<1> QED BY <1>2, <1>3, <1>4 DEF PlayNext

(* finalize(), escalate(), resolve() and expire() accept, annul or stutter. *)
LEMMA JudgeMaps ==
    ASSUME BookInv, BookInv', NEW m \in Match, JudgeNext(m)
    PROVE  Outcome!Next \/ UNCHANGED <<Claims, voteOf, Verdicts>>
<1>1. match \in [Match -> MatchType] /\ nine \in [Match -> SUBSET Key]
  BY DEF BookInv, BookTypeOK
<1>2. /\ \A j \in Match \ {m} : match'[j] = match[j]
      /\ voteOf' = voteOf
      /\ match'[m].resultHash = match[m].resultHash
      /\ match[m].status \notin Terminal
      /\ match[m].status # "None"
      /\ match'[m].status = "Final" =>
            match[m].resultHash \in Hash /\ nine' = nine /\ match'[m].panel = match[m].panel
  <2>1. CASE Finalize(m)
    BY <1>1, <2>1 DEF Finalize, MatchType, Terminal, Extended, BookInv, MatchOK, Claimed
  <2>2. CASE Escalate(m)
    BY <1>1, <2>2 DEF Escalate, Voided, MatchType, Terminal
  <2>3. CASE Resolve(m)
    BY <1>1, <2>3 DEF Resolve, VoteClosed, Voided, MatchType, Terminal, BookInv, MatchOK, Claimed
  <2>4. CASE Expire(m)
    BY <1>1, <2>4 DEF Expire, Expirable, Expirable_NotSeated, Voided, MatchType, Terminal
  <2> QED BY <2>1, <2>2, <2>3, <2>4 DEF JudgeNext
<1>3. Verdicts[m] = "open" /\ Claims' = Claims /\ Claims[m] = match[m].resultHash
  BY <1>2, VerdictOfStatus, OneMatchMaps
<1>4. CASE match'[m].status \notin Terminal
  <2>1. Verdicts'[m] = "open"
    BY <1>4, NextVerdict
  <2> QED BY <1>2, <1>3, <2>1, OneMatchMaps
<1>5. CASE match'[m].status = "Void"
  <2>1. Verdicts' = [Verdicts EXCEPT ![m] = "void"]
    BY <1>2, <1>5, NextVerdict, OneMatchMaps
  <2>2. Outcome!Annul(m)
    BY <1>2, <1>3, <2>1, AbstractActions
  <2> QED BY <2>2 DEF Outcome!Next
<1>6. CASE match'[m].status = "Final"
  <2>1. Verdicts' = [Verdicts EXCEPT ![m] = "final"]
    BY <1>2, <1>6, NextVerdict, OneMatchMaps
  <2>2. Earned(m)' /\ match'[m].panel \subseteq Key
    BY <1>6 DEF BookInv, MatchOK, BookTypeOK, MatchType
  <2>3. \E k \in Key : voteOf[m][k] = match[m].resultHash
    <3>1. CASE PanelAgreeing(m)' # {}
      <4>1. PICK k \in PanelAgreeing(m)' : TRUE
        BY <3>1
      <4> QED BY <1>2, <2>2, <4>1 DEF PanelAgreeing, PanelVoters
    <3>2. CASE PanelAgreeing(m)' = {}
      <4>1. Majority(m, match[m].resultHash)'
        BY <1>2, <2>2, <3>2, FS_EmptySet DEF Earned
      <4>2. PICK k \in For(m, match[m].resultHash)' : TRUE
        BY <4>1 DEF Majority
      <4> QED BY <1>1, <1>2, <1>6, <4>2 DEF For
    <3> QED BY <3>1, <3>2
  <2>4. Claims[m] # NoHash
    BY <1>2, <1>3, <1>6, MatchBookAssumption
  <2>5. \E k \in Key : voteOf[m][k] = Claims[m]
    BY <1>3, <2>3
  <2>6. Outcome!Accept(m)
    BY <1>2, <1>3, <2>1, <2>4, <2>5, AbstractActions, Zenon
  <2> QED BY <2>6 DEF Outcome!Next
<1> QED BY <1>4, <1>5, <1>6 DEF Terminal

(* Every step of the contract is a step of the promise, or none. *)
LEMMA OutcomeStep ==
    ASSUME BookInv, BookInv', [BookNext]_vars
    PROVE  [Outcome!Next]_(Outcome!outcomeVars)
<1>1. UNCHANGED <<Claims, voteOf, Verdicts>> => UNCHANGED Outcome!outcomeVars
  BY DEF Claims, Verdicts, Outcome!outcomeVars
<1>2. UNCHANGED <<match, voteOf>> => UNCHANGED <<Claims, voteOf, Verdicts>>
  BY DEF Claims, Verdicts
<1>3. ASSUME PoolNext \/ StakeNext \/ NewBlock \/ UNCHANGED vars
             \/ \E p \in BookTerms : SetBookParams(p)
      PROVE  UNCHANGED <<match, voteOf>>
  BY <1>3 DEF PoolNext, Enroll, LeavePool, Prune, SetMaxPool, StakeNext, bookVars, vars,
              NewBlock, SetBookParams
<1> QED BY <1>1, <1>2, <1>3, PlayMaps, JudgeMaps DEF BookNext, CallNext

(* MatchBook implements MatchOutcome: one claim, one vote a key, a verdict
   that stands, and no acceptance without a vote for the claim. *)
THEOREM BookImplementsOutcome == BookSpec => OutcomeSpec
<1>1. BookInv /\ BookInv' /\ [BookNext]_vars => [Outcome!Next]_(Outcome!outcomeVars)
  BY OutcomeStep
<1> QED
  BY OutcomeInit, BookInvariant, <1>1, PTL DEF BookSpec, OutcomeSpec, Outcome!Spec

-----------------------------------------------------------------------------
(* In time: among callers that do not sleep, each stage of a match is over at
   most one block, of at most D, after its own deadline.  params are those
   the match was committed under: WindowsStand leaves them alone. *)
WindowsStand == params' = params

SettleBy(m) == match[m].committedAt + params.settleWindow
AttestBy(m, D) == SettleBy(m) + 2 * params.attestWindow + 2 * D
SeatBy(m, D) == AttestBy(m, D) + params.escalationWindow

OnTime(m, D) ==
    /\ match[m].status = "Committed" => now <= SettleBy(m) + D
    /\ match[m].status = "Settled" =>
         /\ match[m].settledAt <= SettleBy(m)
              + IF match[m].extended THEN params.attestWindow + D ELSE 0
         /\ now <= match[m].settledAt + params.attestWindow + D
    /\ match[m].status = "Escalating" =>
         /\ match[m].finalizedAt <= AttestBy(m, D)
         /\ now <= match[m].finalizedAt + params.escalationWindow + D
    /\ match[m].status = "Escalated" =>
         /\ match[m].escalatedAt <= SeatBy(m, D)
         /\ now <= match[m].escalatedAt + 2 * params.escalationWindow + D

(* The numbers of a match and its windows. *)
LEMMA Clocks ==
    ASSUME BookInv, NEW m \in Match
    PROVE  /\ match[m].committedAt \in Nat /\ match[m].settledAt \in Nat
           /\ match[m].finalizedAt \in Nat /\ match[m].escalatedAt \in Nat
           /\ match[m].extended \in BOOLEAN /\ match[m].status \in Status
           /\ params.settleWindow \in Nat /\ params.attestWindow \in Nat
           /\ params.escalationWindow \in Nat /\ now \in Nat
  BY DEF BookInv, BookTypeOK, MatchType, BookTermType, BondInv, TypeOK

(* A stage that is begun in time ends in time when a block is no longer than D. *)
LEMMA BlockOnTime ==
    ASSUME BookInv, NEW D \in Nat, \A d \in BlockTimes : d <= D,
           NEW m \in Match, OnTime(m, D), PromptBlock
    PROVE  OnTime(m, D)'
<1>1. /\ UNCHANGED <<match, params>> /\ ~Due(m) /\ now' \in Nat /\ now' <= now + D
  BY Clocks, NodeStakeAssumption DEF PromptBlock, NewBlock, Tick
<1>2. SettleBy(m)' = SettleBy(m) /\ AttestBy(m, D)' = AttestBy(m, D)
      /\ SeatBy(m, D)' = SeatBy(m, D)
  BY <1>1 DEF SettleBy, AttestBy, SeatBy
<1>3. CASE match[m].status = "Committed"
  <2>1. now <= SettleBy(m)
    BY <1>1, <1>3, Clocks DEF Due, Expirable, Expirable_NotSeated, SettleBy
  <2> QED BY <1>1, <1>2, <1>3, <2>1, Clocks DEF OnTime, SettleBy
<1>4. CASE match[m].status = "Settled"
  <2>1. now <= match[m].settledAt + params.attestWindow
    BY <1>1, <1>4, Clocks DEF Due, AttestOver
  <2> QED BY <1>1, <1>2, <1>4, <2>1, Clocks DEF OnTime
<1>5. CASE match[m].status = "Escalating"
  <2>1. now <= match[m].finalizedAt + params.escalationWindow
    BY <1>1, <1>5, Clocks DEF Due, Expirable, Expirable_NotSeated
  <2> QED BY <1>1, <1>2, <1>5, <2>1, Clocks DEF OnTime
<1>6. CASE match[m].status = "Escalated"
  <2>1. now <= match[m].escalatedAt + 2 * params.escalationWindow
    BY <1>1, <1>6, Clocks DEF Due, Expirable
  <2> QED BY <1>1, <1>2, <1>6, <2>1, Clocks DEF OnTime
<1> QED BY <1>1, <1>3, <1>4, <1>5, <1>6 DEF OnTime

(* A match whose stage and clocks are left alone stays in time. *)
LEMMA SameStageOnTime ==
    ASSUME NEW D, NEW m \in Match, OnTime(m, D), UNCHANGED <<now, params>>,
           match'[m].status = match[m].status,
           match'[m].committedAt = match[m].committedAt,
           match'[m].settledAt = match[m].settledAt,
           match'[m].extended = match[m].extended,
           match'[m].finalizedAt = match[m].finalizedAt,
           match'[m].escalatedAt = match[m].escalatedAt
    PROVE  OnTime(m, D)'
  BY DEF OnTime, SettleBy, AttestBy, SeatBy

(* The calls on the match itself: each begins a stage in time. *)
LEMMA CallOnTime ==
    ASSUME BookInv, NEW D \in Nat, NEW m \in Match, OnTime(m, D),
           UNCHANGED params, PlayNext(m) \/ JudgeNext(m)
    PROVE  OnTime(m, D)'
<1>1. match \in [Match -> MatchType] /\ match[m] \in MatchType
  BY DEF BookInv, BookTypeOK
<1>2. ASSUME NEW h \in Key, NEW p \in SUBSET Key, Commit(m, h, p) PROVE OnTime(m, D)'
  <2>1. /\ match'[m].status = "Committed" /\ match'[m].committedAt = now /\ now' = now
    BY <1>1, <1>2 DEF Commit, NoMatch, stakeVars
  <2> QED BY <2>1, Clocks DEF OnTime, SettleBy
<1>3. ASSUME NEW h \in Hash, Settle(m, h) PROVE OnTime(m, D)'
  <2>1. /\ match'[m].status = "Settled" /\ match'[m].committedAt = match[m].committedAt
        /\ match'[m].settledAt = now /\ match'[m].extended = match[m].extended /\ now' = now
    BY <1>1, <1>3 DEF Settle, MatchType, stakeVars
  <2>2. now <= SettleBy(m)
    BY <1>3 DEF Settle, SettleBy
  <2>3. SettleBy(m)' = SettleBy(m) /\ SettleBy(m) \in Nat
    BY <2>1, Clocks DEF SettleBy
  <2> QED BY <2>1, <2>2, <2>3, Clocks DEF OnTime
<1>4. ASSUME NEW w \in Key, NEW h \in Hash, PanelAttest(m, w, h) PROVE OnTime(m, D)'
  <2>1. /\ match'[m].status = match[m].status /\ match'[m].committedAt = match[m].committedAt
        /\ match'[m].settledAt = match[m].settledAt /\ match'[m].extended = match[m].extended
        /\ match'[m].finalizedAt = match[m].finalizedAt
        /\ match'[m].escalatedAt = match[m].escalatedAt /\ now' = now
    BY <1>1, <1>4 DEF PanelAttest, MatchType, stakeVars
  <2> QED BY <2>1, SameStageOnTime
<1>5. ASSUME NEW w \in Key, NEW h \in Hash, SeatAttest(m, w, h) PROVE OnTime(m, D)'
  BY <1>5, SameStageOnTime DEF SeatAttest, stakeVars
<1>6. ASSUME Finalize(m) PROVE OnTime(m, D)'
  <2>1. /\ match[m].status = "Settled" /\ now' = now
    BY <1>6 DEF Finalize, stakeVars
  <2>2. \/ match'[m].status = "Final"
        \/ /\ match'[m].status = "Settled" /\ match'[m].committedAt = match[m].committedAt
           /\ match'[m].settledAt = now /\ match'[m].extended /\ ~match[m].extended
        \/ /\ match'[m].status = "Escalating" /\ match'[m].committedAt = match[m].committedAt
           /\ match'[m].finalizedAt = now
    BY <1>1, <1>6 DEF Finalize, Extended, MatchType
  <2>3. /\ match[m].settledAt <= SettleBy(m)
              + IF match[m].extended THEN params.attestWindow + D ELSE 0
        /\ now <= match[m].settledAt + params.attestWindow + D
    BY <2>1 DEF OnTime
  <2>4. CASE match'[m].status = "Final"
    BY <2>4 DEF OnTime
  <2>5. CASE /\ match'[m].status = "Settled" /\ match'[m].committedAt = match[m].committedAt
             /\ match'[m].settledAt = now /\ match'[m].extended /\ ~match[m].extended
    <3>1. SettleBy(m)' = SettleBy(m) /\ SettleBy(m) \in Nat
      BY <2>5, Clocks DEF SettleBy
    <3>2. now <= SettleBy(m) + params.attestWindow + D
      BY <2>3, <2>5, <3>1, Clocks
    <3> QED BY <2>1, <2>5, <3>1, <3>2, Clocks DEF OnTime
  <2>6. CASE /\ match'[m].status = "Escalating" /\ match'[m].committedAt = match[m].committedAt
             /\ match'[m].finalizedAt = now
    <3>1. SettleBy(m) \in Nat /\ AttestBy(m, D)' = AttestBy(m, D)
      BY <2>6, Clocks DEF SettleBy, AttestBy
    <3>2. now <= AttestBy(m, D)
      BY <2>3, <3>1, Clocks DEF AttestBy
    <3> QED BY <2>1, <2>6, <3>1, <3>2, Clocks DEF OnTime
  <2> QED BY <2>2, <2>4, <2>5, <2>6
<1>7. ASSUME Escalate(m) PROVE OnTime(m, D)'
  <2>1. /\ match[m].status = "Escalating" /\ now' = now
        /\ now <= match[m].finalizedAt + params.escalationWindow
    BY <1>7 DEF Escalate, stakeVars
  <2>2. \/ match'[m].status = "Void"
        \/ /\ match'[m].status = "Escalated" /\ match'[m].committedAt = match[m].committedAt
           /\ match'[m].escalatedAt = now
    BY <1>1, <1>7 DEF Escalate, Voided, MatchType
  <2>3. now <= SeatBy(m, D)
    BY <2>1, Clocks DEF OnTime, SeatBy, AttestBy, SettleBy
  <2>4. CASE match'[m].status = "Void"
    BY <2>4 DEF OnTime
  <2>5. CASE /\ match'[m].status = "Escalated" /\ match'[m].committedAt = match[m].committedAt
             /\ match'[m].escalatedAt = now
    <3>1. SeatBy(m, D)' = SeatBy(m, D)
      BY <2>5 DEF SeatBy, AttestBy, SettleBy
    <3> QED BY <2>1, <2>3, <2>5, <3>1, Clocks DEF OnTime
  <2> QED BY <2>2, <2>4, <2>5
<1>8. ASSUME Resolve(m) \/ Expire(m) PROVE OnTime(m, D)'
  <2>1. match'[m].status \in {"Final", "Void"}
    BY <1>1, <1>8 DEF Resolve, Expire, Voided, MatchType
  <2> QED BY <2>1 DEF OnTime
<1>9. ASSUME PlayNext(m) PROVE OnTime(m, D)'
  <2>1. \A o \in Offers : o[1] \in Key /\ o[2] \in SUBSET Key
    BY MatchBookAssumption
  <2> QED BY <1>2, <1>3, <1>4, <1>5, <1>9, <2>1 DEF PlayNext
<1> QED BY <1>6, <1>7, <1>8, <1>9 DEF JudgeNext

(* A call on another match, or on none, leaves this one's clocks alone. *)
LEMMA AsideOnTime ==
    ASSUME BookInv, NEW D \in Nat, NEW m \in Match, OnTime(m, D), UNCHANGED params,
           \/ \E j \in Match \ {m} : PlayNext(j) \/ JudgeNext(j)
           \/ PoolNext
           \/ \E p \in BookTerms : SetBookParams(p)
           \/ StakeNext
           \/ UNCHANGED vars
    PROVE  OnTime(m, D)'
<1>1. match \in [Match -> MatchType]
  BY DEF BookInv, BookTypeOK
<1>2. now' = now /\ match'[m] = match[m]
  <2>1. ASSUME NEW j \in Match \ {m}, PlayNext(j) PROVE now' = now /\ match'[m] = match[m]
    BY <1>1, <2>1 DEF PlayNext, Commit, Settle, PanelAttest, SeatAttest, stakeVars
  <2>2. ASSUME NEW j \in Match \ {m}, JudgeNext(j) PROVE now' = now /\ match'[m] = match[m]
    <3>1. CASE Finalize(j)
      BY <1>1, <3>1 DEF Finalize, stakeVars
    <3>2. CASE Escalate(j)
      BY <1>1, <3>2 DEF Escalate, Voided, stakeVars
    <3>3. CASE Resolve(j) \/ Expire(j)
      BY <1>1, <3>3 DEF Resolve, Expire, Voided, stakeVars
    <3> QED BY <2>2, <3>1, <3>2, <3>3 DEF JudgeNext
  <2>3. CASE PoolNext \/ \E p \in BookTerms : SetBookParams(p)
    BY <2>3 DEF PoolNext, Enroll, LeavePool, Prune, SetMaxPool, SetBookParams, stakeVars
  <2>4. CASE StakeNext
    BY <2>4 DEF StakeNext, OperatorNext, AdminNext, TokenTurns, Bond, Stake, TransferOperator,
                SetDelegate, Unstake, Withdraw, SetAdjudicator, SetParams, bookVars
  <2>5. CASE UNCHANGED vars
    BY <2>5 DEF vars, stakeVars, bookVars
  <2> QED BY <2>1, <2>2, <2>3, <2>4, <2>5
<1> QED BY <1>2, SameStageOnTime

(* The invariant of prompt callers: every match is in time, under the windows
   the contract was deployed with. *)
PromptInv(D) ==
    /\ BookInv
    /\ params = BookGenesis.params
    /\ \A m \in Match : OnTime(m, D)

LEMMA PromptInitKeeps == Init /\ BookInit => \A D : PromptInv(D)
<1> SUFFICES ASSUME Init, BookInit, NEW D PROVE PromptInv(D)
  OBVIOUS
<1>1. \A m \in Match : match[m].status = "None"
  BY DEF BookInit, NoMatch
<1> QED BY <1>1, BookInitKeeps DEF PromptInv, BookInit, OnTime

(* A prompt step is a step of the contracts. *)
LEMMA PromptIsBook == [PromptNext]_vars => [BookNext]_vars
  BY DEF PromptNext, PromptBlock, BookNext

LEMMA PromptStepKeeps ==
    ASSUME NEW D \in BlockTimes, \A d \in BlockTimes : d <= D,
           PromptInv(D), [PromptNext]_vars, [WindowsStand]_vars
    PROVE  PromptInv(D)'
<1>1. BookInv' /\ D \in Nat
  BY PromptIsBook, BookStepKeeps, NodeStakeAssumption DEF PromptInv
<1>2. UNCHANGED params
  BY DEF WindowsStand, vars, bookVars
<1>3. ASSUME NEW m \in Match PROVE OnTime(m, D)'
  <2>1. BookInv /\ OnTime(m, D)
    BY DEF PromptInv
  <2>2. CASE PromptBlock
    BY <1>1, <2>1, <2>2, BlockOnTime
  <2>3. CASE PlayNext(m) \/ JudgeNext(m)
    BY <1>1, <1>2, <2>1, <2>3, CallOnTime
  <2>4. CASE \/ \E j \in Match \ {m} : PlayNext(j) \/ JudgeNext(j)
             \/ PoolNext
             \/ \E p \in BookTerms : SetBookParams(p)
             \/ StakeNext
             \/ UNCHANGED vars
    BY <1>1, <1>2, <2>1, <2>4, AsideOnTime
  <2> QED BY <2>2, <2>3, <2>4 DEF PromptNext, CallNext
<1> QED BY <1>1, <1>2, <1>3 DEF PromptInv

(* What in time comes to: the whole life of an open match is bounded. *)
LEMMA InTimeIsBounded ==
    ASSUME BookInv, NEW D \in Nat, NEW m \in Match, OnTime(m, D),
           match[m].status \notin Terminal \cup {"None"}
    PROVE  now <= match[m].committedAt + TotalWindow + 3 * D
<1>1. match[m].status \in {"Committed", "Settled", "Escalating", "Escalated"}
  BY Clocks DEF Terminal, Status
<1> QED BY <1>1, Clocks DEF OnTime, TotalWindow, SeatBy, AttestBy, SettleBy

(* totalWindow() and three blocks: no match outlives them among callers that
   do not sleep, while the admin leaves the windows alone. *)
THEOREM MatchesEndInTime ==
    ASSUME NEW D \in BlockTimes, \A d \in BlockTimes : d <= D
    PROVE  PromptSpec /\ [][WindowsStand]_vars => []DecidedInTime
<1>1. Init /\ BookInit => PromptInv(D)
  BY PromptInitKeeps
<1>2. PromptInv(D) /\ [PromptNext]_vars /\ [WindowsStand]_vars => PromptInv(D)'
  BY PromptStepKeeps
<1>3. PromptInv(D) => DecidedInTime
  BY InTimeIsBounded, NodeStakeAssumption DEF PromptInv, DecidedInTime
<1> QED BY <1>1, <1>2, <1>3, PTL DEF PromptSpec

-----------------------------------------------------------------------------
(* Long: totalWindow() and three blocks of D, with the windows the contract
   was deployed with.  A party of an open match is bonded, and if it began to
   leave, it is held until the match must be over. *)
Long(D) ==
    LET p == BookGenesis.params
    IN  p.settleWindow + 2 * p.attestWindow + 3 * p.escalationWindow + 3 * D

Parties(m) ==
    {match[m].hostKey} \cup match[m].panel
      \cup (IF match[m].status = "Escalated" THEN nine[m] ELSE {})
Open(m) == match[m].status \notin Terminal \cup {"None"}

Held(k, c, L) ==
    /\ node[k].amount > 0
    /\ node[k].unbondAt = 0 \/ node[k].unbondAt > c + L
AreHeld(m, L) ==
    Open(m) => /\ match[m].committedAt <= now
               /\ \A k \in Parties(m) : Held(k, match[m].committedAt, L)

(* The rates leave something of every bond they cut. *)
Lenient == params.hostSlashBps < BPS /\ params.witnessSlashBps < BPS

(* A rate below the whole leaves something of every bond. *)
LEMMA CutLeaves ==
    ASSUME NEW x \in Nat, x > 0, NEW bps \in 0..BPS, bps < BPS
    PROVE  (x * bps) \div BPS \in 0..(x - 1)
<1>1. bps \in 0..9999
  BY SMT DEF BPS
<1>2. x * bps \in Nat /\ x * bps <= x * 9999
  BY <1>1, SMT
<1> DEFINE p == x * bps
<1>3. p \in Nat /\ p <= x * 9999
  BY <1>2
<1> HIDE DEF p
<1>4. p \div 10000 \in 0..(x - 1)
  BY <1>3, SMT
<1> QED BY <1>4 DEF p, BPS

(* A sentence below the whole leaves every bond bonded. *)
LEMMA SentenceLeaves ==
    ASSUME BookInv, Lenient, NEW m \in Match, match[m].status = "Escalated",
           NEW h \in Hash, Sentence(m, h), NEW k \in Key, node[k].amount > 0
    PROVE  node'[k].amount > 0 /\ node'[k].unbondAt = node[k].unbondAt
<1> DEFINE guilty == Against(m, h) \cup Rejected(m, h)
           rate == [j \in guilty |-> IF j \in Rejected(m, h) THEN params.hostSlashBps
                                                             ELSE params.witnessSlashBps]
<1>1. /\ node \in [Key -> BondType] /\ node[k].amount \in Nat
      /\ params.hostSlashBps \in 0..BPS /\ params.witnessSlashBps \in 0..BPS
  BY DEF BookInv, BookTypeOK, BookTermType, BondInv, TypeOK, BondType
<1>2. CASE guilty = {}
  BY <1>2 DEF Sentence
<1>3. CASE guilty # {}
  <2>1. SlashAll(Book, rate) /\ DOMAIN rate = guilty
    BY <1>3 DEF Sentence
  <2>2. \A j \in guilty : rate[j] \in 0..BPS /\ rate[j] < BPS
    BY <1>1 DEF Lenient
  <2> HIDE DEF guilty, rate
  <2>3. CASE k \notin guilty
    <3>1. node'[k] = node[k]
      BY <2>1, <2>3 DEF SlashAll
    <3> QED BY <3>1
  <2>4. CASE k \in guilty
    <3>1. node'[k] = [node[k] EXCEPT !.amount = @ - Cut(k, rate[k])]
      BY <2>1, <2>4 DEF SlashAll
    <3>2. Cut(k, rate[k]) \in 0..(node[k].amount - 1)
      BY <1>1, <2>2, <2>4, CutLeaves DEF Cut
    <3>3. /\ node'[k].amount = node[k].amount - Cut(k, rate[k])
          /\ node'[k].unbondAt = node[k].unbondAt
      BY <1>1, <3>1 DEF BondType
    <3> QED BY <1>1, <3>2, <3>3
  <2> QED BY <2>3, <2>4
<1> QED BY <1>2, <1>3

(* Nothing an operator, an admin or the token does frees a held bond. *)
LEMMA StakeCallsHold ==
    ASSUME BookInv, StakeNext, NEW k \in Key, NEW c \in Nat, NEW L \in Nat,
           c <= now, now <= c + L, Held(k, c, L),
           \A t \in EverInForce : t.unbondingPeriod > L
    PROVE  Held(k, c, L)'
<1>1. /\ node \in [Key -> BondType] /\ now \in Nat
      /\ \A j \in Key : node[j].amount \in Nat /\ node[j].unbondAt \in Nat
      /\ terms \in EverInForce /\ terms.unbondingPeriod \in Nat
  BY DEF BookInv, BondInv, TypeOK, BondType, TermType, TermServed
<1>2. ASSUME node'[k].amount >= node[k].amount, node'[k].amount \in Nat,
             node'[k].unbondAt = node[k].unbondAt
      PROVE  Held(k, c, L)'
  BY <1>1, <1>2 DEF Held
<1>3. ASSUME NEW a \in Address, NEW j \in Key, OperatorNext(a, j) PROVE Held(k, c, L)'
  <2>1. ASSUME NEW amt \in Nat, NEW r \in BondType, r.amount = node[j].amount,
               r.unbondAt = node[j].unbondAt,
               node' = [node EXCEPT ![j] = Credited(r, amt)]
        PROVE  Held(k, c, L)'
    <3>1. Credited(r, amt).amount = r.amount + amt /\ Credited(r, amt).unbondAt = r.unbondAt
      BY DEF Credited, BondType
    <3> QED BY <1>1, <1>2, <2>1, <3>1
  <2>2. ASSUME NEW amt \in Amounts, Bond(a, j, amt) PROVE Held(k, c, L)'
    <3>1. [node[j] EXCEPT !.operator = a] \in BondType
      BY <1>1 DEF BondType, Holder
    <3>2. /\ [node[j] EXCEPT !.operator = a].amount = node[j].amount
          /\ [node[j] EXCEPT !.operator = a].unbondAt = node[j].unbondAt
      BY <1>1 DEF BondType
    <3>3. node' = [node EXCEPT ![j] = Credited([node[j] EXCEPT !.operator = a], amt)]
      BY <2>2 DEF Bond, Add
    <3> QED BY <2>1, <3>1, <3>2, <3>3, NodeStakeAssumption
  <2>3. ASSUME NEW amt \in Amounts, Stake(a, j, amt) PROVE Held(k, c, L)'
    <3>1. node' = [node EXCEPT ![j] = Credited(node[j], amt)]
      BY <2>3 DEF Stake, Add
    <3> QED BY <1>1, <2>1, <3>1, NodeStakeAssumption
  <2>4. ASSUME NEW to, TransferOperator(a, j, to) PROVE Held(k, c, L)'
    <3>1. /\ node'[k].amount = node[k].amount /\ node'[k].unbondAt = node[k].unbondAt
      BY <1>1, <2>4 DEF TransferOperator, BondType
    <3> QED BY <1>1, <1>2, <3>1
  <2>5. ASSUME NEW d, SetDelegate(a, j, d) PROVE Held(k, c, L)'
    <3>1. /\ node'[k].amount = node[k].amount /\ node'[k].unbondAt = node[k].unbondAt
      BY <1>1, <2>5 DEF SetDelegate, BondType
    <3> QED BY <1>1, <1>2, <3>1
  <2>6. ASSUME Unstake(a, j) PROVE Held(k, c, L)'
    <3>1. CASE j = k
      <4>1. node'[k].amount = node[k].amount /\ node'[k].unbondAt = now + terms.unbondingPeriod
        BY <1>1, <2>6, <3>1 DEF Unstake, BondType
      <4>2. terms.unbondingPeriod > L
        BY <1>1
      <4> QED BY <1>1, <4>1, <4>2 DEF Held
    <3>2. CASE j # k
      <4>1. node'[k] = node[k]
        BY <1>1, <2>6, <3>2 DEF Unstake
      <4> QED BY <1>1, <1>2, <4>1
    <3> QED BY <3>1, <3>2
  <2>7. ASSUME Withdraw(a, j) PROVE Held(k, c, L)'
    <3>1. j # k
      BY <1>1, <2>7 DEF Withdraw, Unbonded, Held
    <3>2. node'[k] = node[k]
      BY <1>1, <2>7, <3>1 DEF Withdraw
    <3> QED BY <1>1, <1>2, <3>2
  <2> QED BY <1>3, <2>2, <2>3, <2>4, <2>5, <2>6, <2>7 DEF OperatorNext
<1>4. ASSUME UNCHANGED node PROVE Held(k, c, L)'
  BY <1>1, <1>2, <1>4
<1> QED BY <1>3, <1>4 DEF StakeNext, AdminNext, SetAdjudicator, SetParams, TokenTurns

(* Parties that stay parties, and keep what is held of them, stay held. *)
LEMMA PartiesStay ==
    ASSUME NEW L, NEW m \in Match, AreHeld(m, L), now \in Nat, now' \in Nat, now <= now',
           match[m].committedAt \in Nat,
           Open(m)' => /\ Open(m)
                       /\ match'[m].committedAt = match[m].committedAt
                       /\ Parties(m)' \subseteq Parties(m),
           \A k \in Parties(m) :
              Open(m) /\ Held(k, match[m].committedAt, L) =>
                 /\ node'[k].amount > 0
                 /\ node'[k].unbondAt = 0 \/ node'[k].unbondAt > match[m].committedAt + L
    PROVE  AreHeld(m, L)'
<1> SUFFICES ASSUME Open(m)'
             PROVE  /\ match'[m].committedAt <= now'
                    /\ \A k \in Parties(m)' : Held(k, match[m].committedAt, L)'
  BY DEF AreHeld
<1>1. match'[m].committedAt = match[m].committedAt /\ match[m].committedAt <= now
  BY DEF AreHeld
<1>2. ASSUME NEW k \in Parties(m)' PROVE Held(k, match[m].committedAt, L)'
  <2>1. k \in Parties(m) /\ Held(k, match[m].committedAt, L) /\ Open(m)
    BY <1>2 DEF AreHeld
  <2>2. /\ node'[k].amount > 0
        /\ node'[k].unbondAt = 0 \/ node'[k].unbondAt > match[m].committedAt + L
    BY <2>1
  <2> QED BY <1>1, <2>2 DEF Held
<1> QED BY <1>1, <1>2

(* Everyone a match names is a key. *)
LEMMA PartiesAreKeys ==
    ASSUME BookInv, NEW m \in Match, Open(m)
    PROVE  Parties(m) \subseteq Key
  BY DEF BookInv, BookTypeOK, MatchOK, MatchType, Parties, Open

(* The calls on the match itself: commit() and escalate() name keys that are
   bonded and not leaving; the others name nobody new. *)
LEMMA OwnCallHolds ==
    ASSUME BookInv, NEW L, NEW m \in Match, AreHeld(m, L),
           \A t \in EverInForce : t.minStake > 0,
           PlayNext(m) \/ JudgeNext(m)
    PROVE  AreHeld(m, L)'
<1>1. /\ match \in [Match -> MatchType] /\ match[m] \in MatchType /\ now \in Nat
      /\ \A k \in Key : node[k].amount \in Nat /\ node[k].unbondAt \in Nat
      /\ terms \in EverInForce /\ terms.minStake \in Nat
      /\ nine \in [Match -> SUBSET Key] /\ match[m].committedAt \in Nat
  BY DEF BookInv, BookTypeOK, BondInv, TypeOK, BondType, TermType, TermServed, MatchType
<1>2. \A k \in Key : Active(k) => node[k].amount > 0 /\ node[k].unbondAt = 0
  BY <1>1 DEF Active
<1>3. ASSUME UNCHANGED <<node, now>>,
             Open(m)' => /\ Open(m)
                         /\ match'[m].committedAt = match[m].committedAt
                         /\ Parties(m)' \subseteq Parties(m)
      PROVE  AreHeld(m, L)'
  BY <1>1, <1>3, PartiesStay DEF Held
<1>4. ASSUME NEW h \in Key, NEW p \in SUBSET Key, Commit(m, h, p) PROVE AreHeld(m, L)'
  <2>1. /\ match'[m].status = "Committed" /\ match'[m].committedAt = now
        /\ match'[m].hostKey = h /\ match'[m].panel = p /\ UNCHANGED <<now, node>>
    BY <1>1, <1>4 DEF Commit, NoMatch, stakeVars
  <2>2. Active(h) /\ \A w \in p : Active(w)
    BY <1>4 DEF Commit, WitnessEligible
  <2>3. Parties(m)' = {h} \cup p
    BY <2>1 DEF Parties
  <2> QED BY <1>1, <1>2, <2>1, <2>2, <2>3 DEF AreHeld, Held
<1>5. ASSUME NEW h \in Hash, Settle(m, h) PROVE AreHeld(m, L)'
  <2>1. /\ match[m].status = "Committed" /\ match'[m].status = "Settled"
        /\ match'[m].committedAt = match[m].committedAt
        /\ match'[m].hostKey = match[m].hostKey /\ match'[m].panel = match[m].panel
        /\ UNCHANGED <<now, node>>
    BY <1>1, <1>5 DEF Settle, Settleable, MatchType, stakeVars
  <2> QED BY <1>3, <2>1 DEF Parties, Open, Terminal
<1>6. ASSUME NEW w \in Key, NEW h \in Hash, PanelAttest(m, w, h) PROVE AreHeld(m, L)'
  <2>1. /\ match'[m].status = match[m].status
        /\ match'[m].committedAt = match[m].committedAt
        /\ match'[m].hostKey = match[m].hostKey /\ match'[m].panel = match[m].panel
        /\ UNCHANGED <<now, node, nine>>
    BY <1>1, <1>6 DEF PanelAttest, MatchType, stakeVars
  <2> QED BY <1>3, <2>1 DEF Parties, Open
<1>7. ASSUME NEW w \in Key, NEW h \in Hash, SeatAttest(m, w, h) PROVE AreHeld(m, L)'
  BY <1>3, <1>7 DEF SeatAttest, stakeVars, Parties, Open
<1>8. ASSUME Finalize(m) PROVE AreHeld(m, L)'
  <2>1. /\ match[m].status = "Settled" /\ match'[m].status \in {"Final", "Settled", "Escalating"}
        /\ match'[m].committedAt = match[m].committedAt
        /\ match'[m].hostKey = match[m].hostKey /\ match'[m].panel = match[m].panel
        /\ UNCHANGED <<now, node>>
    BY <1>1, <1>8 DEF Finalize, Extended, MatchType, stakeVars
  <2> QED BY <1>3, <2>1 DEF Parties, Open, Terminal
<1>9. ASSUME Escalate(m) PROVE AreHeld(m, L)'
  <2>1. match[m].status = "Escalating" /\ UNCHANGED <<now, node>>
    BY <1>9 DEF Escalate, stakeVars
  <2>2. CASE match'[m].status = "Void"
    BY <2>2 DEF AreHeld, Open, Terminal
  <2>3. CASE match'[m].status # "Void"
    <3>1. PICK D \in Draws(m) :
            /\ nine' = [nine EXCEPT ![m] = D]
            /\ match' = [match EXCEPT ![m].status = "Escalated", ![m].escalatedAt = now]
      BY <1>1, <1>9, <2>3 DEF Escalate, Voided, MatchType
    <3>2. /\ match'[m].status = "Escalated" /\ match'[m].committedAt = match[m].committedAt
          /\ match'[m].hostKey = match[m].hostKey /\ match'[m].panel = match[m].panel
          /\ nine'[m] = D
      BY <1>1, <3>1 DEF MatchType
    <3>3. /\ Open(m) /\ Parties(m) = {match[m].hostKey} \cup match[m].panel
          /\ Parties(m)' = Parties(m) \cup D
      BY <2>1, <3>2 DEF Open, Terminal, Parties
    <3>4. D \subseteq Key /\ \A k \in D : Active(k)
      BY DEF Draws, Candidates, WitnessEligible, BookInv, BookTypeOK
    <3>5. \A k \in D : node[k].amount > 0 /\ node[k].unbondAt = 0
      BY <1>2, <3>4
    <3>6. /\ match[m].committedAt <= now
          /\ \A k \in Parties(m) : Held(k, match[m].committedAt, L)
      BY <3>3 DEF AreHeld
    <3> QED BY <2>1, <3>2, <3>3, <3>5, <3>6 DEF AreHeld, Held
  <2> QED BY <2>2, <2>3
<1>10. ASSUME Resolve(m) \/ Expire(m) PROVE AreHeld(m, L)'
  <2>1. match'[m].status \in {"Final", "Void"}
    BY <1>1, <1>10 DEF Resolve, Expire, Voided, MatchType
  <2> QED BY <2>1 DEF AreHeld, Open, Terminal
<1>11. ASSUME PlayNext(m) PROVE AreHeld(m, L)'
  <2>1. \A o \in Offers : o[1] \in Key /\ o[2] \in SUBSET Key
    BY MatchBookAssumption
  <2> QED BY <1>4, <1>5, <1>6, <1>7, <1>11, <2>1 DEF PlayNext
<1> QED BY <1>8, <1>9, <1>10, <1>11 DEF JudgeNext

(* The other calls: another match's resolve() leaves something of every bond,
   and no operator's call frees a bond that is held. *)
LEMMA OtherCallHolds ==
    ASSUME BookInv, NEW L \in Nat, NEW m \in Match, AreHeld(m, L),
           Open(m) => now <= match[m].committedAt + L,
           \A t \in EverInForce : t.unbondingPeriod > L,
           Lenient \/ \A i, j \in Match : i = j,
           \/ \E j \in Match \ {m} : PlayNext(j) \/ JudgeNext(j)
           \/ PoolNext
           \/ \E p \in BookTerms : SetBookParams(p)
           \/ StakeNext
           \/ NewBlock
           \/ UNCHANGED vars
    PROVE  AreHeld(m, L)'
<1>1. /\ match \in [Match -> MatchType] /\ now \in Nat /\ match[m].committedAt \in Nat
      /\ nine \in [Match -> SUBSET Key]
  BY DEF BookInv, BookTypeOK, BondInv, TypeOK, MatchType
<1>2. ASSUME match'[m] = match[m], nine'[m] = nine[m], now' \in Nat, now <= now',
             \A k \in Parties(m) :
                Open(m) /\ Held(k, match[m].committedAt, L) =>
                   /\ node'[k].amount > 0
                   /\ node'[k].unbondAt = 0 \/ node'[k].unbondAt > match[m].committedAt + L
      PROVE  AreHeld(m, L)'
  <2>1. Parties(m)' = Parties(m) /\ Open(m)' = Open(m)
    BY <1>2 DEF Parties, Open
  <2> QED BY <1>1, <1>2, <2>1, PartiesStay
<1>3. ASSUME match'[m] = match[m], nine'[m] = nine[m], now' \in Nat, now <= now',
             UNCHANGED node
      PROVE  AreHeld(m, L)'
  BY <1>2, <1>3 DEF Held
<1>4. ASSUME NEW j \in Match \ {m}, PlayNext(j) PROVE AreHeld(m, L)'
  <2>1. match'[m] = match[m] /\ nine'[m] = nine[m] /\ UNCHANGED <<node, now>>
    BY <1>1, <1>4 DEF PlayNext, Commit, Settle, PanelAttest, SeatAttest, stakeVars
  <2> QED BY <1>1, <1>3, <2>1
<1>5. ASSUME NEW j \in Match \ {m}, Finalize(j) \/ Escalate(j) \/ Expire(j) PROVE AreHeld(m, L)'
  <2>1. match'[m] = match[m]
    <3>1. CASE Finalize(j)
      BY <1>1, <3>1 DEF Finalize
    <3>2. CASE Escalate(j)
      BY <1>1, <3>2 DEF Escalate, Voided
    <3>3. CASE Expire(j)
      BY <1>1, <3>3 DEF Expire, Voided
    <3> QED BY <1>5, <3>1, <3>2, <3>3
  <2>2. nine'[m] = nine[m] /\ UNCHANGED <<node, now>>
    BY <1>1, <1>5 DEF Finalize, Escalate, Expire, stakeVars
  <2> QED BY <1>1, <1>3, <2>1, <2>2
<1>6. ASSUME NEW j \in Match \ {m}, Resolve(j) PROVE AreHeld(m, L)'
  <2>1. Lenient /\ match[j].status = "Escalated"
    BY <1>6 DEF Resolve, VoteClosed
  <2>2. match'[m] = match[m] /\ nine'[m] = nine[m] /\ UNCHANGED now
    BY <1>1, <1>6 DEF Resolve, Voided
  <2>3. ASSUME NEW h \in Hash, Sentence(j, h) PROVE AreHeld(m, L)'
    <3>1. \A k \in Key : node[k].amount > 0 =>
             node'[k].amount > 0 /\ node'[k].unbondAt = node[k].unbondAt
      BY <2>1, <2>3, SentenceLeaves
    <3>2. Open(m) => Parties(m) \subseteq Key
      BY PartiesAreKeys
    <3> QED BY <1>1, <1>2, <2>2, <3>1, <3>2 DEF Held
  <2>4. CASE UNCHANGED node
    BY <1>1, <1>3, <2>2, <2>4
  <2> QED BY <1>6, <2>3, <2>4 DEF Resolve
<1>7. ASSUME StakeNext PROVE AreHeld(m, L)'
  <2>1. match'[m] = match[m] /\ nine'[m] = nine[m] /\ UNCHANGED now
    BY <1>7 DEF StakeNext, OperatorNext, AdminNext, TokenTurns, Bond, Stake, TransferOperator,
                SetDelegate, Unstake, Withdraw, SetAdjudicator, SetParams, bookVars
  <2>2. ASSUME NEW k \in Parties(m), Open(m), Held(k, match[m].committedAt, L)
        PROVE  /\ node'[k].amount > 0
               /\ node'[k].unbondAt = 0 \/ node'[k].unbondAt > match[m].committedAt + L
    <3>1. match[m].committedAt <= now /\ now <= match[m].committedAt + L /\ k \in Key
      BY <2>2, PartiesAreKeys DEF AreHeld
    <3> DEFINE c == match[m].committedAt
    <3>2. c \in Nat /\ c <= now /\ now <= c + L /\ Held(k, c, L)
      BY <1>1, <2>2, <3>1
    <3>3. \A x \in Nat : x <= now /\ now <= x + L /\ Held(k, x, L) =>
             node'[k].amount > 0 /\ (node'[k].unbondAt = 0 \/ node'[k].unbondAt > x + L)
      BY <1>7, <3>1, StakeCallsHold DEF Held
    <3> QED BY <3>2, <3>3
  <2> QED BY <1>1, <1>2, <2>1, <2>2
<1>8. ASSUME NewBlock PROVE AreHeld(m, L)'
  <2>1. UNCHANGED <<match, nine, node>> /\ now' \in Nat /\ now <= now'
    BY <1>1, <1>8, NodeStakeAssumption DEF NewBlock, Tick
  <2> QED BY <1>3, <2>1
<1>9. ASSUME PoolNext \/ \E p \in BookTerms : SetBookParams(p) PROVE AreHeld(m, L)'
  <2>1. UNCHANGED <<match, nine, node, now>>
    BY <1>9 DEF PoolNext, Enroll, LeavePool, Prune, SetMaxPool, SetBookParams, stakeVars
  <2> QED BY <1>1, <1>3, <2>1
<1>10. ASSUME UNCHANGED vars PROVE AreHeld(m, L)'
  <2>1. UNCHANGED <<match, nine, node, now>>
    BY <1>10 DEF vars, stakeVars, bookVars
  <2> QED BY <1>1, <1>3, <2>1
<1> QED BY <1>4, <1>5, <1>6, <1>7, <1>8, <1>9, <1>10 DEF JudgeNext

(* The invariant of prompt callers and bonds that outlast them. *)
HeldInv(D) == PromptInv(D) /\ \A m \in Match : AreHeld(m, Long(D))

(* A slash lands on a bond: with callers that do not sleep, windows left
   alone, a positive minStake and an unbonding period longer than a match and
   three blocks, whoever a closed vote condemns has stake to lose, as long as
   no earlier match took the whole of it. *)
THEOREM SlashesBite ==
    ASSUME NEW D \in BlockTimes, \A d \in BlockTimes : d <= D,
           \A t \in EverInForce : t.minStake > 0 /\ t.unbondingPeriod > Long(D),
           \/ BookGenesis.params.hostSlashBps < BPS /\ BookGenesis.params.witnessSlashBps < BPS
           \/ \A i, j \in Match : i = j
    PROVE  PromptSpec /\ [][WindowsStand]_vars => []SlashHasABond
<1>1. D \in Nat /\ Long(D) \in Nat
  BY NodeStakeAssumption, MatchBookAssumption DEF Long, BookTermType
<1>2. Init /\ BookInit => HeldInv(D)
  BY PromptInitKeeps DEF HeldInv, AreHeld, Open, BookInit, NoMatch
<1>3. HeldInv(D) /\ [PromptNext]_vars /\ [WindowsStand]_vars => HeldInv(D)'
  <2> SUFFICES ASSUME HeldInv(D), [PromptNext]_vars, [WindowsStand]_vars PROVE HeldInv(D)'
    OBVIOUS
  <2>1. PromptInv(D)'
    BY PromptStepKeeps DEF HeldInv
  <2>2. BookInv /\ params = BookGenesis.params
    BY DEF HeldInv, PromptInv
  <2>3. Lenient \/ \A i, j \in Match : i = j
    BY <2>2 DEF Lenient
  <2>4. ASSUME NEW m \in Match PROVE AreHeld(m, Long(D))'
    <3>1. AreHeld(m, Long(D)) /\ OnTime(m, D)
      BY DEF HeldInv, PromptInv
    <3>2. Open(m) => now <= match[m].committedAt + Long(D)
      <4> SUFFICES ASSUME Open(m) PROVE now <= match[m].committedAt + Long(D)
        OBVIOUS
      <4>1. now <= match[m].committedAt + TotalWindow + 3 * D
        BY <1>1, <2>2, <3>1, InTimeIsBounded DEF Open
      <4>2. Long(D) = TotalWindow + 3 * D
        BY <2>2 DEF Long, TotalWindow
      <4>3. TotalWindow \in Nat /\ match[m].committedAt \in Nat
        BY <2>2, Clocks DEF TotalWindow
      <4> QED BY <1>1, <4>1, <4>2, <4>3
    <3>3. CASE PlayNext(m) \/ JudgeNext(m)
      BY <2>2, <3>1, <3>3, OwnCallHolds
    <3>4. CASE \/ \E j \in Match \ {m} : PlayNext(j) \/ JudgeNext(j)
               \/ PoolNext
               \/ \E p \in BookTerms : SetBookParams(p)
               \/ StakeNext
               \/ NewBlock
               \/ UNCHANGED vars
      BY <1>1, <2>2, <2>3, <3>1, <3>2, <3>4, OtherCallHolds
    <3> QED BY <3>3, <3>4 DEF PromptNext, PromptBlock, CallNext
  <2> QED BY <2>1, <2>4 DEF HeldInv
<1>4. HeldInv(D) => SlashHasABond
  <2> SUFFICES ASSUME HeldInv(D), NEW m \in Match, NEW k \in Key, Condemned(m, k)
               PROVE  node[k].amount > 0
    BY DEF SlashHasABond
  <2>1. match[m].status = "Escalated" /\ Open(m)
    BY DEF Condemned, VoteClosed, Open, Terminal
  <2>2. k \in Parties(m)
    BY <2>1 DEF Condemned, Against, Rejected, Parties
  <2> QED BY <2>1, <2>2 DEF HeldInv, AreHeld, Held
<1> QED BY <1>2, <1>3, <1>4, PTL DEF PromptSpec
================================================================================
