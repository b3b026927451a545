--------------------------- MODULE ContractProofs ---------------------------
(***************************************************************************)
(* The contracts beside the bond ledger, for any number of titles, people, *)
(* keys, characters, matches and payees: approvals end with a hand-over    *)
(* and revocations do not, balances count, a key's history stays where it  *)
(* is and is listed once, no result is written over another, and a daily   *)
(* cap holds although a payee's code runs in the middle of a claim.        *)
(***************************************************************************)
EXTENDS TitleRegistry, PlayerProfile, CharacterRegistry, GasRefund,
        FiniteSetTheorems, SequenceTheorems, TLAPS

-----------------------------------------------------------------------------
(* Titles *)

BuildType == [since : 0..LastBlock + 1, from : Nat, revoked : BOOLEAN]

(* A build that was revoked was registered, so nobody may set it again, and a
   title that was never registered has none, so registering revives none. *)
TitleInv ==
    /\ holder \in [Titles -> People \cup {NoOne}]
    /\ approved \in [Titles -> People \cup {NoOne}]
    /\ grantor \in [Titles -> Nat] /\ tenure \in [Titles -> Nat]
    /\ balance \in [People -> Nat]
    /\ block \in 0..LastBlock
    /\ build \in [Titles -> [Hashes -> BuildType]]
    /\ \A t \in Titles, h \in Hashes : Registered(build[t][h]) => build[t][h].since <= LastBlock
    /\ \A t \in Titles, h \in Hashes : holder[t] = NoOne => ~build[t][h].revoked
    /\ ApprovalIsPresent
    /\ BalancesCount

TitlesOf(a) == {t \in Titles : holder[t] = a}

LEMMA TitleInitKeeps == TitleInit => TitleInv
<1> SUFFICES ASSUME TitleInit PROVE TitleInv
  OBVIOUS
<1> USE TitleAssumption DEF TitleInit
<1>1. build \in [Titles -> [Hashes -> BuildType]] /\ block \in 0..LastBlock
  BY DEF Unregistered, BuildType
<1>2. \A t \in Titles, h \in Hashes : ~build[t][h].revoked /\ ~Registered(build[t][h])
  BY DEF Unregistered, Registered
<1>3. \A a \in People : balance[a] = 0 /\ TitlesOf(a) = {}
  BY DEF TitlesOf
<1>4. BalancesCount
  BY <1>3, FS_EmptySet DEF BalancesCount, TitlesOf
<1>5. ApprovalIsPresent
  BY DEF ApprovalIsPresent
<1> QED BY <1>1, <1>2, <1>4, <1>5 DEF TitleInv

(* A title that changes hands leaves one count and enters another; handed to
   its own publisher it does both. *)
LEMMA HandedOver ==
    ASSUME TitleInv, NEW t \in Titles, NEW to \in People,
           holder' = [holder EXCEPT ![t] = to],
           \/ holder[t] = NoOne /\ balance' = [balance EXCEPT ![to] = @ + 1]
           \/ holder[t] \in People /\ balance' = Moved(holder[t], to)
    PROVE  balance' \in [People -> Nat] /\ BalancesCount'
<1> USE TitleAssumption DEF TitleInv
<1> DEFINE S(a) == {s \in Titles : holder[s] = a}
           T(a) == {s \in Titles : holder'[s] = a}
<1>1. \A a \in People : IsFiniteSet(S(a)) /\ IsFiniteSet(S(a) \ {t}) /\ balance[a] = Cardinality(S(a))
  <2>1. \A a : S(a) \subseteq Titles /\ S(a) \ {t} \subseteq Titles
    OBVIOUS
  <2>2. \A a : IsFiniteSet(S(a)) /\ IsFiniteSet(S(a) \ {t})
    BY <2>1, FS_Subset
  <2> QED BY <2>2 DEF BalancesCount
<1>2. T(to) = (S(to) \ {t}) \cup {t}
  OBVIOUS
<1>3. \A a \in People : a # to => T(a) = S(a) \ {t}
  OBVIOUS
<1> HIDE DEF S, T
<1>4. Cardinality(T(to)) = Cardinality(S(to) \ {t}) + 1
  <2>1. t \notin S(to) \ {t}
    OBVIOUS
  <2> QED BY <1>1, <1>2, <2>1, FS_AddElement
<1>5. \A a \in People : Cardinality(S(a) \ {t}) = IF t \in S(a) THEN Cardinality(S(a)) - 1 ELSE Cardinality(S(a))
  BY <1>1, FS_RemoveElement
<1>6. \A a \in People : t \in S(a) <=> holder[t] = a
  BY DEF S
<1>7. \A a \in People : Cardinality(S(a)) \in Nat /\ Cardinality(S(a) \ {t}) \in Nat
  BY <1>1, FS_CardinalityType
<1>8. \A a \in People : balance'[a] = Cardinality(T(a))
  <2> SUFFICES ASSUME NEW a \in People PROVE balance'[a] = Cardinality(T(a))
    OBVIOUS
  <2>1. CASE holder[t] = NoOne /\ balance' = [balance EXCEPT ![to] = @ + 1]
    <3>1. t \notin S(a) /\ t \notin S(to)
      BY <2>1, <1>6
    <3>2. CASE a = to
      BY <2>1, <3>1, <3>2, <1>1, <1>4, <1>5
    <3>3. CASE a # to
      BY <2>1, <3>1, <3>3, <1>1, <1>3, <1>5
    <3> QED BY <3>2, <3>3
  <2>2. CASE holder[t] \in People /\ balance' = Moved(holder[t], to)
    <3>1. CASE a = to
      <4>1. CASE holder[t] = to
        <5>1. t \in S(to)
          BY <4>1, <1>6
        <5>2. balance'[to] = balance[to] - 1 + 1
          BY <2>2, <4>1 DEF Moved
        <5>3. Cardinality(T(to)) = Cardinality(S(to)) - 1 + 1
          BY <5>1, <1>4, <1>5
        <5> QED BY <3>1, <5>2, <5>3, <1>1
      <4>2. CASE holder[t] # to
        <5>1. t \notin S(to)
          BY <4>2, <1>6
        <5>2. balance'[to] = balance[to] + 1
          BY <2>2, <4>2 DEF Moved
        <5> QED BY <3>1, <5>1, <5>2, <1>1, <1>4, <1>5
      <4> QED BY <4>1, <4>2
    <3>2. CASE a # to /\ holder[t] = a
      <4>1. balance'[a] = balance[a] - 1
        BY <2>2, <3>2 DEF Moved
      <4> QED BY <4>1, <3>2, <1>1, <1>3, <1>5, <1>6
    <3>3. CASE a # to /\ holder[t] # a
      <4>1. balance'[a] = balance[a]
        BY <2>2, <3>3 DEF Moved
      <4> QED BY <4>1, <3>3, <1>1, <1>3, <1>5, <1>6
    <3> QED BY <3>1, <3>2, <3>3
  <2> QED BY <2>1, <2>2
<1>9. \A a \in People : Cardinality(T(a)) \in Nat
  <2> SUFFICES ASSUME NEW a \in People PROVE Cardinality(T(a)) \in Nat
    OBVIOUS
  <2>1. CASE a = to
    <3>1. Cardinality(S(to) \ {t}) \in Nat
      BY <1>7
    <3>2. Cardinality(T(to)) \in Nat
      BY <3>1, <1>4
    <3> QED BY <2>1, <3>2
  <2>2. CASE a # to
    BY <2>2, <1>3, <1>7
  <2> QED BY <2>1, <2>2
<1>10. DOMAIN balance' = People /\ balance' = [a \in People |-> balance'[a]]
  BY DEF Moved
<1>11. balance' \in [People -> Nat]
  BY <1>8, <1>9, <1>10
<1>12. BalancesCount'
  BY <1>8 DEF BalancesCount, T
<1> QED BY <1>11, <1>12

LEMMA TitleStepKeeps == TitleInv /\ [TitleNext]_titleVars => TitleInv'
<1> SUFFICES ASSUME TitleInv, [TitleNext]_titleVars PROVE TitleInv'
  OBVIOUS
<1> USE TitleAssumption DEF TitleInv
<1>1. ASSUME NEW a \in People, NEW t \in Titles, NEW h \in Hashes, RegisterTitle(a, t, h)
      PROVE  TitleInv'
  <2> USE <1>1 DEF RegisterTitle
  <2>1. balance' \in [People -> Nat] /\ BalancesCount'
    BY HandedOver
  <2>2. build' \in [Titles -> [Hashes -> BuildType]]
    BY DEF Built, BuildType
  <2>3. \A s \in Titles, g \in Hashes : Registered(build'[s][g]) => build'[s][g].since <= LastBlock
    BY DEF Built, BuildType, Registered
  <2>4. ApprovalIsPresent'
    BY DEF ApprovalIsPresent
  <2>5. \A s \in Titles, g \in Hashes : holder'[s] = NoOne => ~build'[s][g].revoked
    BY DEF Built
  <2> QED BY <2>1, <2>2, <2>3, <2>4, <2>5
<1>2. ASSUME NEW a \in People, NEW t \in Titles, NEW h \in Hashes, SetBuild(a, t, h)
      PROVE  TitleInv'
  <2> USE <1>2 DEF SetBuild
  <2>1. PICK late \in 0..1 : build' = Built(t, h, block + ActivationDelay + late)
    OBVIOUS
  <2>2. build' \in [Titles -> [Hashes -> BuildType]]
    BY <2>1 DEF Built, BuildType
  <2>3. \A s \in Titles, g \in Hashes : Registered(build'[s][g]) => build'[s][g].since <= LastBlock
    BY <2>1 DEF Built, BuildType
  <2>4. \A s \in Titles, g \in Hashes : holder'[s] = NoOne => ~build'[s][g].revoked
    BY <2>1 DEF Built
  <2> QED BY <2>2, <2>3, <2>4 DEF ApprovalIsPresent, BalancesCount
<1>3. ASSUME NEW a \in People, NEW t \in Titles, NEW h \in Hashes, RevokeBuild(a, t, h)
      PROVE  TitleInv'
  <2> USE <1>3 DEF RevokeBuild
  <2>1. build[t][h] \in BuildType /\ build[t][h].since <= LastBlock
    OBVIOUS
  <2>2. build' \in [Titles -> [Hashes -> BuildType]]
    <3>1. [build[t][h] EXCEPT !.revoked = TRUE] \in BuildType
      BY <2>1 DEF BuildType
    <3>2. build' = [build EXCEPT ![t] = [@ EXCEPT ![h] = [build[t][h] EXCEPT !.revoked = TRUE]]]
      OBVIOUS
    <3> HIDE DEF BuildType
    <3> QED BY <3>1, <3>2
  <2>3. \A s \in Titles, g \in Hashes : Registered(build'[s][g]) => build'[s][g].since <= LastBlock
    BY <2>1 DEF BuildType
  <2>4. \A s \in Titles, g \in Hashes : holder'[s] = NoOne => ~build'[s][g].revoked
    BY DEF BuildType
  <2> QED BY <2>2, <2>3, <2>4 DEF ApprovalIsPresent, BalancesCount
<1>4. ASSUME NEW a \in People, NEW t \in Titles, NEW to \in People \cup {NoOne}, Approve(a, t, to)
      PROVE  TitleInv'
  BY <1>4 DEF Approve, ApprovalIsPresent, BalancesCount
<1>5. ASSUME NEW a \in People, NEW t \in Titles, NEW to \in People, TransferTitle(a, t, to)
      PROVE  TitleInv'
  <2> USE <1>5 DEF TransferTitle
  <2>1. holder[t] \in People
    OBVIOUS
  <2>2. balance' \in [People -> Nat] /\ BalancesCount'
    BY <2>1, HandedOver
  <2>3. ApprovalIsPresent'
    BY DEF ApprovalIsPresent, ApprovedAfter
  <2> QED BY <2>2, <2>3 DEF ApprovedAfter
<1>6. ASSUME NEW a \in People, NEW b \in People, SetApprovalForAll(a, b)
      PROVE  TitleInv'
  BY <1>6 DEF SetApprovalForAll, ApprovalIsPresent, BalancesCount
<1>7. CASE NextBlock
  BY <1>7 DEF NextBlock, ApprovalIsPresent, BalancesCount
<1>8. CASE UNCHANGED titleVars
  BY <1>8 DEF titleVars, ApprovalIsPresent, BalancesCount
<1> QED BY <1>1, <1>2, <1>3, <1>4, <1>5, <1>6, <1>7, <1>8 DEF TitleNext

(* transferFrom clears the approval of a title: for any number of titles,
   people and hand-overs, whoever is approved was approved under the publisher
   of today. *)
THEOREM ApprovalsArePresent == TitleSpec => []ApprovalIsPresent
<1>1. TitleInv => ApprovalIsPresent
  BY DEF TitleInv
<1> QED BY <1>1, TitleInitKeeps, TitleStepKeeps, PTL DEF TitleSpec

(* _balance follows _owner through registrations and transfers, one to
   oneself included: balanceOf is always the number of titles held. *)
THEOREM BalancesAreCounts == TitleSpec => []BalancesCount
<1>1. TitleInv => BalancesCount
  BY DEF TitleInv
<1> QED BY <1>1, TitleInitKeeps, TitleStepKeeps, PTL DEF TitleSpec

(* setBuild refuses a build it has seen and revokeBuild is never taken back:
   a revoked build stays as it is under every later publisher. *)
THEOREM RevocationsStand == TitleSpec => RevokedForGood
<1>1. TitleInv /\ [TitleNext]_titleVars =>
        [\A t \in Titles, h \in Hashes : build[t][h].revoked => build'[t][h] = build[t][h]]_titleVars
  <2> SUFFICES ASSUME TitleInv, TitleNext, NEW t \in Titles, NEW h \in Hashes, build[t][h].revoked
               PROVE  build'[t][h] = build[t][h]
    BY DEF titleVars
  <2> USE DEF TitleInv
  <2>1. build[t][h] \in BuildType /\ Registered(build[t][h])
    BY TitleAssumption DEF Registered, Unregistered, BuildType
  <2>2. ASSUME NEW a \in People, NEW s \in Titles, NEW g \in Hashes, RegisterTitle(a, s, g)
        PROVE  build'[t][h] = build[t][h]
    BY <2>2 DEF RegisterTitle, Built
  <2>3. ASSUME NEW a \in People, NEW s \in Titles, NEW g \in Hashes, SetBuild(a, s, g)
        PROVE  build'[t][h] = build[t][h]
    <3>1. <<s, g>> # <<t, h>>
      BY <2>1, <2>3 DEF SetBuild, MayBuild
    <3> QED BY <2>3, <3>1 DEF SetBuild, Built
  <2>4. ASSUME NEW a \in People, NEW s \in Titles, NEW g \in Hashes, RevokeBuild(a, s, g)
        PROVE  build'[t][h] = build[t][h]
    BY <2>1, <2>4 DEF RevokeBuild, BuildType
  <2>5. CASE UNCHANGED build
    BY <2>5
  <2> QED BY <2>2, <2>3, <2>4, <2>5 DEF TitleNext, Approve, SetApprovalForAll, TransferTitle, NextBlock
<1> QED BY <1>1, TitleInitKeeps, TitleStepKeeps, PTL DEF TitleSpec, RevokedForGood

-----------------------------------------------------------------------------
(* Profiles *)

(* A list of distinct keys stays one when a key that is not in it is added. *)
LEMMA AppendedOnce ==
    ASSUME NEW s \in Seq(DeviceKeys), NEW k \in DeviceKeys, k \notin ToSet(s), IsInjective(s)
    PROVE  ToSet(Append(s, k)) = ToSet(s) \cup {k} /\ IsInjective(Append(s, k))
<1> DEFINE r == Append(s, k)
<1>1. DOMAIN r = 1..(Len(s) + 1) /\ DOMAIN s = 1..Len(s) /\ Len(s) \in Nat
  OBVIOUS
<1>2. \A i \in 1..Len(s) : r[i] = s[i]
  OBVIOUS
<1>3. r[Len(s) + 1] = k
  OBVIOUS
<1>4. \A i \in 1..Len(s) : s[i] # k
  BY <1>1 DEF ToSet
<1> HIDE DEF r
<1>5. ToSet(r) = ToSet(s) \cup {k}
  BY <1>1, <1>2, <1>3 DEF ToSet
<1>6. IsInjective(r)
  BY <1>1, <1>2, <1>3, <1>4 DEF IsInjective
<1> QED BY <1>5, <1>6 DEF r

ListedOnce(keys, n, b) ==
    \A id \in 1..n : /\ ToSet(keys[id]) = {k \in DeviceKeys : b[k].id = id}
                     /\ IsInjective(keys[id])

BindingsOf(n) == [DeviceKeys -> [id : 0..n, active : BOOLEAN]]

ProfileInv ==
    /\ nextId \in Nat \ {0}
    /\ profileOf \in [Owners -> 0..nextId - 1]
    /\ bindings \in BindingsOf(nextId - 1)
    /\ keysOf \in Seq(Seq(DeviceKeys)) /\ Len(keysOf) = nextId - 1
    /\ ListedOnce(keysOf, nextId - 1, bindings)

LEMMA ProfileInitKeeps == ProfileInit => ProfileInv
<1> SUFFICES ASSUME ProfileInit PROVE ProfileInv
  OBVIOUS
<1>1. nextId - 1 = 0 /\ 1..(nextId - 1) = {} /\ keysOf = <<>>
  BY DEF ProfileInit
<1>2. ListedOnce(keysOf, nextId - 1, bindings)
  BY <1>1 DEF ListedOnce
<1> QED BY <1>1, <1>2 DEF ProfileInv, ProfileInit, BindingsOf

(* _bind() adds a key to the list of its profile exactly when no profile had
   it, so that the lists stay the bindings. *)
LEMMA BindKeeps ==
    ASSUME NEW n \in Nat, NEW id \in 1..n, NEW k \in DeviceKeys,
           NEW keys \in Seq(Seq(DeviceKeys)), Len(keys) = n,
           bindings \in BindingsOf(n), ListedOnce(keys, n, bindings), BindTo(k, id, keys)
    PROVE  /\ bindings' \in BindingsOf(n)
           /\ keysOf' \in Seq(Seq(DeviceKeys)) /\ Len(keysOf') = n
           /\ ListedOnce(keysOf', n, bindings')
<1> USE DEF BindTo
<1>1. keys[id] \in Seq(DeviceKeys) /\ DOMAIN keys = 1..n
  OBVIOUS
<1>2. Listed(k, id, keys) \in Seq(DeviceKeys)
  BY <1>1 DEF Listed
<1>3. bindings' \in BindingsOf(n)
  BY DEF BindingsOf
<1>4. keysOf' \in Seq(Seq(DeviceKeys)) /\ Len(keysOf') = n
  BY <1>2
<1>5. \A j \in 1..n : j # id => keysOf'[j] = keys[j]
  BY <1>1
<1>6. keysOf'[id] = Listed(k, id, keys)
  BY <1>1
<1>7. \A l \in DeviceKeys : bindings'[l].id = IF l = k THEN id ELSE bindings[l].id
  BY DEF BindingsOf
<1>8. ToSet(keysOf'[id]) = {l \in DeviceKeys : bindings'[l].id = id} /\ IsInjective(keysOf'[id])
  <2>1. CASE bindings[k].id = 0
    <3>1. k \notin ToSet(keys[id])
      BY <2>1 DEF ListedOnce
    <3>2. keysOf'[id] = Append(keys[id], k)
      BY <2>1, <1>6 DEF Listed
    <3>3. ToSet(keysOf'[id]) = ToSet(keys[id]) \cup {k} /\ IsInjective(keysOf'[id])
      BY <3>1, <3>2, <1>1, AppendedOnce DEF ListedOnce
    <3> QED BY <3>3, <1>7 DEF ListedOnce
  <2>2. CASE bindings[k].id = id
    BY <2>2, <1>6, <1>7 DEF Listed, ListedOnce
  <2> QED BY <2>1, <2>2 DEF MayBindTo
<1>9. \A j \in 1..n : j # id =>
        {l \in DeviceKeys : bindings'[l].id = j} = {l \in DeviceKeys : bindings[l].id = j}
  BY <1>7 DEF MayBindTo
<1> QED BY <1>3, <1>4, <1>5, <1>8, <1>9 DEF ListedOnce

LEMMA ProfileStepKeeps == ProfileInv /\ [ProfileNext]_profileVars => ProfileInv'
<1> SUFFICES ASSUME ProfileInv, [ProfileNext]_profileVars PROVE ProfileInv'
  OBVIOUS
<1> USE DEF ProfileInv
<1>1. ASSUME NEW a \in Owners, NEW k \in DeviceKeys, RegisterProfile(a, k)
      PROVE  ProfileInv'
  <2> DEFINE keys == Append(keysOf, <<>>)
  <2> USE <1>1 DEF RegisterProfile
  <2>1. nextId' - 1 = nextId /\ nextId' \in Nat \ {0}
    OBVIOUS
  <2>2. keys \in Seq(Seq(DeviceKeys)) /\ Len(keys) = nextId
    OBVIOUS
  <2>3. keys[nextId] = <<>> /\ \A id \in 1..nextId - 1 : keys[id] = keysOf[id]
    OBVIOUS
  <2>4. bindings \in BindingsOf(nextId) /\ \A l \in DeviceKeys : bindings[l].id # nextId
    BY DEF BindingsOf
  <2> HIDE DEF keys
  <2>5. ListedOnce(keys, nextId, bindings)
    <3>1. ToSet(<<>>) = {} /\ IsInjective(<<>>)
      BY DEF ToSet, IsInjective
    <3>2. \A id \in 1..nextId : id = nextId \/ id \in 1..nextId - 1
      OBVIOUS
    <3>3. \A id \in 1..nextId - 1 : ToSet(keys[id]) = {l \in DeviceKeys : bindings[l].id = id}
                                     /\ IsInjective(keys[id])
      BY <2>3 DEF ListedOnce
    <3>4. ToSet(keys[nextId]) = {l \in DeviceKeys : bindings[l].id = nextId} /\ IsInjective(keys[nextId])
      BY <3>1, <2>3, <2>4
    <3> QED BY <3>2, <3>3, <3>4 DEF ListedOnce
  <2>6. BindTo(k, nextId, keys)
    BY DEF keys
  <2>7. bindings' \in BindingsOf(nextId) /\ keysOf' \in Seq(Seq(DeviceKeys))
        /\ Len(keysOf') = nextId /\ ListedOnce(keysOf', nextId, bindings')
    BY <2>2, <2>4, <2>5, <2>6, BindKeeps
  <2>8. profileOf' \in [Owners -> 0..nextId' - 1]
    BY <2>1
  <2> QED BY <2>1, <2>7, <2>8
<1>2. ASSUME NEW a \in Owners, NEW k \in DeviceKeys, BindKey(a, k)
      PROVE  ProfileInv'
  <2>1. profileOf[a] \in 1..(nextId - 1) /\ BindTo(k, profileOf[a], keysOf) /\ nextId - 1 \in Nat
    BY <1>2 DEF BindKey
  <2>2. bindings' \in BindingsOf(nextId - 1) /\ keysOf' \in Seq(Seq(DeviceKeys))
        /\ Len(keysOf') = nextId - 1 /\ ListedOnce(keysOf', nextId - 1, bindings')
    BY <2>1, BindKeeps
  <2> QED BY <1>2, <2>2 DEF BindKey
<1>3. ASSUME NEW a \in Owners, NEW k \in DeviceKeys, RevokeKey(a, k)
      PROVE  ProfileInv'
  <2>1. bindings' \in BindingsOf(nextId - 1) /\ \A l \in DeviceKeys : bindings'[l].id = bindings[l].id
    BY <1>3 DEF RevokeKey, BindingsOf
  <2>2. ListedOnce(keysOf, nextId - 1, bindings')
    BY <2>1 DEF ListedOnce
  <2> QED BY <1>3, <2>1, <2>2 DEF RevokeKey
<1>4. CASE UNCHANGED profileVars
  BY <1>4 DEF profileVars
<1> QED BY <1>1, <1>2, <1>3, <1>4 DEF ProfileNext

(* keysOf and the bindings tell one story for any number of wallets and keys:
   a key bound, revoked and bound again is in its profile's list, once. *)
THEOREM KeysAreListedOnce == ProfileSpec => []KeysListedOnce
<1>1. ProfileInv => KeysListedOnce
  BY DEF ProfileInv, ListedOnce, KeysListedOnce
<1> QED BY <1>1, ProfileInitKeeps, ProfileStepKeeps, PTL DEF ProfileSpec

(* _bind() refuses a key of another profile: a key's history never moves. *)
THEOREM KeysStay == ProfileSpec => KeyStaysWithItsProfile
<1>1. ProfileInv /\ [ProfileNext]_profileVars =>
        [\A k \in DeviceKeys : bindings[k].id # 0 => bindings'[k].id = bindings[k].id]_profileVars
  <2> SUFFICES ASSUME ProfileInv, ProfileNext, NEW k \in DeviceKeys, bindings[k].id # 0
               PROVE  bindings'[k].id = bindings[k].id
    BY DEF profileVars
  <2>1. \A l \in DeviceKeys : bindings[l].id \in 0..nextId - 1 /\ bindings \in BindingsOf(nextId - 1)
    BY DEF ProfileInv, BindingsOf
  <2>2. PICK a \in Owners, l \in DeviceKeys : RegisterProfile(a, l) \/ BindKey(a, l) \/ RevokeKey(a, l)
    BY DEF ProfileNext
  <2>3. CASE RevokeKey(a, l)
    BY <2>1, <2>3 DEF RevokeKey, BindingsOf
  <2>4. ASSUME NEW id, NEW keys, BindTo(l, id, keys)
        PROVE  bindings'[k].id = bindings[k].id
    BY <2>1, <2>4 DEF BindTo, MayBindTo, BindingsOf
  <2> QED BY <2>2, <2>3, <2>4 DEF RegisterProfile, BindKey
<1> QED BY <1>1, ProfileInitKeeps, ProfileStepKeeps, PTL DEF ProfileSpec, KeyStaysWithItsProfile

-----------------------------------------------------------------------------
(* Characters *)

Draft == [of : Characters \cup {Nobody}, stats : Nat, nonce : Nat]

(* A draft whose nonce is still the character's was read off the present stats. *)
CharacterInv ==
    /\ stats \in [Characters -> Nat] /\ statsNonce \in [Characters -> Nat]
    /\ settledFor \in [Characters -> Nat]
    /\ draft \in [Progressors -> Draft]
    /\ \A p \in Progressors : draft[p] # NoDraft =>
         LET c == draft[p].of IN
         /\ c \in Characters /\ draft[p].nonce <= statsNonce[c]
         /\ draft[p].nonce = statsNonce[c] => draft[p].stats = stats[c]
    /\ \A c \in Characters : owned[c] = Nobody => stats[c] = 0 /\ statsNonce[c] = 0
    /\ owned \in [Characters -> Users \cup {Nobody}]
    /\ NoResultLost

LEMMA CharacterInitKeeps == CharacterInit => CharacterInv
  BY DEF CharacterInit, CharacterInv, Zeroes, NoDraft, Draft, NoResultLost

LEMMA CharacterStepKeeps == CharacterInv /\ [CharacterNext]_characterVars => CharacterInv'
<1> SUFFICES ASSUME CharacterInv, [CharacterNext]_characterVars PROVE CharacterInv'
  OBVIOUS
<1> USE CharacterAssumption DEF CharacterInv
<1>1. ASSUME NEW p \in Progressors, NEW c \in Characters, ReadStats(p, c)
      PROVE  CharacterInv'
  <2> USE <1>1 DEF ReadStats
  <2>1. draft' \in [Progressors -> Draft]
    BY DEF Draft
  <2> QED BY <2>1 DEF NoResultLost, NoDraft
<1>2. ASSUME NEW p \in Progressors, Progress(p)
      PROVE  CharacterInv'
  <2> DEFINE c == draft[p].of
  <2>1. draft[p] # NoDraft /\ draft' = [draft EXCEPT ![p] = NoDraft] /\ c \in Characters
        /\ UNCHANGED owned
    BY <1>2 DEF Progress
  <2>2. draft' \in [Progressors -> Draft]
    BY <2>1 DEF Draft, NoDraft
  <2>3. CASE UNCHANGED <<stats, statsNonce, settledFor>>
    BY <2>1, <2>2, <2>3 DEF NoResultLost
  <2>4. CASE /\ draft[p].nonce = statsNonce[c] /\ owned[c] # Nobody
             /\ stats' = [stats EXCEPT ![c] = draft[p].stats + 1]
             /\ statsNonce' = [statsNonce EXCEPT ![c] = @ + 1]
             /\ settledFor' = [settledFor EXCEPT ![c] = @ + 1]
    <3>1. draft[p].stats = stats[c] /\ stats[c] = settledFor[c]
      BY <2>1, <2>4 DEF NoResultLost
    <3>2. stats' \in [Characters -> Nat] /\ statsNonce' \in [Characters -> Nat]
          /\ settledFor' \in [Characters -> Nat]
      BY <2>1, <2>4, <3>1
    <3>3. NoResultLost'
      BY <2>1, <2>4, <3>1 DEF NoResultLost
    <3>4. \A q \in Progressors : draft'[q] # NoDraft =>
            /\ draft'[q] = draft[q] /\ draft[q].of \in Characters
            /\ draft[q].nonce <= statsNonce[draft[q].of]
            /\ draft[q].nonce = statsNonce[draft[q].of] => draft[q].stats = stats[draft[q].of]
      BY <2>1
    <3>5. \A q \in Progressors : draft[q].nonce \in Nat
      BY DEF Draft
    <3>6. ASSUME NEW q \in Progressors, draft'[q] # NoDraft
          PROVE  /\ draft'[q].nonce <= statsNonce'[draft'[q].of]
                 /\ draft'[q].nonce = statsNonce'[draft'[q].of] => draft'[q].stats = stats'[draft'[q].of]
      <4>1. CASE draft[q].of = c
        BY <2>1, <2>4, <3>4, <3>5, <3>6, <4>1
      <4>2. CASE draft[q].of # c
        BY <2>1, <2>4, <3>4, <3>5, <3>6, <4>2
      <4> QED BY <4>1, <4>2
    <3>7. \A d \in Characters : owned'[d] = Nobody => stats'[d] = 0 /\ statsNonce'[d] = 0
      BY <2>1, <2>4, <3>2
    <3> QED BY <2>1, <2>2, <3>2, <3>3, <3>4, <3>6, <3>7
  <2> QED BY <1>2, <2>3, <2>4 DEF Progress, Expected
<1>3. ASSUME UNCHANGED <<stats, statsNonce, draft, settledFor>>,
             owned' = owned \/ \E c \in Characters, to \in Users : owned' = [owned EXCEPT ![c] = to]
      PROVE  CharacterInv'
  <2>1. owned' \in [Characters -> Users \cup {Nobody}]
        /\ \A c \in Characters : owned'[c] = Nobody => owned[c] = Nobody
    BY <1>3
  <2> QED BY <1>3, <2>1 DEF NoResultLost
<1>4. ASSUME NEW c \in Characters, NEW a \in Users, NEW m \in Users, Forge(c, a, m)
      PROVE  CharacterInv'
  <2>1. stats[c] = 0 /\ statsNonce[c] = 0
    BY <1>4 DEF Forge
  <2>2. stats' = stats /\ statsNonce' = statsNonce
    BY <1>4, <2>1 DEF Forge
  <2> QED BY <1>3, <1>4, <2>2 DEF Forge
<1>5. CASE UNCHANGED characterVars
  BY <1>3, <1>5 DEF characterVars
<1>6. ASSUME NEW c \in Characters, NEW a \in Users, NEW b \in Users,
             \/ SetController(a, c, b) \/ TransferCharacter(a, c, b)
             \/ Unequip(a, c) \/ \E g \in Gear : Equip(a, c, g)
      PROVE  CharacterInv'
  BY <1>3, <1>6 DEF SetController, TransferCharacter, Equip, Unequip
<1>7. ASSUME NEW g \in Gear, NEW to \in Users, SellGear(g, to) PROVE CharacterInv'
  BY <1>3, <1>7 DEF SellGear
<1> QED BY <1>1, <1>2, <1>4, <1>5, <1>6, <1>7 DEF CharacterNext

(* progress() takes the nonce its caller read: for any number of progressors
   that read and write in any order, no result overwrites another. *)
THEOREM NoResultIsLost == CharacterSpec => []NoResultLost
<1>1. CharacterInv => NoResultLost
  BY DEF CharacterInv
<1> QED BY <1>1, CharacterInitKeeps, CharacterStepKeeps, PTL DEF CharacterSpec

-----------------------------------------------------------------------------
(* Refunds *)

(* A claim that runs: what it still owes fits under the day's cap. *)
ClaimOk(c) ==
    /\ c.at \in DOMAIN Seated[c.of] /\ DOMAIN c.owed = DOMAIN Seated[c.of]
    /\ \A i \in DOMAIN Seated[c.of] :
         i > c.at \/ (i = c.at /\ ~c.inside) => refundedOn[Seated[c.of][i]] + c.owed[i] <= highCap

ClaimType == [of : Finals, owed : Seq(Nat), at : Nat, inside : BOOLEAN]

(* The guard admits one claim at a time, so the list of those running holds
   none or one. *)
RefundInv ==
    /\ refundedOn \in [NodeKeys -> Nat] /\ funds \in Int
    /\ cap \in Nat /\ highCap \in Nat /\ cap <= highCap
    /\ CapHolds
    /\ calls = <<>> \/ (\E c \in ClaimType : calls = <<c>> /\ ClaimOk(c))

LEMMA RefundInitKeeps == RefundInit => RefundInv
  BY RefundAssumption DEF RefundInit, RefundInv, NoWei, CapHolds

LEMMA NextSeatIs == \A c \in ClaimType : NextSeat(c) \in ClaimType
  BY DEF ClaimType, NextSeat

(* What a turn of the loop leaves of the only claim there is. *)
LEMMA OneClaimGoesOn ==
  ASSUME NEW c \in ClaimType, calls = <<c>>, ClaimOk(c)
  PROVE  \/ Onward(c) = <<>>
         \/ Onward(c) = <<NextSeat(c)>> /\ c.at + 1 \in DOMAIN Seated[c.of]
<1>1. SubSeq(calls, 1, Depth - 1) = <<>>
  BY DEF Depth
<1>2. Seated[c.of] \in Seq(NodeKeys) /\ c.owed \in Seq(Nat)
  BY RefundAssumption DEF ClaimType
<1>3. Len(c.owed) = Len(Seated[c.of])
  BY <1>2 DEF ClaimOk
<1>4. c.at < Len(c.owed) => c.at + 1 \in DOMAIN Seated[c.of]
  BY <1>2, <1>3 DEF ClaimOk
<1>5. <<>> \o <<>> = <<>> /\ <<>> \o <<NextSeat(c)>> = <<NextSeat(c)>>
  <2> DEFINE d == NextSeat(c)
  <2> HIDE DEF d
  <2>1. <<>> \o <<d>> = <<d>>
    BY ConcatEmptySeq DEF d
  <2> QED BY <2>1 DEF d
<1> QED BY <1>1, <1>4, <1>5, Zenon DEF Onward

LEMMA RefundStepKeeps == RefundInv /\ [RefundNext]_refundVars => RefundInv'
<1> SUFFICES ASSUME RefundInv, [RefundNext]_refundVars PROVE RefundInv'
  OBVIOUS
<1> USE DEF RefundInv
<1>t. /\ Caps \subseteq Nat /\ \A m \in Finals : Seated[m] \in Seq(NodeKeys) /\ Seated[m] # <<>>
      /\ \A m \in Finals : \A i, j \in DOMAIN Seated[m] : i # j => Seated[m][i] # Seated[m][j]
  BY RefundAssumption
<1>1. ASSUME NEW m \in Finals, NEW k \in NodeKeys, Claim(m, k) PROVE RefundInv'
  <2>1. calls = <<>>
    BY <1>1 DEF Claim, Entered, Depth
  <2>c. PICK c : c = [of |-> m, owed |-> Owed(m, k), at |-> 1, inside |-> FALSE]
    OBVIOUS
  <2>2. calls' = <<c>> /\ UNCHANGED <<funds, refundedOn, cap, highCap>>
    BY <1>1, <2>1, <2>c DEF Claim
  <2>3. Seated[m] \in Seq(NodeKeys) /\ Len(Seated[m]) \in Nat /\ 1 \in DOMAIN Seated[m]
        /\ DOMAIN Seated[m] = 1..Len(Seated[m])
    BY <1>t
  <2>4. ASSUME NEW i \in DOMAIN Seated[m]
        PROVE Owed(m, k)[i] \in Nat /\ refundedOn[Seated[m][i]] + Owed(m, k)[i] <= highCap
    <3>1. Seated[m][i] \in NodeKeys
      BY <2>3, <2>4
    <3>2. Share + (IF Seated[m][i] = k THEN ClaimShare ELSE 0) \in Nat
      BY RefundAssumption
    <3> DEFINE amount == Share + (IF Seated[m][i] = k THEN ClaimShare ELSE 0)
    <3>3. Owed(m, k)[i] = Capped(Seated[m][i], amount)
      BY DEF Owed
    <3> HIDE DEF amount
    <3>4. refundedOn[Seated[m][i]] \in Nat /\ refundedOn[Seated[m][i]] <= highCap
      BY <3>1 DEF CapHolds
    <3>5. amount \in Nat
      BY <3>2 DEF amount
    <3> QED BY <3>3, <3>4, <3>5 DEF Capped, Least
  <2>5. Owed(m, k) \in [1..Len(Seated[m]) -> Nat]
    BY <2>3, <2>4 DEF Owed
  <2>6. Owed(m, k) \in Seq(Nat)
    <3> DEFINE n == Len(Seated[m])
    <3>1. Owed(m, k) \in UNION {[1..j -> Nat] : j \in Nat}
      BY <2>3, <2>5, Zenon
    <3> QED BY <3>1, SeqDef, Zenon
  <2>7. DOMAIN Owed(m, k) = DOMAIN Seated[m]
    BY DEF Owed
  <2> HIDE DEF Owed
  <2>8. c \in ClaimType /\ ClaimOk(c)'
    BY <2>c, <2>2, <2>3, <2>4, <2>6, <2>7 DEF ClaimType, ClaimOk
  <2> QED BY <2>2, <2>8 DEF CapHolds
<1>2. ASSUME NEW c \in ClaimType, calls = <<c>>, ClaimOk(c), calls' = Onward(c),
             UNCHANGED <<funds, refundedOn, cap, highCap>>
      PROVE  RefundInv'
  <2>1. CASE Onward(c) = <<>>
    BY <1>2, <2>1 DEF CapHolds
  <2>2. CASE Onward(c) = <<NextSeat(c)>> /\ c.at + 1 \in DOMAIN Seated[c.of]
    <3>1. NextSeat(c) \in ClaimType
      BY NextSeatIs
    <3>2. Seated[c.of] \in Seq(NodeKeys)
      BY <1>t DEF ClaimType
    <3>4. NextSeat(c).at = c.at + 1 /\ NextSeat(c).of = c.of /\ NextSeat(c).owed = c.owed
          /\ c.at \in Nat
      BY DEF NextSeat, ClaimType
    <3>5. refundedOn' = refundedOn /\ highCap' = highCap /\ DOMAIN Seated[c.of] \subseteq Int
      BY <1>2, <3>2
    <3>6. ASSUME NEW i \in DOMAIN Seated[c.of], i >= c.at + 1
          PROVE  refundedOn'[Seated[c.of][i]] + c.owed[i] <= highCap'
      <4>1. i \in Int /\ i > c.at
        BY <3>4, <3>5, <3>6
      <4> QED BY <1>2, <3>5, <4>1 DEF ClaimOk
    <3>7. DOMAIN c.owed = DOMAIN Seated[c.of]
      BY <1>2 DEF ClaimOk
    <3>3. ClaimOk(NextSeat(c))'
      BY <2>2, <3>4, <3>5, <3>6, <3>7 DEF ClaimOk
    <3> QED BY <1>2, <2>2, <3>1, <3>3 DEF CapHolds
  <2> QED BY <1>2, <2>1, <2>2, OneClaimGoesOn
<1>3. ASSUME Depth > 0
      PROVE  \E c \in ClaimType : calls = <<c>> /\ ClaimOk(c) /\ Running = c /\ Depth = 1
  BY <1>3 DEF Depth, Running
<1>4. CASE Skip
  <2>1. PICK c \in ClaimType : calls = <<c>> /\ ClaimOk(c) /\ Running = c /\ Depth = 1
    BY <1>3, <1>4 DEF Skip
  <2> QED BY <1>2, <1>4, <2>1 DEF Skip
<1>5. CASE Accepted
  <2>1. PICK c \in ClaimType : calls = <<c>> /\ ClaimOk(c) /\ Running = c /\ Depth = 1
    BY <1>3, <1>5 DEF Accepted, InCallback
  <2> QED BY <1>2, <1>5, <2>1 DEF Accepted
<1>6. CASE PaySeat
  <2>1. PICK c \in ClaimType : calls = <<c>> /\ ClaimOk(c) /\ Running = c /\ Depth = 1
    BY <1>3, <1>6 DEF PaySeat
  <2> DEFINE k == Seated[c.of][c.at]
             wei == c.owed[c.at]
             d == [c EXCEPT !.inside = TRUE]
  <2>2. /\ ~c.inside /\ 0 < wei /\ funds' = funds - wei
        /\ refundedOn' = [refundedOn EXCEPT ![k] = @ + wei]
        /\ UNCHANGED <<cap, highCap>>
        /\ calls' = IF k \in Callbacks THEN [calls EXCEPT ![1].inside = TRUE] ELSE Onward(c)
    BY <1>6, <2>1 DEF PaySeat, PayeeOf
  <2>3. c.of \in Finals /\ Seated[c.of] \in Seq(NodeKeys) /\ c.at \in DOMAIN Seated[c.of]
        /\ c.owed \in Seq(Nat) /\ DOMAIN c.owed = DOMAIN Seated[c.of]
    BY <1>t, <2>1 DEF ClaimType, ClaimOk
  <2>4. k \in NodeKeys /\ wei \in Nat
    <3>1. c.at \in 1..Len(Seated[c.of]) /\ c.at \in 1..Len(c.owed)
      BY <2>3
    <3> QED BY <2>3, <3>1, ElementOfSeq
  <2>5. refundedOn[k] + wei <= highCap
    BY <2>1, <2>2, <2>3 DEF ClaimOk
  <2>6. refundedOn' \in [NodeKeys -> Nat] /\ funds' \in Int /\ CapHolds'
    BY <2>2, <2>4, <2>5 DEF CapHolds
  <2>7. ASSUME NEW i \in DOMAIN Seated[c.of], i > c.at
        PROVE  refundedOn'[Seated[c.of][i]] + c.owed[i] <= highCap
    <3>1. i # c.at
      BY <2>3, <2>7
    <3>2. Seated[c.of][i] # k
      BY <1>t, <2>3, <3>1
    <3>3. Seated[c.of][i] \in NodeKeys
      BY <2>3
    <3>4. refundedOn'[Seated[c.of][i]] = refundedOn[Seated[c.of][i]]
      BY <2>2, <3>2, <3>3
    <3> QED BY <2>1, <2>7, <3>4 DEF ClaimOk
  <2>8. d \in ClaimType /\ ClaimOk(d)'
    BY <2>2, <2>3, <2>7 DEF ClaimType, ClaimOk
  <2>9. CASE k \in Callbacks
    <3>1. calls' = [<<c>> EXCEPT ![1].inside = TRUE]
      BY <2>1, <2>2, <2>9
    <3>2. <<c>> \in Seq(ClaimType) /\ <<d>> \in Seq(ClaimType) /\ Len(<<c>>) = 1 /\ <<c>>[1] = c
          /\ DOMAIN <<c>> = 1..1 /\ Len(<<d>>) = 1 /\ <<d>>[1] = d
      BY <2>1, <2>8
    <3>3. [<<c>> EXCEPT ![1] = d] \in Seq(ClaimType) /\ Len([<<c>> EXCEPT ![1] = d]) = 1
          /\ [<<c>> EXCEPT ![1] = d][1] = d
      BY <2>8, <3>2
    <3>4. calls' = [<<c>> EXCEPT ![1] = d]
      BY <3>1, <3>2
    <3>5. calls' = <<d>>
      <4> DEFINE s == [<<c>> EXCEPT ![1] = d]
                 t == <<d>>
      <4>1. s \in Seq(ClaimType) /\ t \in Seq(ClaimType) /\ Len(s) = Len(t)
            /\ Len(s) = 1 /\ s[1] = t[1]
        BY <3>2, <3>3, Zenon
      <4> HIDE DEF s, t
      <4>2. \A i \in 1..Len(s) : s[i] = t[i]
        BY <4>1
      <4>3. s = t
        BY <4>1, <4>2, SeqEqual
      <4> QED BY <3>4, <4>3 DEF s, t
    <3> QED BY <2>2, <2>6, <2>8, <3>5
  <2>10. CASE k \notin Callbacks /\ Onward(c) = <<>>
    BY <2>2, <2>6, <2>10
  <2>11. CASE k \notin Callbacks /\ Onward(c) = <<NextSeat(c)>> /\ c.at + 1 \in DOMAIN Seated[c.of]
    <3>1. NextSeat(c) \in ClaimType
      BY NextSeatIs
    <3>2. NextSeat(c).at = c.at + 1 /\ NextSeat(c).of = c.of /\ NextSeat(c).owed = c.owed
          /\ c.at \in Nat
      BY <2>1 DEF NextSeat, ClaimType
    <3>3. ASSUME NEW i \in DOMAIN Seated[c.of], i >= c.at + 1
          PROVE  refundedOn'[Seated[c.of][i]] + c.owed[i] <= highCap'
      <4>1. i \in Int /\ i > c.at
        BY <2>3, <3>2, <3>3
      <4> QED BY <2>2, <2>7, <4>1
    <3>4. DOMAIN Seated[c.of] \subseteq Int
      BY <2>3
    <3>5. ClaimOk(NextSeat(c))'
      BY <2>3, <2>11, <3>2, <3>3, <3>4 DEF ClaimOk
    <3> QED BY <2>2, <2>6, <2>11, <3>1, <3>5
  <2> QED BY <2>1, <2>9, <2>10, <2>11, OneClaimGoesOn
<1>7. CASE Deposit \/ WithdrawFunds \/ SetPaused
  <2>1. UNCHANGED <<refundedOn, cap, highCap, calls>> /\ funds' \in Int
    BY <1>7 DEF Deposit, WithdrawFunds, SetPaused
  <2> QED BY <2>1 DEF CapHolds, ClaimOk
<1>8. CASE SetCap
  <2>1. /\ UNCHANGED <<funds, refundedOn, calls>> /\ cap' \in Nat /\ highCap' \in Nat
        /\ cap' <= highCap' /\ highCap <= highCap'
    BY <1>8, <1>t DEF SetCap
  <2>2. CapHolds'
    BY <2>1 DEF CapHolds
  <2>3. ASSUME NEW c \in ClaimType, ClaimOk(c) PROVE ClaimOk(c)'
    <3>1. \A i \in DOMAIN Seated[c.of] : Seated[c.of][i] \in NodeKeys /\ c.owed[i] \in Nat
      BY <1>t, <2>3 DEF ClaimType, ClaimOk
    <3> QED BY <2>1, <2>3, <3>1 DEF ClaimOk
  <2> QED BY <2>1, <2>2, <2>3
<1>9. CASE NextDay
  <2>1. calls = <<>> /\ calls' = <<>>
    BY <1>3, <1>9 DEF NextDay, Depth
  <2> QED BY <1>9, <2>1 DEF NextDay, NoWei, CapHolds
<1>10. CASE UNCHANGED refundVars
  BY <1>10 DEF refundVars, CapHolds, ClaimOk
<1> QED BY <1>1, <1>4, <1>5, <1>6, <1>7, <1>8, <1>9, <1>10 DEF RefundNext

(* A claim reckons its shares before it pays them and a payee's code runs in
   between: for any caps, any payees and any number of claims, no key is paid
   more in a day than the highest cap of that day. *)
THEOREM CapIsKept == RefundSpec => []CapHolds
<1>1. RefundInv => CapHolds
  BY DEF RefundInv
<1> QED BY <1>1, RefundInitKeeps, RefundStepKeeps, PTL DEF RefundSpec
=============================================================================
