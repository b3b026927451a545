---------------------------- MODULE TitleRegistry ----------------------------
(* contracts/TitleRegistry.sol: who publishes a title, who else may hand it
   over, and its builds, which wait before nodes load them and never come back
   once revoked.  A call that reverts changes nothing. *)
EXTENDS Naturals, FiniteSets

CONSTANTS Titles, Hashes, People, NoOne,
          ActivationDelay, LastBlock  \* LastBlock: bound

ASSUME TitleAssumption ==
    /\ NoOne \notin People /\ ActivationDelay \in Nat /\ LastBlock \in Nat
    /\ IsFiniteSet(Titles)

VARIABLES
  holder,     \* holder[t]: the publisher
  approved,   \* approved[t]: who may take it over
  grantor,    \* grantor[t]: the publisher in whose tenure that was said
  tenure,     \* tenure[t]: how often t was handed over
  operators,  \* <<a, b>>: b acts for a on every title of a
  balance,    \* balance[a]: titles of a
  build,      \* build[t][h]: [since, from, revoked], or never registered
  block

titleVars == <<holder, approved, grantor, tenure, operators, balance, build, block>>

Unregistered == [since |-> LastBlock + 1, from |-> 0, revoked |-> FALSE]
Registered(b) == b # Unregistered

TitleInit ==
    /\ holder = [t \in Titles |-> NoOne] /\ approved = holder
    /\ grantor = [t \in Titles |-> 0] /\ tenure = grantor
    /\ operators = {} /\ balance = [a \in People |-> 0]
    /\ build = [t \in Titles |-> [h \in Hashes |-> Unregistered]]
    /\ block = 0

Built(t, h, from) == [build EXCEPT ![t][h] = [since |-> block, from |-> from, revoked |-> FALSE]]

RegisterTitle(a, t, h) ==
    /\ holder[t] = NoOne
    /\ holder' = [holder EXCEPT ![t] = a]
    /\ balance' = [balance EXCEPT ![a] = @ + 1]
    /\ build' = Built(t, h, block)
    /\ UNCHANGED <<approved, grantor, tenure, operators, block>>

MayBuild_Again(t, h) == ~Registered(build[t][h]) \/ build[t][h].revoked
MayBuild(t, h) == ~Registered(build[t][h])

(* A build of a later date may be scheduled, an earlier one not. *)
SetBuild(a, t, h) ==
    /\ holder[t] = a /\ MayBuild(t, h)
    /\ \E late \in 0..1 : build' = Built(t, h, block + ActivationDelay + late)
    /\ UNCHANGED <<holder, approved, grantor, tenure, operators, balance, block>>

RevokeBuild(a, t, h) ==
    /\ holder[t] = a /\ Registered(build[t][h])
    /\ build' = [build EXCEPT ![t][h].revoked = TRUE]
    /\ UNCHANGED <<holder, approved, grantor, tenure, operators, balance, block>>

Approve(a, t, to) ==
    /\ holder[t] # NoOne /\ (holder[t] = a \/ <<holder[t], a>> \in operators)
    /\ approved' = [approved EXCEPT ![t] = to]
    /\ grantor' = [grantor EXCEPT ![t] = tenure[t]]
    /\ UNCHANGED <<holder, tenure, operators, balance, build, block>>

SetApprovalForAll(a, b) ==
    /\ operators' = IF <<a, b>> \in operators THEN operators \ {<<a, b>>} ELSE operators \cup {<<a, b>>}
    /\ UNCHANGED <<holder, approved, grantor, tenure, balance, build, block>>

ApprovedAfter_Kept(t) == approved[t]
ApprovedAfter(t) == NoOne

Moved(from, to) == [[balance EXCEPT ![from] = @ - 1] EXCEPT ![to] = @ + 1]

(* safeTransferFrom hands over the same way; a recipient that does not answer
   undoes it. *)
TransferTitle(a, t, to) ==
    LET from == holder[t] IN
    /\ from # NoOne /\ (a = from \/ a = approved[t] \/ <<from, a>> \in operators)
    /\ holder' = [holder EXCEPT ![t] = to]
    /\ approved' = [approved EXCEPT ![t] = ApprovedAfter(t)]
    /\ tenure' = [tenure EXCEPT ![t] = @ + 1]
    /\ balance' = Moved(from, to)
    /\ UNCHANGED <<grantor, operators, build, block>>

NextBlock ==
    /\ block < LastBlock /\ block' = block + 1
    /\ UNCHANGED <<holder, approved, grantor, tenure, operators, balance, build>>

MaxTenure == 2  \* bound on the hand-overs of a title

TitleNext ==
    \/ \E a \in People, t \in Titles :
         \/ \E h \in Hashes : RegisterTitle(a, t, h) \/ SetBuild(a, t, h) \/ RevokeBuild(a, t, h)
         \/ \E to \in People \cup {NoOne} : Approve(a, t, to)
         \/ \E to \in People : tenure[t] < MaxTenure /\ TransferTitle(a, t, to)
    \/ \E a, b \in People : a # b /\ SetApprovalForAll(a, b)
    \/ NextBlock

TitleSpec == TitleInit /\ [][TitleNext]_titleVars

-----------------------------------------------------------------------------
(* Properties *)

TitleTypeOK ==
    /\ {holder, approved} \subseteq [Titles -> People \cup {NoOne}]
    /\ {grantor, tenure} \subseteq [Titles -> 0..MaxTenure] /\ block \in 0..LastBlock
    /\ operators \subseteq People \X People
    /\ balance \in [People -> 0..Cardinality(Titles)]
    /\ build \in [Titles -> [Hashes -> [since : 0..LastBlock + 1, from : Nat, revoked : BOOLEAN]]]

(* Whoever is approved for a title was approved under its present publisher:
   what an earlier one allowed ended with the hand-over, also when the title
   comes back to that publisher. *)
ApprovalIsPresent == \A t \in Titles : approved[t] # NoOne => grantor[t] = tenure[t]

(* balanceOf counts the titles of everyone, a title handed to its own publisher
   included. *)
BalancesCount == \A a \in People : balance[a] = Cardinality({t \in Titles : holder[t] = a})

(* A revoked build is never loaded again, whoever publishes the title then. *)
RevokedForGood ==
    [][\A t \in Titles, h \in Hashes : build[t][h].revoked => build'[t][h] = build[t][h]]_titleVars

=============================================================================
