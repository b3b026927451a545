------------------------------ MODULE NodeStake ------------------------------
(***************************************************************************)
(* The bond ledger of contracts/NodeStake.sol: what an operator locks for  *)
(* a node key, when it may leave, and what an adjudicator may cut from it. *)
(*                                                                         *)
(* A transaction is one atomic action; msg.sender is its first parameter,  *)
(* called a.  A call that reverts changes nothing, so its reverting checks *)
(* are the action's guard.  The staked ERC-20 is external: wallet and      *)
(* vault are its balances, and tokenUp says whether its transfers succeed. *)
(***************************************************************************)
EXTENDS Integers, FiniteSets, Totals

CONSTANTS
    Key,        \* node keys
    Address,    \* wallets and contracts: operators, delegates, admin, treasury
    NoAddress,  \* address(0)
    Signed,     \* the pairs <<k, a>> such that k signed bondMessage(a)
    Terms,      \* the parameter records setParams may be called with
    Genesis,    \* the deployment a run starts from: bonds, wallets, terms, ...
    Amounts,    \* the amounts bond() and stake() are called with
    SlashRates, \* the basis points slash() is called with
    Delegates,  \* the addresses setDelegate() is called with
    Movers,     \* the keys whose operators transfer, delegate and unstake them
    Takers,     \* the addresses transferOperator() is called with
    Judges,     \* the contracts setAdjudicator() is called with
    MaxTerm,    \* MAX_TERM
    BlockTimes, \* how far the clock moves from one block to the next
    LastMove,   \* bound: operators and admins act no later than this
    MaxTime     \* bound: the clock stops here

BPS == 10000    \* basis points in the whole of a bond

VARIABLES
    node,         \* NodeStake.nodes: the bond of every key
    totalActive,  \* stake of the nodes that are not unbonding
    adjudicators, \* contracts allowed to slash
    terms,        \* minStake, lockTerm, eligibilityAge, unbondingPeriod, admin, treasury
    wallet,       \* the token's balance of every address
    vault,        \* the token's balance of the contract itself
    tokenUp,      \* whether a token transfer succeeds
    now           \* block.timestamp

stakeVars == <<node, totalActive, adjudicators, terms, wallet, vault, tokenUp, now>>

Holder == Address \cup {NoAddress}
BondType == [operator: Holder, delegate: Holder, amount: Nat,
             bondedSince: Nat, lastStakedAt: Nat, unbondAt: Nat]
TermType == [minStake: Nat, lockTerm: 0..MaxTerm, eligibilityAge: 0..MaxTerm,
             unbondingPeriod: 1..MaxTerm, admin: Address, treasury: Address]
Unbound == [operator |-> NoAddress, delegate |-> NoAddress, amount |-> 0,
            bondedSince |-> 0, lastStakedAt |-> 0, unbondAt |-> 0]

Stakes(n) == [k \in Key |-> n[k].amount]
Staying(n) == {k \in Key : n[k].unbondAt = 0}

ASSUME NodeStakeAssumption ==
    /\ IsFiniteSet(Key)
    /\ NoAddress \notin Address
    /\ Signed \subseteq Key \X Address
    /\ MaxTerm \in Nat \ {0}
    /\ Terms \subseteq TermType
    /\ Amounts \subseteq Nat
    /\ SlashRates \subseteq Nat
    /\ Delegates \subseteq Address \cup {NoAddress}
    /\ Movers \subseteq Key
    /\ Takers \subseteq Address /\ Judges \subseteq Address
    /\ BlockTimes \subseteq Nat
    /\ LastMove \in Nat /\ MaxTime \in Nat
    /\ Genesis \in [node: [Key -> BondType], totalActive: Nat,
                    adjudicators: SUBSET Address, terms: TermType,
                    wallet: [Address -> Nat], vault: Nat,
                    now: {t \in Nat : t > MaxTerm}]   \* unix time is far past one year
    /\ Genesis.vault = TotalOf(Key, Stakes(Genesis.node))
    /\ Genesis.totalActive = Genesis.vault
    /\ \A k \in Key : /\ Genesis.node[k].unbondAt = 0
                      /\ Genesis.node[k].lastStakedAt = 0 => Genesis.node[k].bondedSince = 0

Init ==
    /\ node = Genesis.node
    /\ totalActive = Genesis.totalActive
    /\ adjudicators = Genesis.adjudicators
    /\ terms = Genesis.terms
    /\ wallet = Genesis.wallet
    /\ vault = Genesis.vault
    /\ tokenUp = TRUE
    /\ now = Genesis.now

-----------------------------------------------------------------------------
(* Reads: standingOf, witnessEligible, mayActFor *)

Active(k) == node[k].unbondAt = 0 /\ node[k].amount >= terms.minStake
WitnessEligible(k) == Active(k) /\ now >= node[k].lastStakedAt + terms.eligibilityAge
MayActFor(k, a) == a # NoAddress /\ a \in {node[k].operator, node[k].delegate}

(* The token, external: transferFrom(a, this, amt) and transfer(a, amt) *)

Pull(a, amt) ==
    /\ tokenUp /\ wallet[a] >= amt
    /\ wallet' = [wallet EXCEPT ![a] = @ - amt]
    /\ vault' = vault + amt
Pay(a, amt) ==
    /\ tokenUp /\ vault >= amt
    /\ wallet' = [wallet EXCEPT ![a] = @ + amt]
    /\ vault' = vault - amt
TokenFails == tokenUp /\ tokenUp' = FALSE
TokenRecovers == ~tokenUp /\ tokenUp' = TRUE

-----------------------------------------------------------------------------
(* The operator's calls *)

(* A bond with amt more in it: the lock counts from the first stake of this
   bond, the eligibility age from the last. *)
Credited(b, amt) ==
    [b EXCEPT !.bondedSince = IF @ = 0 THEN now ELSE @,
              !.lastStakedAt = now,
              !.amount = @ + amt]

Add(a, k, amt, b) ==
    /\ node[k].unbondAt = 0
    /\ Pull(a, amt)
    /\ node' = [node EXCEPT ![k] = Credited(b, amt)]
    /\ totalActive' = totalActive + amt

Bond(a, k, amt) ==
    /\ now <= LastMove
    /\ amt # 0 /\ amt >= terms.minStake
    /\ node[k].operator = NoAddress
    /\ <<k, a>> \in Signed
    /\ Add(a, k, amt, [node[k] EXCEPT !.operator = a])
    /\ UNCHANGED <<adjudicators, terms, tokenUp, now>>

Stake(a, k, amt) ==
    /\ now <= LastMove
    /\ amt # 0
    /\ node[k].operator = a
    /\ Add(a, k, amt, node[k])
    /\ UNCHANGED <<adjudicators, terms, tokenUp, now>>

TransferOperator(a, k, to) ==
    /\ now <= LastMove
    /\ node[k].operator = a
    /\ node' = [node EXCEPT ![k].operator = to]
    /\ UNCHANGED <<totalActive, adjudicators, terms, wallet, vault, tokenUp, now>>

SetDelegate(a, k, d) ==
    /\ now <= LastMove
    /\ node[k].operator = a
    /\ node' = [node EXCEPT ![k].delegate = d]
    /\ UNCHANGED <<totalActive, adjudicators, terms, wallet, vault, tokenUp, now>>

Unstake(a, k) ==
    /\ now <= LastMove
    /\ node[k].operator = a
    /\ node[k].unbondAt = 0
    /\ now >= node[k].bondedSince + terms.lockTerm
    /\ node' = [node EXCEPT ![k].unbondAt = now + terms.unbondingPeriod]
    /\ totalActive' = totalActive - node[k].amount
    /\ UNCHANGED <<adjudicators, terms, wallet, vault, tokenUp, now>>

(* What withdraw() leaves of a bond: only its operator. *)
Emptied_LockKept(b) == [Unbound EXCEPT !.operator = b.operator, !.bondedSince = b.bondedSince]
Emptied_StillUnbonding(b) == [Unbound EXCEPT !.operator = b.operator, !.unbondAt = b.unbondAt]
Emptied_AmountKept(b) == [Unbound EXCEPT !.operator = b.operator, !.amount = b.amount]
Emptied(b) == [Unbound EXCEPT !.operator = b.operator]

Unbonded_AtOnce(k) == node[k].unbondAt # 0
Unbonded(k) == node[k].unbondAt # 0 /\ now >= node[k].unbondAt

Withdraw(a, k) ==
    /\ node[k].operator = a
    /\ Unbonded(k)
    /\ Pay(a, node[k].amount)
    /\ node' = [node EXCEPT ![k] = Emptied(@)]
    /\ UNCHANGED <<totalActive, adjudicators, terms, tokenUp, now>>

-----------------------------------------------------------------------------
(* Adjudication.  One transaction of an adjudicator may call slash() on
   several keys: rate is a function from the slashed keys to basis points. *)

Cut(k, bps) == (node[k].amount * bps) \div BPS
Cuts(rate) == [k \in DOMAIN rate |-> Cut(k, rate[k])]
CutActive_Unbonding(rate) == TotalOf(DOMAIN rate, Cuts(rate))
CutActive(rate) == TotalOf(DOMAIN rate \cap Staying(node), Cuts(rate))

SlashAll(a, rate) ==
    LET cut == TotalOf(DOMAIN rate, Cuts(rate))
    IN  /\ a \in adjudicators
        /\ \A k \in DOMAIN rate : rate[k] <= BPS
        /\ node' = [k \in Key |-> IF k \in DOMAIN rate
                                  THEN [node[k] EXCEPT !.amount = @ - Cut(k, rate[k])]
                                  ELSE node[k]]
        /\ totalActive' = totalActive - CutActive(rate)
        /\ IF cut > 0 THEN Pay(terms.treasury, cut) ELSE UNCHANGED <<wallet, vault>>

Slash(a, k, bps) ==
    /\ SlashAll(a, [x \in {k} |-> bps])
    /\ UNCHANGED <<adjudicators, terms, tokenUp, now>>

(* The admin *)

SetAdjudicator(a, c, allowed) ==
    /\ now <= LastMove
    /\ a = terms.admin
    /\ adjudicators' = IF allowed THEN adjudicators \cup {c} ELSE adjudicators \ {c}
    /\ UNCHANGED <<node, totalActive, terms, wallet, vault, tokenUp, now>>

SetParams(a, t) ==
    /\ now <= LastMove
    /\ a = terms.admin
    /\ terms' = t
    /\ UNCHANGED <<node, totalActive, adjudicators, wallet, vault, tokenUp, now>>

(* External: the next block's timestamp, and a token that stops or recovers *)

Tick ==
    /\ \E d \in BlockTimes : now + d <= MaxTime /\ now' = now + d
    /\ UNCHANGED <<node, totalActive, adjudicators, terms, wallet, vault, tokenUp>>

TokenTurns ==
    /\ TokenFails \/ TokenRecovers
    /\ UNCHANGED <<node, totalActive, adjudicators, terms, wallet, vault, now>>

OperatorNext(a, k) ==
    \/ \E amt \in Amounts : Bond(a, k, amt) \/ Stake(a, k, amt)
    \/ /\ k \in Movers
       /\ \/ \E to \in Takers : TransferOperator(a, k, to)
          \/ \E d \in Delegates : SetDelegate(a, k, d)
          \/ Unstake(a, k)
    \/ Withdraw(a, k)

AdminNext(a) ==
    \/ \E c \in Judges, allowed \in BOOLEAN : SetAdjudicator(a, c, allowed)
    \/ \E t \in Terms : SetParams(a, t)

Next ==
    \/ \E a \in Address, k \in Key : OperatorNext(a, k)
    \/ \E a \in Address, k \in Key, bps \in SlashRates : Slash(a, k, bps)
    \/ \E a \in Address : AdminNext(a)
    \/ Tick
    \/ TokenTurns

(* Time passes, a failing token is repaired, and an operator that is owed
   its bond keeps asking for it until a call succeeds. *)
Fairness ==
    /\ WF_stakeVars(Tick)
    /\ WF_stakeVars(TokenTurns /\ tokenUp')
    /\ \A k \in Key : SF_stakeVars(\E a \in Address : Withdraw(a, k))

Spec == Init /\ [][Next]_stakeVars /\ Fairness

-----------------------------------------------------------------------------
(* Every field of the contract's state keeps the range its Solidity type and
   the MAX_TERM checks give it; in particular totalActive never underflows. *)
TypeOK ==
    /\ node \in [Key -> BondType]
    /\ totalActive \in Nat
    /\ adjudicators \subseteq Address
    /\ terms \in TermType
    /\ wallet \in [Address -> Nat]
    /\ vault \in Nat
    /\ tokenUp \in BOOLEAN
    /\ now \in Nat /\ now > MaxTerm

(* The contract holds exactly the bonds it owes: over any history of stakes,
   withdrawals and slashes no operator is paid with another one's stake. *)
Solvent == vault = TotalOf(Key, Stakes(node))

(* totalActive, the denominator of EpochAnchor's quorum, is the stake of the
   keys that are not unbonding, whether a slash hit them before or after
   they began to leave. *)
TotalActiveIsSum == totalActive = TotalOf(Staying(node), Stakes(node))

(* Tokens leave the contract only to the treasury, or to a key's operator as
   that key's whole bond, once it has sat out the lock and the unbonding
   period of one of the terms ever in force, counted from its own first
   stake: never to a delegate or a former operator, never sooner because the
   admin changed the terms meanwhile, and never on the lock of an earlier
   bond of the same key, which bonds anew after it withdrew. *)
EverInForce == Terms \cup {Genesis.terms}
Served(t, since, until) == until >= since + t.lockTerm + t.unbondingPeriod
Paid(a) ==
    wallet'[a] > wallet[a] =>
      \E k \in Key : /\ node[k].operator = a
                     /\ wallet'[a] = wallet[a] + node[k].amount
                     /\ node'[k].amount = 0
                     /\ \E t \in EverInForce : Served(t, node[k].bondedSince, now)
StartsLock(k) ==
    node[k].lastStakedAt = 0 /\ node'[k].lastStakedAt # 0 => node'[k].bondedSince = now
PaidOnlyAfterTerm ==
    [][/\ \A a \in Address \ {terms.treasury} : Paid(a)
       /\ \A k \in Key : StartsLock(k)]_stakeVars

(* Stake that was just added never counts as a witness's: a top-up, a first
   bond and a re-bond all restart the eligibility age, so nobody adds weight
   on the morning of an escalation. *)
NewStakeIsNotEligible ==
    [][\A k \in Key : /\ node'[k].amount > node[k].amount
                      /\ terms.eligibilityAge > 0
                      => ~WitnessEligible(k)']_stakeVars

(* Unbonding always ends: no slash, top-up or change of terms after unstake()
   keeps a key unbonding for ever. *)
UnbondingEnds == \A k \in Key : (node[k].unbondAt # 0) ~> (node[k].unbondAt = 0)
=============================================================================
