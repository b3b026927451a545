----------------------------- MODULE EpochAnchor -----------------------------
(***************************************************************************)
(* The hourly root of contracts/EpochAnchor.sol: bonded node keys propose  *)
(* one root each for an hour that is over, and the first root whose        *)
(* support, in bonded stake, reaches the quorum is the hour's for good.    *)
(*                                                                         *)
(* The bonds are NodeStake's, read through mayActFor, standingOf and       *)
(* totalActive in the transaction that proposes.  Roots are abstract;      *)
(* verifyInclusion only reads.                                             *)
(***************************************************************************)
EXTENDS NodeStake

CONSTANTS
    Epoch,      \* the hours proposed for
    Root,       \* roots
    NoRoot,     \* bytes32(0)
    Hour,       \* 3600 seconds
    Quorums,    \* the basis points setParams() is called with
    AnchorGenesis   \* the quorum and the admin a run starts from

VARIABLES
    anchors,    \* the finalized root of every hour
    support,    \* epoch -> root -> stake counted behind it
    proposalOf, \* epoch -> node key -> the root it proposed
    quorum      \* quorumBps and the admin

anchorVars == <<anchors, support, proposalOf, quorum>>
allVars == <<stakeVars, anchorVars>>

RootOrNone == Root \cup {NoRoot}
Anchored == [root: Root, finalizedAt: Nat, support: Nat \ {0}, totalActive: Nat \ {0}]
QuorumType == [bps: 1..BPS, admin: Address]
Unanchored == [root |-> NoRoot, finalizedAt |-> 0, support |-> 0, totalActive |-> 0]

ASSUME EpochAnchorAssumption ==
    /\ Epoch \subseteq Nat
    /\ NoRoot \notin Root
    /\ Hour \in Nat \ {0}
    /\ Quorums \subseteq 1..BPS
    /\ AnchorGenesis \in QuorumType

AnchorInit ==
    /\ anchors = [e \in Epoch |-> Unanchored]
    /\ support = [e \in Epoch |-> [r \in Root |-> 0]]
    /\ proposalOf = [e \in Epoch |-> [k \in Key |-> NoRoot]]
    /\ quorum = AnchorGenesis

-----------------------------------------------------------------------------
HourOver(e) == e < now \div Hour

Undecided_Always(e) == TRUE
Undecided(e) == anchors[e].root = NoRoot

Fresh(e, k) == proposalOf[e][k] = NoRoot

(* The quorum: bps of the stake that is active now, rounded up. *)
Needed_Down(total) == (total * quorum.bps) \div BPS
Needed(total) == (total * quorum.bps + BPS - 1) \div BPS
Enough(s) == s >= Needed(totalActive) /\ totalActive > 0

Propose(a, e, r, k) ==
    LET s == support[e][r] + node[k].amount
    IN  /\ HourOver(e)
        /\ MayActFor(k, a)
        /\ Active(k)
        /\ Undecided(e)
        /\ Fresh(e, k)
        /\ proposalOf' = [proposalOf EXCEPT ![e][k] = r]
        /\ support' = [support EXCEPT ![e][r] = s]
        /\ anchors' = IF Enough(s)
                      THEN [anchors EXCEPT ![e] = [root |-> r, finalizedAt |-> now,
                                                   support |-> s, totalActive |-> totalActive]]
                      ELSE anchors
        /\ UNCHANGED <<stakeVars, quorum>>

SetQuorum(a, bps) ==
    /\ now <= LastMove
    /\ a = quorum.admin
    /\ quorum' = [quorum EXCEPT !.bps = bps]
    /\ UNCHANGED <<stakeVars, anchors, support, proposalOf>>

ProposeNext ==
    \E a \in Address, e \in Epoch, r \in Root, k \in Key : Propose(a, e, r, k)

AnchorNext ==
    \/ ProposeNext
    \/ \E a \in Address, bps \in Quorums : SetQuorum(a, bps)
    \/ Next /\ UNCHANGED anchorVars

AnchorSpec == Init /\ AnchorInit /\ [][AnchorNext]_allVars

-----------------------------------------------------------------------------
(* Every field of the contract keeps the range of its Solidity type, and a
   finalized root has stake behind it: an empty network anchors nothing. *)
AnchorTypeOK ==
    /\ anchors \in [Epoch -> Anchored \cup {Unanchored}]
    /\ support \in [Epoch -> [Root -> Nat]]
    /\ proposalOf \in [Epoch -> [Key -> RootOrNone]]
    /\ quorum \in QuorumType

(* An anchor is immutable: no later proposal, for the same root or another,
   and no change of the quorum touches an hour that has its root, and no hour
   gets one before it is over. *)
AnchorStands ==
    [][\A e \in Epoch : anchors'[e] # anchors[e] =>
         anchors[e].root = NoRoot /\ now >= (e + 1) * Hour]_allVars

Behind(e, r) == {k \in Key : proposalOf[e][k] = r}
HeldBehind(e, r) == Behind(e, r) \cap Staying(node)

(* "A finalized EpochAnchor root proves that nodes holding quorumBps of the
   active stake committed to it" (contracts/MIGRATION.md): when an hour gets
   its root, the bonds of the keys that proposed it, as they are then, are
   that share of what is bonded then. *)
AnchorHeldByQuorum ==
    [][\A e \in Epoch : anchors'[e] # anchors[e] =>
         TotalOf(HeldBehind(e, anchors[e].root), Stakes(node))' * BPS
           >= totalActive * quorum.bps]_allVars

(* What the support counts on, and the contract does not see to: a key that has
   proposed a root neither begins to leave nor loses any of its bond. *)
HasProposed(k) == \E e \in Epoch : proposalOf[e][k] # NoRoot
ProposersStay ==
    \A k \in Key : HasProposed(k) =>
        /\ node'[k].amount >= node[k].amount
        /\ node[k].unbondAt = 0 => node'[k].unbondAt = 0

(* "Quorum is reachable without any two nodes talking" (EpochAnchor.sol):
   once every active key has proposed the same root, the hour has it. *)
ActiveKeys == {k \in Key : Active(k)}
UnanimousAnchors ==
    \A e \in Epoch, r \in Root :
        ActiveKeys # {} /\ totalActive > 0 /\ ActiveKeys \subseteq Behind(e, r)
          => anchors[e].root # NoRoot

(* The support an hour has gathered never exceeds what the keys that proposed
   for it have bonded: no bond backs two roots of an hour, or one root twice. *)
SupportIsBonded ==
    \A e \in Epoch, r \in Root : support[e][r] <= TotalOf(Behind(e, r), Stakes(node))
=============================================================================
