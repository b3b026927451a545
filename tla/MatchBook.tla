------------------------------ MODULE MatchBook ------------------------------
(***************************************************************************)
(* The life of a ranked match in contracts/MatchBook.sol, composed with    *)
(* the bonds of NodeStake that it reads and slashes: commit, settle,       *)
(* attest, finalize, escalate, resolve, expire, and the witness pool.      *)
(*                                                                         *)
(* A transaction is one action.  Hashes are abstract values: the ledger,   *)
(* the descriptor, the scores and the custodians of a match are left out,  *)
(* and "somebody posts the ledger" is the choice to take Escalate.  The    *)
(* pseudo-random draw is a choice among all the panels a seed can seat.    *)
(***************************************************************************)
EXTENDS NodeStake

CONSTANTS
    Match,        \* match identifiers
    Hash,         \* result hashes
    NoHash,       \* bytes32(0)
    Book,         \* this contract's address: the adjudicator NodeStake knows
    PanelSize,    \* PANEL = 3
    Seats,        \* ESCALATION_PANEL = 9
    MaxPoolCap,   \* MAX_POOL_CAP = 1024
    SeedDepth,    \* external: how many blocks back blockhash() still answers (256)
    Offers,       \* the pairs <<host, panel>> commit() is called with
    BookTerms,    \* the parameter records setParams() is called with
    PoolCaps,     \* the values setMaxPool() is called with
    Enrollers,    \* the keys whose enrolment changes during a run
    BookGenesis   \* the deployment a run starts from

VARIABLES
    match,     \* MatchBook.matches
    voteOf,    \* voteOf[m][k]: the hash k attested for m, or NoHash
    weightOf,  \* weightOf[m][k]: k's stake when it was seated for m, or 0
    nine,      \* the escalation seats of m
    pool,      \* the enrolled keys
    maxPool,
    params,    \* the windows, the draw delay, the slash rates, the admin
    height     \* block.number

bookVars == <<match, voteOf, weightOf, nine, pool, maxPool, params, height>>
vars == <<stakeVars, bookVars>>

Status == {"None", "Committed", "Settled", "Final", "Void", "Escalating", "Escalated"}
Terminal == {"Final", "Void"}
HashOrNone == Hash \cup {NoHash}
MatchType == [status: Status, hostKey: Key \cup {NoHash}, hostOperator: Holder,
              panel: SUBSET Key, committedAt: Nat, resultHash: HashOrNone,
              settledAt: Nat, attests: 0..PanelSize, agreeing: 0..PanelSize,
              extended: BOOLEAN, finalizedAt: Nat, drawBlock: Nat, escalatedAt: Nat]
BookTermType == [settleWindow: Nat, attestWindow: Nat \ {0}, escalationWindow: Nat \ {0},
                 drawDelay: 1..200, hostSlashBps: 0..BPS, witnessSlashBps: 0..BPS,
                 admin: Address]
NoMatch == [status |-> "None", hostKey |-> NoHash, hostOperator |-> NoAddress,
            panel |-> {}, committedAt |-> 0, resultHash |-> NoHash, settledAt |-> 0,
            attests |-> 0, agreeing |-> 0, extended |-> FALSE, finalizedAt |-> 0,
            drawBlock |-> 0, escalatedAt |-> 0]

ASSUME MatchBookAssumption ==
    /\ NoHash \notin Hash
    /\ Book \in Address
    /\ PanelSize \in Nat /\ Seats \in Nat \ {0}
    /\ MaxPoolCap \in Nat /\ SeedDepth \in Nat
    /\ Offers \subseteq Key \X {p \in SUBSET Key : Cardinality(p) = PanelSize}
    /\ BookTerms \subseteq BookTermType
    /\ PoolCaps \subseteq 1..MaxPoolCap
    /\ Enrollers \subseteq Key
    /\ BookGenesis \in [params: BookTermType, maxPool: 1..MaxPoolCap,
                        pool: SUBSET Key, height: Nat]
    /\ Cardinality(BookGenesis.pool) <= MaxPoolCap

BookInit ==
    /\ match = [m \in Match |-> NoMatch]
    /\ voteOf = [m \in Match |-> [k \in Key |-> NoHash]]
    /\ weightOf = [m \in Match |-> [k \in Key |-> 0]]
    /\ nine = [m \in Match |-> {}]
    /\ pool = BookGenesis.pool
    /\ maxPool = BookGenesis.maxPool
    /\ params = BookGenesis.params
    /\ height = BookGenesis.height

(* Some wallet may act for k: its operator or its delegate. *)
CanAct(k) == \E a \in Address : MayActFor(k, a)

-----------------------------------------------------------------------------
(* The pool *)

HasRoom == Cardinality(pool) < maxPool

Enroll(k) ==
    /\ CanAct(k)
    /\ k \notin pool /\ WitnessEligible(k) /\ HasRoom
    /\ pool' = pool \cup {k}
    /\ UNCHANGED <<stakeVars, match, voteOf, weightOf, nine, maxPool, params, height>>

LeavePool(k) ==
    /\ CanAct(k)
    /\ pool' = pool \ {k}
    /\ UNCHANGED <<stakeVars, match, voteOf, weightOf, nine, maxPool, params, height>>

Prune(k) ==
    /\ k \in pool /\ ~Active(k)
    /\ pool' = pool \ {k}
    /\ UNCHANGED <<stakeVars, match, voteOf, weightOf, nine, maxPool, params, height>>

-----------------------------------------------------------------------------
(* Commit, settle, attest *)

Operator(k) == node[k].operator
Operators(S) == {Operator(k) : k \in S}
DistinctOperators(S) == \A j, k \in S : Operator(j) = Operator(k) => j = k

Commit(m, host, panel) ==
    /\ now <= LastMove
    /\ match[m].status = "None"
    /\ CanAct(host) /\ Active(host)
    /\ host \notin panel /\ \A w \in panel : WitnessEligible(w)
    /\ Operator(host) \notin Operators(panel) /\ DistinctOperators(panel)
    /\ match' = [match EXCEPT ![m] =
         [NoMatch EXCEPT !.status = "Committed", !.hostKey = host,
                         !.hostOperator = Operator(host), !.panel = panel,
                         !.committedAt = now]]
    /\ UNCHANGED <<stakeVars, voteOf, weightOf, nine, pool, maxPool, params, height>>

Settleable_Again(m) == match[m].status \in {"Committed", "Settled"}
Settleable(m) == match[m].status = "Committed"

Settle(m, h) ==
    /\ Settleable(m)
    /\ CanAct(match[m].hostKey)
    /\ now <= match[m].committedAt + params.settleWindow
    /\ match' = [match EXCEPT ![m].status = "Settled", ![m].resultHash = h,
                              ![m].settledAt = now]
    /\ UNCHANGED <<stakeVars, voteOf, weightOf, nine, pool, maxPool, params, height>>

(* A key votes once; a seat of the nine is never one of the first panel. *)
Unvoted_Never(m, w) == TRUE
Unvoted(m, w) == voteOf[m][w] = NoHash

PanelAttest(m, w, h) ==
    /\ match[m].status = "Settled"
    /\ CanAct(w)
    /\ Unvoted(m, w)
    /\ now <= match[m].settledAt + params.attestWindow
    /\ w \in match[m].panel
    /\ voteOf' = [voteOf EXCEPT ![m][w] = h]
    /\ match' = [match EXCEPT ![m].attests = @ + 1,
                              ![m].agreeing = IF h = match[m].resultHash THEN @ + 1 ELSE @]
    /\ UNCHANGED <<stakeVars, weightOf, nine, pool, maxPool, params, height>>

SeatAttest(m, w, h) ==
    /\ match[m].status = "Escalated"
    /\ CanAct(w)
    /\ Unvoted(m, w)
    /\ now <= match[m].escalatedAt + params.escalationWindow
    /\ weightOf[m][w] # 0
    /\ voteOf' = [voteOf EXCEPT ![m][w] = h]
    /\ UNCHANGED <<stakeVars, match, weightOf, nine, pool, maxPool, params, height>>

-----------------------------------------------------------------------------
(* Finalize: final, one more window, or an escalation *)

Dissent_FewAnswers(m) == match[m].agreeing < 2 /\ match[m].agreeing # match[m].attests
Dissent(m) == match[m].agreeing # match[m].attests

AttestOver(m) ==
    \/ now > match[m].settledAt + params.attestWindow
    \/ match[m].attests >= PanelSize

Extended_Forgotten(r) == [r EXCEPT !.settledAt = now]
Extended(r) == [r EXCEPT !.extended = TRUE, !.settledAt = now]

Finalize(m) ==
    /\ match[m].status = "Settled"
    /\ AttestOver(m)
    /\ match' = [match EXCEPT ![m] =
         CASE ~Dissent(m) /\ @.agreeing >= 2 -> [@ EXCEPT !.status = "Final"]
           [] ~Dissent(m) /\ @.agreeing < 2 /\ ~@.extended -> Extended(@)
           [] OTHER -> [@ EXCEPT !.status = "Escalating", !.finalizedAt = now,
                                 !.drawBlock = height + params.drawDelay]]
    /\ UNCHANGED <<stakeVars, voteOf, weightOf, nine, pool, maxPool, params, height>>

-----------------------------------------------------------------------------
(* Escalate: seat the second panel *)

SeedAlive(m) == height <= match[m].drawBlock + SeedDepth

Candidates_SameOperator(m) ==
    {k \in pool : /\ k # match[m].hostKey /\ k \notin match[m].panel
                  /\ WitnessEligible(k) /\ node[k].amount # 0}
Candidates(m) ==
    {k \in pool : /\ k # match[m].hostKey /\ k \notin match[m].panel
                  /\ WitnessEligible(k) /\ node[k].amount # 0
                  /\ Operator(k) # match[m].hostOperator
                  /\ Operator(k) \notin Operators(match[m].panel)}

(* The outcomes of the stake-weighted draw without replacement: a seat for
   one key of each of Seats different operators. *)
Draws(m) == {D \in SUBSET Candidates(m) : Cardinality(D) = Seats /\ DistinctOperators(D)}

Voided(m) == match' = [match EXCEPT ![m].status = "Void"]

Escalate(m) ==
    /\ match[m].status = "Escalating"
    /\ now <= match[m].finalizedAt + params.escalationWindow
    /\ height > match[m].drawBlock /\ SeedAlive(m)
    /\ \/ \E D \in Draws(m) :
            /\ nine' = [nine EXCEPT ![m] = D]
            /\ weightOf' = [weightOf EXCEPT ![m] =
                 [k \in Key |-> IF k \in D THEN node[k].amount ELSE 0]]
            /\ match' = [match EXCEPT ![m].status = "Escalated", ![m].escalatedAt = now]
       \/ Draws(m) = {} /\ Voided(m) /\ UNCHANGED <<nine, weightOf>>
    /\ UNCHANGED <<stakeVars, voteOf, pool, maxPool, params, height>>

-----------------------------------------------------------------------------
(* Resolve: the majority of the weight that voted, and what it costs *)

For(m, h) == {k \in nine[m] : voteOf[m][k] = h}
Weight(m, S) == TotalOf(S, weightOf[m])
Voted(m) == {k \in nine[m] : voteOf[m][k] # NoHash}

Majority_Tied(m, h) == For(m, h) # {} /\ 2 * Weight(m, For(m, h)) >= Weight(m, Voted(m))
Majority(m, h) == For(m, h) # {} /\ 2 * Weight(m, For(m, h)) > Weight(m, Voted(m))

Against(m, h) == {k \in match[m].panel \cup nine[m] : voteOf[m][k] \notin {NoHash, h}}

Rejected(m, h) == IF h = match[m].resultHash THEN {} ELSE {match[m].hostKey}

Sentence(m, h) ==
    LET guilty == Against(m, h) \cup Rejected(m, h)
        rate == [k \in guilty |-> IF k \in Rejected(m, h) THEN params.hostSlashBps
                                                          ELSE params.witnessSlashBps]
    IN  IF guilty = {}
        THEN UNCHANGED <<node, totalActive, wallet, vault>>
        ELSE SlashAll(Book, rate)

VoteClosed(m) ==
    match[m].status = "Escalated" /\ now > match[m].escalatedAt + params.escalationWindow

Resolve(m) ==
    /\ VoteClosed(m)
    /\ \/ \E h \in Hash :
            /\ Majority(m, h)
            /\ Sentence(m, h)
            /\ match' = [match EXCEPT ![m].status =
                           IF h = match[m].resultHash THEN "Final" ELSE "Void"]
       \/ /\ \A h \in Hash : ~Majority(m, h)
          /\ Voided(m)
          /\ UNCHANGED <<node, totalActive, wallet, vault>>
    /\ UNCHANGED <<adjudicators, terms, tokenUp, now>>
    /\ UNCHANGED <<voteOf, weightOf, nine, pool, maxPool, params, height>>

-----------------------------------------------------------------------------
(* Expire: anyone voids a match whose next step never came *)

Expirable_NotSeated(m) ==
    \/ match[m].status = "Committed" /\ now > match[m].committedAt + params.settleWindow
    \/ /\ match[m].status = "Escalating"
       /\ now > match[m].finalizedAt + params.escalationWindow \/ ~SeedAlive(m)
Expirable(m) ==
    \/ Expirable_NotSeated(m)
    \/ /\ match[m].status = "Escalated"
       /\ now > match[m].escalatedAt + 2 * params.escalationWindow

Expire(m) ==
    /\ Expirable(m)
    /\ Voided(m)
    /\ UNCHANGED <<stakeVars, voteOf, weightOf, nine, pool, maxPool, params, height>>

-----------------------------------------------------------------------------
(* The admin, the chain, and the bonds moving underneath *)

SetBookParams(p) ==
    /\ now <= LastMove
    /\ params' = p
    /\ UNCHANGED <<stakeVars, match, voteOf, weightOf, nine, pool, maxPool, height>>

SetMaxPool(n) ==
    /\ now <= LastMove
    /\ maxPool' = n
    /\ UNCHANGED <<stakeVars, match, voteOf, weightOf, nine, pool, params, height>>

NewBlock ==
    /\ Tick
    /\ height' = height + 1
    /\ UNCHANGED <<match, voteOf, weightOf, nine, pool, maxPool, params>>

StakeNext ==
    /\ \/ \E a \in Address, k \in Key : OperatorNext(a, k)
       \/ \E a \in Address : AdminNext(a)
       \/ TokenTurns
    /\ UNCHANGED bookVars

PoolNext ==
    \/ \E k \in Enrollers : Enroll(k) \/ LeavePool(k)
    \/ \E k \in Key : Prune(k)
    \/ \E n \in PoolCaps : SetMaxPool(n)

PlayNext(m) ==
    \/ \E o \in Offers : Commit(m, o[1], o[2])
    \/ \E h \in Hash : Settle(m, h)
    \/ \E w \in Key, h \in Hash : PanelAttest(m, w, h) \/ SeatAttest(m, w, h)

JudgeNext(m) == Finalize(m) \/ Escalate(m) \/ Resolve(m) \/ Expire(m)

CallNext ==
    \/ \E m \in Match : PlayNext(m) \/ JudgeNext(m)
    \/ PoolNext
    \/ \E p \in BookTerms : SetBookParams(p)
    \/ StakeNext

BookNext == CallNext \/ NewBlock

BookSpec == Init /\ BookInit /\ [][BookNext]_vars

(* The same contract among callers that do not sleep: finalize and expire
   are anybody's call, and no block goes by while one of them is due.  Nobody
   is assumed to settle, attest, post a ledger or call resolve. *)
Due(m) == Expirable(m) \/ (match[m].status = "Settled" /\ AttestOver(m))
PromptBlock == NewBlock /\ \A m \in Match : ~Due(m)
PromptNext == CallNext \/ PromptBlock
PromptSpec ==
    /\ Init /\ BookInit /\ [][PromptNext]_vars
    /\ WF_vars(PromptBlock)
    /\ \A m \in Match : WF_vars(Finalize(m)) /\ WF_vars(Expire(m))

-----------------------------------------------------------------------------
(* Every field of a match, the pool and the parameters keeps the range of its
   Solidity type; the two tallies of a panel never pass its size. *)
BookTypeOK ==
    /\ match \in [Match -> MatchType]
    /\ voteOf \in [Match -> [Key -> HashOrNone]]
    /\ weightOf \in [Match -> [Key -> Nat]]
    /\ nine \in [Match -> SUBSET Key]
    /\ pool \subseteq Key
    /\ maxPool \in 1..MaxPoolCap
    /\ params \in BookTermType
    /\ height \in Nat

PanelVoters(m) == {k \in match[m].panel : voteOf[m][k] # NoHash}
PanelAgreeing(m) == {k \in PanelVoters(m) : voteOf[m][k] = match[m].resultHash}

(* A result is final only if independent replays carried it: two or more of
   the panel answered with the host's hash and none of it with another, or a
   second panel was seated and most of the weight that voted went to it.  A
   dissent in time can be overruled by the nine, never ignored. *)
FinalIsEarned ==
    \A m \in Match : match[m].status = "Final" =>
        \/ /\ PanelVoters(m) = PanelAgreeing(m)
           /\ Cardinality(PanelAgreeing(m)) >= 2
        \/ Majority(m, match[m].resultHash)

(* A bond is cut only by a match that ends in the same step, and only for an
   answer most of the voted weight went against: a witness's own vote, or the
   hash its host settled.  Silence costs nothing, nor does a void for want of
   a majority, nor being on the majority's side. *)
Outvoted(m, h) == 2 * Weight(m, For(m, h)) < Weight(m, Voted(m))
SlashOnlyOutvoted ==
    [][\A k \in Key :
         (node'[k].amount < node[k].amount /\ node'[k].unbondAt = node[k].unbondAt) =>
           \E m \in Match :
             /\ match[m].status \notin Terminal /\ match'[m].status \in Terminal
             /\ \/ voteOf[m][k] # NoHash /\ Outvoted(m, voteOf[m][k])
                \/ k = match[m].hostKey /\ Outvoted(m, match[m].resultHash)]_vars

(* Those who judge a disputed match are strangers to it: when the second
   panel is seated no two seats share an operator, and no seat is run by the
   wallet that hosted the match or by one that runs a witness of its panel. *)
SeatsAreIndependent ==
    [][\A m \in Match : nine'[m] # nine[m] =>
         /\ Cardinality(Operators(nine'[m])) = Seats
         /\ match[m].hostOperator \notin Operators(nine'[m])
         /\ Operators(nine'[m]) \cap Operators(match[m].panel) = {}]_vars

(* The pool escalate() walks never outgrows the largest ceiling the admin
   ever set, whatever order enrolments, prunes and ceilings come in. *)
PoolBounded ==
    \E n \in PoolCaps \cup {BookGenesis.maxPool, Cardinality(BookGenesis.pool)} :
        Cardinality(pool) <= n

(* A match keeps the promise of MatchOutcome: one claim, one vote a key, one
   verdict that stands. *)
Outcome == INSTANCE MatchOutcome WITH
    claim <- [m \in Match |-> match[m].resultHash],
    votes <- voteOf,
    verdict <- [m \in Match |-> CASE match[m].status = "Final" -> "final"
                                  [] match[m].status = "Void" -> "void"
                                  [] OTHER -> "open"]
OutcomeSpec == Outcome!Spec

(* No state is forever: every committed match is finalized or voided, with no
   help from its host, its witnesses, the stake token or whoever resolves. *)
EachMatchEnds ==
    \A m \in Match : (match[m].status # "None") ~> (match[m].status \in Terminal)

(* totalWindow() bounds a match's life among callers that do not sleep, up to
   the three blocks its overdue calls wait for. *)
TotalWindow ==
    params.settleWindow + 2 * params.attestWindow + 3 * params.escalationWindow
DecidedInTime ==
    \A m \in Match : match[m].status \notin Terminal \cup {"None"} =>
        \E d \in BlockTimes : now <= match[m].committedAt + TotalWindow + 3 * d

(* A slash always lands on a bond: while a closed vote condemns a key, the
   key has stake left to lose, even if it began to leave as soon as the match
   was committed. *)
Condemned(m, k) ==
    /\ VoteClosed(m)
    /\ \E h \in Hash : Majority(m, h) /\ k \in Against(m, h) \cup Rejected(m, h)
SlashHasABond ==
    \A m \in Match, k \in Key : Condemned(m, k) => node[k].amount > 0

(* resolve()'s comment: "the stake-weighted strict majority of the SNAPSHOTTED
   weights wins".  A result upheld by the nine has most of the seated weight
   behind it, not only most of the weight that voted. *)
MajorityOfSnapshot ==
    \A m \in Match : match[m].status = "Final" /\ nine[m] # {} =>
        2 * Weight(m, For(m, match[m].resultHash)) > Weight(m, nine[m])

(* _candidates()'s comment: "every enrolled key except the host, the first
   panel, and every key under any of their operators".  No seat is run by
   the wallet that runs the host's key when the draw is made. *)
SeatsAvoidTheHost ==
    [][\A m \in Match : nine'[m] # nine[m] =>
         Operator(match[m].hostKey) \notin Operators(nine'[m])]_vars
=============================================================================
