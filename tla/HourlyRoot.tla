----------------------------- MODULE HourlyRoot -----------------------------
(***************************************************************************)
(* The nodes that anchor an hour by themselves: node/matchbook.js folds    *)
(* the Finalized events it holds into the hour's root and proposes it,     *)
(* composed with the contract of EpochAnchor.  Bonds rest.                 *)
(*                                                                         *)
(* Every match's Finalized event sits in a block of its own.  A root is    *)
(* the pair of sets it commits to: the hour's matches and the final        *)
(* matches whose stats are folded through it.  A transaction is mined      *)
(* before its sender's next step.                                          *)
(***************************************************************************)
EXTENDS EpochAnchor

CONSTANTS
    Match,      \* matches decided on chain
    Grace,      \* FREEZE_GRACE_MS, in the clock's seconds
    Flaky,      \* the nodes whose chain calls may fail and whose log may lag
    Restarts,   \* the nodes that may restart
    FailLimit   \* bound: the failed calls of a run

VARIABLES
    decided,    \* external: Finalized events: when each match was decided, and how
    log,        \* decoded, on disk: the matches whose events (Settled and Finalized) a node holds
    blockTs,    \* in memory: those whose block's timestamp it has read
    statsKnown, \* on disk: those whose stats it holds
    proposedHours, \* in memory: the hours it is done with
    hoursLeft,  \* the hours this poll still has to look at
    draft,      \* propose() between the root it computed and its transaction
    failures    \* failed calls so far

nodeVars == <<log, blockTs, statsKnown, proposedHours, hoursLeft, draft, failures>>
hourlyVars == <<allVars, decided, nodeVars>>

ASSUME HourlyRootAssumption ==
    /\ Grace \in Nat /\ FailLimit \in Nat
    /\ Flaky \subseteq Key /\ Restarts \subseteq Key
    /\ Root = [results: SUBSET Match, stats: SUBSET Match]

HourlyInit ==
    /\ Init /\ AnchorInit
    /\ decided = [m \in Match |-> [at |-> 0, status |-> "open"]]
    /\ log = [n \in Key |-> {}]
    /\ blockTs = [n \in Key |-> {}]
    /\ statsKnown = [n \in Key |-> {}]
    /\ proposedHours = [n \in Key |-> {}]
    /\ hoursLeft = [n \in Key |-> {}]
    /\ draft = [n \in Key |-> {}]
    /\ failures = 0

HourOf(t) == t \div Hour
FreezeAt(e) == (e + 1) * Hour + Grace

-----------------------------------------------------------------------------
(* What a node computes from what it holds *)

Results(n, e) == {m \in blockTs[n] : HourOf(decided[m].at) = e}
Finals(n, e) ==
    {m \in blockTs[n] : decided[m].status = "final" /\ HourOf(decided[m].at) <= e}

StatsMissing_Ignored(n, e) == {}
StatsMissing(n, e) == Finals(n, e) \ statsKnown[n]

RootFor(n, e) == [results |-> Results(n, e), stats |-> Finals(n, e) \cap statsKnown[n]]

-----------------------------------------------------------------------------
(* The chain and the other nodes *)

Decide(m, status) ==
    /\ now <= LastMove
    /\ decided[m].status = "open"
    /\ decided' = [decided EXCEPT ![m] = [at |-> now, status |-> status]]
    /\ UNCHANGED <<allVars, nodeVars>>

(* An event arrives: from a receipt, a hint or the log scan, in any order. *)
Absorb(n, m) ==
    /\ decided[m].status # "open" /\ m \notin log[n]
    /\ log' = [log EXCEPT ![n] = @ \cup {m}]
    /\ UNCHANGED <<allVars, decided, blockTs, statsKnown, proposedHours, hoursLeft, draft, failures>>

CallsFail == failures < FailLimit
MayFail(n) == n \in Flaky /\ CallsFail

LastHours(h) == (h - 3)..(h - 1)

(* The head of a poll: read the timestamps of new blocks (at most 50 unread
   ones) and the stats of the final matches, which their holders may not
   serve; a call that fails leaves its match for the next poll.  (propose()
   asks again for stats it misses: here, a call of this poll that succeeds.) *)
StampBlocks(n) ==
    /\ hoursLeft[n] = {} /\ draft[n] = {}
    /\ \E lost \in SUBSET (log[n] \ blockTs[n]), unserved \in SUBSET (log[n] \ statsKnown[n]) :
         /\ lost # {} => MayFail(n)
         /\ unserved # {} => CallsFail
         /\ failures' = IF lost \cup unserved = {} THEN failures ELSE failures + 1
         /\ blockTs' = [blockTs EXCEPT ![n] = log[n] \ lost]
         /\ statsKnown' = [statsKnown EXCEPT ![n] = @ \cup
              {m \in blockTs'[n] \ unserved : decided[m].status = "final"}]
    /\ hoursLeft' = [hoursLeft EXCEPT ![n] =
         {e \in LastHours(HourOf(now)) : e \in Epoch /\ now >= FreezeAt(e)}]
    /\ UNCHANGED <<allVars, decided, log, proposedHours, draft>>

NextHour(n, e) == e \in hoursLeft[n] /\ \A d \in hoursLeft[n] : e <= d

Ready(n, e) ==
    /\ e \notin proposedHours[n]
    /\ Results(n, e) # {}
    /\ StatsMissing(n, e) = {}

DoneWith_Waiting(n, e) == Results(n, e) # {}
DoneWith(n, e) == Ready(n, e)

(* propose(hour), up to its transaction: the root is computed, rootOf() is
   asked whether the hour is done, and the hour is marked before the send. *)
Consider(n, e) ==
    /\ draft[n] = {} /\ NextHour(n, e)
    /\ hoursLeft' = [hoursLeft EXCEPT ![n] = @ \ {e}]
    /\ proposedHours' = [proposedHours EXCEPT ![n] = IF DoneWith(n, e) THEN @ \cup {e} ELSE @]
    /\ draft' = [draft EXCEPT ![n] =
         IF Ready(n, e) /\ Undecided(e) THEN {[hour |-> e, root |-> RootFor(n, e)]} ELSE {}]
    /\ UNCHANGED <<allVars, decided, log, blockTs, statsKnown, failures>>

Proposal(n, d) == \E a \in Address : Propose(a, d.hour, d.root, n)
Accepts(n, d) ==
    /\ HourOver(d.hour) /\ Active(n) /\ Undecided(d.hour) /\ Fresh(d.hour, n)
    /\ \E a \in Address : MayActFor(n, a)

Send(n) ==
    \E d \in draft[n] :
        /\ draft' = [draft EXCEPT ![n] = {}]
        /\ \/ Proposal(n, d) /\ UNCHANGED failures
           \/ ~Accepts(n, d) /\ UNCHANGED <<allVars, failures>>
           \/ MayFail(n) /\ failures' = failures + 1 /\ UNCHANGED allVars
        /\ UNCHANGED <<decided, log, blockTs, statsKnown, proposedHours, hoursLeft>>

(* A restart: events and stats are on disk, the rest was in memory. *)
Restart(n) ==
    /\ n \in Restarts
    /\ blockTs' = [blockTs EXCEPT ![n] = {}]
    /\ proposedHours' = [proposedHours EXCEPT ![n] = {}]
    /\ hoursLeft' = [hoursLeft EXCEPT ![n] = {}]
    /\ draft' = [draft EXCEPT ![n] = {}]
    /\ UNCHANGED <<allVars, decided, log, statsKnown, failures>>

(* Every event of an hour reaches a node that is not flaky within the grace,
   which is what the grace is for. *)
Holds(n, e) ==
    \A m \in Match : decided[m].status # "open" /\ HourOf(decided[m].at) <= e => m \in log[n]
Clock ==
    /\ Tick
    /\ \A e \in Epoch : now' >= FreezeAt(e) => \A n \in Key \ Flaky : Holds(n, e)
    /\ UNCHANGED <<anchorVars, decided, nodeVars>>

Poll(n) == StampBlocks(n) \/ (\E e \in Epoch : Consider(n, e)) \/ Send(n)

HourlyNext ==
    \/ \E m \in Match, status \in {"final", "void"} : Decide(m, status)
    \/ \E n \in Key, m \in Match : Absorb(n, m)
    \/ \E n \in Key : Poll(n) \/ Restart(n)
    \/ Clock

(* Polls repeat, events arrive and time passes; a chain call that may fail
   may also succeed, and nobody has to restart. *)
HourlySpec ==
    /\ HourlyInit /\ [][HourlyNext]_hourlyVars
    /\ WF_hourlyVars(Clock)
    /\ \A n \in Key : WF_hourlyVars(Poll(n)) /\ \A m \in Match : WF_hourlyVars(Absorb(n, m))

-----------------------------------------------------------------------------
(* What a node holds is what happened: it reads the block of an event before
   it counts it, knows stats only of matches it holds, and an hour it has
   looked at was frozen; drafts name an hour that is over. *)
HourlyTypeOK ==
    /\ \A n \in Key :
         /\ blockTs[n] \subseteq log[n] /\ statsKnown[n] \subseteq log[n]
         /\ log[n] \subseteq {m \in Match : decided[m].status # "open"}
         /\ proposedHours[n] \subseteq {e \in Epoch : now >= FreezeAt(e)}
         /\ \A d \in draft[n] : d.hour \in proposedHours[n] /\ HourOver(d.hour) /\ d.root \in Root
    /\ failures \in 0..FailLimit

TrueRoot(e) ==
    [results |-> {m \in Match : decided[m].status # "open" /\ HourOf(decided[m].at) = e},
     stats |-> {m \in Match : decided[m].status = "final" /\ HourOf(decided[m].at) <= e}]

(* "Every node holding the log computes the same root" (EpochAnchor.sol,
   BUILD-SPEC 11.6): what a node drafts for an hour whose events it holds,
   with those before, is the root they make. *)
HoldersAgree ==
    [][\A n \in Key : \A d \in draft'[n] \ draft[n] :
         Holds(n, d.hour) => d.root = TrueRoot(d.hour)]_hourlyVars

(* The same of a node whose chain calls may fail: it has to have read the blocks
   of what it holds. *)
ReadersAgree ==
    [][\A n \in Key : \A d \in draft'[n] \ draft[n] :
         Holds(n, d.hour) /\ log[n] \subseteq blockTs[n] => d.root = TrueRoot(d.hour)]_hourlyVars

(* "A wrong proposal from a minority of stake simply never finalizes"
   (BUILD-SPEC 11.6): while the nodes whose calls work hold the quorum, an
   hour is anchored only with the root of everything decided in it, whatever
   the others missed, and whoever restarts. *)
AnchoredIsTrue ==
    \A e \in Epoch : ~Undecided(e) => anchors[e].root = TrueRoot(e)

(* While such a majority polls, an hour with a decided match gets its root. *)
EveryHourAnchors ==
    \A e \in Epoch : (now >= FreezeAt(e) /\ TrueRoot(e).results # {}) ~> ~Undecided(e)

(* "The settler proposes every frozen hour it holds finalized matches for"
   (node/matchbook.js): the hour is anchored, or its own proposal is in. *)
EveryHourProposed ==
    \A e \in Epoch, n \in Key :
        (now >= FreezeAt(e) /\ Holds(n, e) /\ TrueRoot(e).results # {})
          ~> (~Undecided(e) \/ proposalOf[e][n] # NoRoot)
=============================================================================
