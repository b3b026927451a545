---------------------------- MODULE CourtClient ----------------------------
(* A court that settles its matches on whichever node it finds (sdk/court/index.js
   settle, postTo, findSettler, request).  Several settle() calls of one process
   overlap and share the settler that answered last.  An unsteady node may lose
   any request, or the answer to one it has acted on, or drop its settling role; a steady one always
   answers.  The node's intake is one step here: Settlement has its interleavings. *)
EXTENDS Integers, FiniteSets

CONSTANTS Settlers,    \* 1..n, in the order findSettler prefers: the newest announcement first
          Steady,      \* those that are up, announced and settling throughout
          Settles,     \* the calls of settle()
          MatchOf,     \* MatchOf[c]: the match a call settles
          Fallbacks,   \* how often a call goes on to another node
          PostRetries  \* how often a request for POST /ledger is repeated

ASSUME CourtAssumption ==
    /\ Settlers \subseteq Nat \ {0} /\ IsFiniteSet(Settlers) /\ Steady \subseteq Settlers
    /\ Fallbacks \in Nat /\ PostRetries \in Nat

NoNode == 0

VARIABLES
  settler,   \* the node that answered last, while it is remembered
  settle,    \* settle[c]: how far a call is
  took       \* the matches each node has settled

courtVars == <<settler, settle, took>>

NewCall == [at |-> "new", base |-> NoNode, exclude |-> {}, attempt |-> 0, tries |-> 0,
            status |-> "unreachable"]

CourtInit ==
    /\ settler = NoNode
    /\ settle = [c \in Settles |-> NewCall]
    /\ took = [n \in Settlers |-> {}]

-----------------------------------------------------------------------------
(* Where to *)

(* The settler that answered last, unless this call has tried it. *)
Remembered_Always(c) == settler # NoNode
Remembered(c) == settler # NoNode /\ settler \notin settle[c].exclude

Turns(c, at, n) == settle' = [settle EXCEPT ![c].at = at, ![c].base = n]

Recall(c) ==
    /\ settle[c].at = "new" /\ Remembered(c)
    /\ Turns(c, "health", settler)
    /\ UNCHANGED <<settler, took>>

Candidates(c) == Settlers \ settle[c].exclude

(* Probes run side by side and the first candidate in order that passes is
   taken; an unsteady one may be off the directory or fail its probe. *)
Find(c) ==
    /\ settle[c].at = "new" /\ ~Remembered(c)
    /\ \E n \in Candidates(c) :
         /\ \A s \in Steady \cap Candidates(c) : n <= s
         /\ Turns(c, "health", n)
    /\ UNCHANGED <<settler, took>>

(* No candidate passes, or the chain cannot be read: the call ends with what
   the node before answered, if there was one. *)
FindNone(c) ==
    /\ settle[c].at = "new" /\ ~Remembered(c)
    /\ \/ Candidates(c) \cap Steady = {} /\ Turns(c, "ended", NoNode)
       \/ Turns(c, "no chain", NoNode)
    /\ UNCHANGED <<settler, took>>

-----------------------------------------------------------------------------
(* postTo, one node *)

(* No answer worth acting on: the settler is forgotten, whichever it is by now,
   and the call goes on to another node or ends. *)
Passed(S, status) ==
    [at |-> IF S.attempt < Fallbacks THEN "new" ELSE "ended", base |-> NoNode, tries |-> 0,
     exclude |-> S.exclude \cup {S.base}, attempt |-> S.attempt + 1, status |-> status]

PassOver(c, status) ==
    /\ settler' = NoNode
    /\ settle' = [settle EXCEPT ![c] = Passed(settle[c], status)]

(* An answer: the node is remembered. *)
Ends(c, status) ==
    /\ settler' = settle[c].base
    /\ settle' = [settle EXCEPT ![c].at = "ended", ![c].status = status]

Unsteady(c) == settle[c].base \notin Steady
HasMatch(c) == MatchOf[c] \in took[settle[c].base]
NowHolds(c) == took' = [took EXCEPT ![settle[c].base] = @ \cup {MatchOf[c]}]

Health(c) ==
    /\ settle[c].at = "health"
    /\ \/ Turns(c, "delta", settle[c].base) /\ UNCHANGED settler
       \/ Unsteady(c) /\ PassOver(c, "unreachable")
    /\ UNCHANGED took

(* GET /delta: a match the node holds is not sent again; no answer is no reason not to. *)
AskDelta(c) ==
    /\ settle[c].at = "delta"
    /\ \/ HasMatch(c) /\ Ends(c, "already")
       \/ (Unsteady(c) \/ ~HasMatch(c)) /\ Turns(c, "post", settle[c].base) /\ UNCHANGED settler
    /\ UNCHANGED took

(* POST /ledger is answered: a match the node had settled before is marked as existing. *)
PostAnswered(c) ==
    /\ settle[c].at = "post"
    /\ Ends(c, IF HasMatch(c) THEN "already" ELSE "settled")
    /\ NowHolds(c)

(* 400: this envelope will not do, here or anywhere. *)
PostRefused(c) ==
    /\ settle[c].at = "post" /\ ~HasMatch(c)
    /\ Ends(c, "refused")
    /\ UNCHANGED took

(* 403: the node has dropped its settling role since it was probed. *)
PostNoRole(c) ==
    /\ settle[c].at = "post" /\ Unsteady(c)
    /\ PassOver(c, "no role")
    /\ UNCHANGED took

(* The request or its answer is lost, or the node is busy: again, up to PostRetries times. *)
PostLost(c) ==
    /\ settle[c].at = "post" /\ Unsteady(c)
    /\ UNCHANGED took \/ NowHolds(c)
    /\ IF settle[c].tries < PostRetries
       THEN settle' = [settle EXCEPT ![c].tries = @ + 1] /\ UNCHANGED settler
       ELSE PassOver(c, "unreachable")

-----------------------------------------------------------------------------
(* Around them *)

(* cacheMs is over. *)
ForgetSettler ==
    /\ settler # NoNode /\ settler' = NoNode
    /\ UNCHANGED <<settle, took>>

CourtNext ==
    \/ \E c \in Settles : \/ Recall(c) \/ Find(c) \/ FindNone(c) \/ Health(c) \/ AskDelta(c)
                          \/ PostAnswered(c) \/ PostRefused(c) \/ PostNoRole(c) \/ PostLost(c)
    \/ ForgetSettler

CourtSpec == CourtInit /\ [][CourtNext]_courtVars

-----------------------------------------------------------------------------
(* Properties *)

(* What a court keeps of its calls has the shape index.js gives it. *)
CourtTypeOK ==
    /\ settler \in Settlers \cup {NoNode}
    /\ settle \in [Settles -> [at : {"new", "health", "delta", "post", "ended", "no chain"},
                               base : Settlers \cup {NoNode}, exclude : SUBSET Settlers,
                               attempt : 0..(Fallbacks + 1), tries : 0..PostRetries,
                               status : {"unreachable", "no role", "settled", "already", "refused"}]]
    /\ took \in [Settlers -> SUBSET {MatchOf[c] : c \in Settles}]

(* The chain was read and the match is settled nowhere as far as the court knows. *)
GaveUp(c) == settle[c].at = "ended" /\ settle[c].status \in {"unreachable", "no role"}

(* A call gives a match up only when the chain could not be read or more nodes
   than it has fallbacks may fail: the settler that overlapping calls share, forget and write
   again never makes it spend two attempts on one node ("one that stops answering is passed
   over and the next candidate tried", sdk/court/index.js:550). *)
GoodNodeIsFound ==
    \A c \in Settles : GaveUp(c) =>
      Steady = {} \/ Cardinality(Settlers \ Steady) > Fallbacks

(* "A matchId settles once" (sdk/court/index.js:576).  Does not hold across
   nodes: one that settled the match and lost its answer is passed over for another, which settles it too. *)
SettledOnce ==
    \A c \in Settles : Cardinality({n \in Settlers : MatchOf[c] \in took[n]}) <= 1
=============================================================================
