-------------------------------- MODULE Chat --------------------------------
(* The line between operators (node/litnode.js mergeChat, chatPrune, chatTier;
   protocol/chat.js) on a few nodes: messages stamped by their senders arrive
   in any order and more than once, are checked across an await and held while
   the ring has room.  The stamps, the ring and the windows are counted in
   ticks. *)
EXTENDS Integers, FiniteSets, FiniteSetsExt

CONSTANTS Hosts, Speakers,
          Ring,            \* CHAT_RING
          UnbondedRing,    \* CHAT_UNBONDED_RING
          Burst,           \* CHAT_BURST
          RateWindow,      \* CHAT_RATE_WINDOW_MS
          PastWindow,      \* CHAT_PAST_MS
          LastTick, MaxOpening  \* bounds: the clock, messages in their checks

ASSUME ChatAssumption ==
    {Ring, UnbondedRing, Burst, RateWindow, PastWindow, LastTick, MaxOpening} \subseteq Nat

Lines == [by : Speakers, at : 0..LastTick]

VARIABLES
  tick,
  ring,     \* ring[n]: the messages n holds
  tier,     \* tier[s]: what the stake table says of a speaker
  opening,  \* opening[n]: messages n is checking
  heardBy   \* heardBy[n]: the messages n has finished with once

chatVars == <<tick, ring, tier, opening, heardBy>>

ChatInit ==
    /\ tick = 0
    /\ ring = [n \in Hosts |-> {}] /\ opening = [n \in Hosts |-> {}]
    /\ heardBy = [n \in Hosts |-> {}]
    /\ tier = [s \in Speakers |-> "unknown"]

-----------------------------------------------------------------------------

Forwardable(l) == tier[l.by] = "bonded"
Expired(l) == l.at + PastWindow < tick

RateOk(R, l) ==
    Cardinality({o \in R : o.by = l.by /\ o.at \in l.at - RateWindow + 1..l.at + RateWindow - 1}) < Burst

(* A full ring drops its oldest, one by one. *)
Pruned_Newest(R) ==
    LET live == {l \in R : ~Expired(l)} IN
    IF Cardinality(live) <= Ring THEN {live}
    ELSE {S \in kSubset(Ring, live) : \A o \in live \ S, l \in S : o.at >= l.at}
Pruned(R) ==
    LET live == {l \in R : ~Expired(l)} IN
    IF Cardinality(live) <= Ring THEN {live}
    ELSE {S \in kSubset(Ring, live) : \A o \in live \ S, l \in S : o.at <= l.at}

(* mergeChat() up to the check; a message held already, expired, of an unknown
   key, or of an unbonded one while theirs are full, is not looked at. *)
OpenLine(n, l) ==
    /\ l.at <= tick /\ ~Expired(l) /\ l \notin ring[n] \cup opening[n]
    /\ tier[l.by] # "unknown"
    /\ tier[l.by] = "unbonded" => Cardinality({o \in ring[n] : ~Forwardable(o)}) < UnbondedRing
    /\ Cardinality(opening[n]) < MaxOpening
    /\ opening' = [opening EXCEPT ![n] = @ \cup {l}]
    /\ UNCHANGED <<tick, ring, tier, heardBy>>

(* After it: the rate, the age, the ring; a copy of a forgery ends here. *)
HoldLine(n, l) ==
    /\ l \in opening[n]
    /\ opening' = [opening EXCEPT ![n] = @ \ {l}]
    /\ heardBy' = [heardBy EXCEPT ![n] = @ \cup {l}]
    /\ IF RateOk(ring[n], l) /\ (Cardinality(ring[n]) < Ring \/ \E o \in ring[n] : o.at < l.at)
       THEN \E R \in Pruned(ring[n] \cup {l}) : ring' = [ring EXCEPT ![n] = R]
       ELSE UNCHANGED ring
    /\ UNCHANGED <<tick, tier>>

DropForgery(n, l) ==
    /\ l \in opening[n]
    /\ opening' = [opening EXCEPT ![n] = @ \ {l}]
    /\ UNCHANGED <<tick, ring, tier, heardBy>>

(* The tick prunes; the standing of a key is read now and then. *)
ChatTick ==
    /\ tick < LastTick /\ tick' = tick + 1
    /\ UNCHANGED <<ring, tier, opening, heardBy>>

Prune(n) ==
    /\ \E R \in Pruned(ring[n]) : ring' = [ring EXCEPT ![n] = R]
    /\ UNCHANGED <<tick, tier, opening, heardBy>>

ReadTier(s) ==
    /\ \E t \in {"bonded", "unbonded"} : tier' = [tier EXCEPT ![s] = t]
    /\ UNCHANGED <<tick, ring, opening, heardBy>>

ChatNext ==
    \/ \E n \in Hosts, l \in Lines : OpenLine(n, l) \/ HoldLine(n, l) \/ DropForgery(n, l)
    \/ \E n \in Hosts : Prune(n)
    \/ \E s \in Speakers : ReadTier(s)
    \/ ChatTick

ChatSpec == ChatInit /\ [][ChatNext]_chatVars

-----------------------------------------------------------------------------
(* Properties *)

ChatTypeOK ==
    /\ tick \in 0..LastTick /\ tier \in [Speakers -> {"unknown", "unbonded", "bonded"}]
    /\ \A n \in Hosts :
         /\ ring[n] \cup opening[n] \cup heardBy[n] \subseteq Lines
         /\ Cardinality(ring[n]) <= Ring

(* "at most CHAT_BURST messages whose timestamps fall in any window this long"
   (protocol/chat.js), whatever order they came in and however many were being
   checked at once. *)
BurstBounded ==
    \A n \in Hosts, s \in Speakers, from \in 0..LastTick :
      Cardinality({l \in ring[n] : l.by = s /\ l.at \in from..from + RateWindow - 1}) <= Burst

(* The newest messages stay: one that has not expired leaves the ring only for
   a ring full of messages at least as new. *)
NewestLinesStay ==
    [][\A n \in Hosts : \A l \in ring[n] \ ring'[n] :
         Expired(l) \/ (Cardinality(ring'[n]) = Ring /\ \A o \in ring'[n] : o.at >= l.at)]_chatVars

(* "every node refuses the same flood whatever order the gossip delivered it
   in" (protocol/chat.js): nodes that have looked at the same messages of a
   speaker hold the same ones. *)
SameFloodRefused ==
    \A n, m \in Hosts : heardBy[n] = heardBy[m] /\ Cardinality(heardBy[n]) <= Ring
                          => ring[n] = ring[m]

=============================================================================
