------------------------------ MODULE PeerTable ------------------------------
(* The tables one node keeps about the others (node/litnode.js, gossip limits,
   mergeHeartbeats, forgetStale, chainTick, absorb): the envelopes it forwards,
   the heartbeats it counts, the standings it read from the chain and the keys
   it has thrown out.  A heartbeat is checked across an await, so what the
   handler read before the check may have changed when it writes. *)
EXTENDS Naturals, FiniteSets

CONSTANTS Keys,          \* the other nodes' keys
          MaxKeys,       \* MAX_PEER_KEYS
          MaxUnbonded,   \* MAX_UNBONDED_KEYS
          ForgetAfter,   \* FORGET_AFTER_EPOCHS
          EvictedFor,    \* EVICTED_MS, in epochs
          LastEpoch, MaxHeard, MaxFlying  \* bounds: the clock, messages in all and at once

ASSUME PeerAssumption ==
    {MaxKeys, MaxUnbonded, ForgetAfter, EvictedFor, LastEpoch, MaxHeard, MaxFlying} \subseteq Nat

Epochs == 0..LastEpoch
NotHeld == LastEpoch + 1
Times == Epochs \cup {NotHeld}
MessageKinds == {"genuine", "forged", "foreign"}

VARIABLES
  epoch,
  stakes,      \* stakes[k]: what this node read of k
  reading,     \* the read in flight: the keys, those found active
  envelopes,   \* envelopes[k]: the epoch of the envelope forwarded for k
  heartbeats,  \* heartbeats[k]: the epoch of the heartbeat counted for k
  evictedAt,   \* evictedAt[k]: when k was thrown out
  heard,       \* messages so far
  flying       \* heartbeats being absorbed: [key, at, kind, had, stage]

peerVars == <<epoch, stakes, reading, envelopes, heartbeats, evictedAt, heard, flying>>

Idle == [keys |-> {}, found |-> {}]
Nowhere == [k \in Keys |-> NotHeld]

PeerInit ==
    /\ epoch = 0
    /\ stakes = [k \in Keys |-> "unread"] /\ reading = Idle
    /\ envelopes = Nowhere /\ heartbeats = Nowhere /\ evictedAt = Nowhere
    /\ heard = 0 /\ flying = {}

Cached(e) == {k \in Keys : e[k] # NotHeld}
TooOld(at) == at + ForgetAfter < epoch
EvictedRecently(k) == evictedAt[k] # NotHeld /\ epoch < evictedAt[k] + EvictedFor
IsUnbonded_Any(k) == stakes[k] # "unread"
IsUnbonded(k) == stakes[k] = "unbonded"

(* evict() and forgetKey(): out of both tables, and marked. *)
Evicting(K, e) ==
    /\ envelopes' = e
    /\ heartbeats' = [k \in Keys |-> IF k \in K THEN NotHeld ELSE heartbeats[k]]
    /\ evictedAt' = [k \in Keys |-> IF k \in K THEN epoch ELSE evictedAt[k]]

-----------------------------------------------------------------------------
(* Absorbing a heartbeat *)

(* absorb() up to the check: too old, held already, or thrown out lately.  A
   genuine heartbeat comes as late as it likes; a forgery, or one that names
   another protocol version, bears the present epoch. *)
Hear(k, at, kind) ==
    LET had == envelopes[k] # NotHeld
        h == [key |-> k, at |-> at, kind |-> kind, had |-> had, stage |-> "checking"]
    IN /\ at <= epoch /\ ~TooOld(at)
       /\ kind # "genuine" => at = epoch
       /\ heard < MaxHeard /\ heard' = heard + 1
       /\ Cardinality(flying) < MaxFlying /\ h \notin flying
       /\ had => at > envelopes[k]
       /\ had \/ ~EvictedRecently(k)
       /\ flying' = flying \cup {h}
       /\ UNCHANGED <<epoch, stakes, reading, envelopes, heartbeats, evictedAt>>

Stalest == {k \in Cached(envelopes) :
              IsUnbonded(k) /\ \A j \in Cached(envelopes) : IsUnbonded(j) => envelopes[k] <= envelopes[j]}

Known(k) == envelopes[k] # NotHeld \/ heartbeats[k] # NotHeld

(* The check is over: a forgery is dropped; a key this node did not hold when
   it heard it needs room, which a full table makes by dropping the stalest
   unbonded key. *)
Check(h) ==
    LET Keep(e) == [e EXCEPT ![h.key] = h.at]
        learning == (flying \ {h}) \cup {[h EXCEPT !.stage = "learning"]}
    IN /\ h \in flying /\ h.stage = "checking"
       /\ UNCHANGED <<epoch, stakes, reading, heard>>
       /\ \/ /\ h.kind # "forged" /\ (h.had \/ Known(h.key) \/ Cardinality(Cached(envelopes)) < MaxKeys)
             /\ flying' = learning
             /\ envelopes' = Keep(envelopes) /\ UNCHANGED <<heartbeats, evictedAt>>
          \/ /\ h.kind # "forged" /\ ~h.had /\ ~Known(h.key) /\ Cardinality(Cached(envelopes)) >= MaxKeys
             /\ \E k \in Stalest :
                  /\ Evicting({k}, Keep([envelopes EXCEPT ![k] = NotHeld]))
                  /\ flying' = learning
          \/ /\ h.kind = "forged" \/ (~h.had /\ ~Known(h.key) /\ Cardinality(Cached(envelopes)) >= MaxKeys /\ Stalest = {})
             /\ flying' = flying \ {h}
             /\ UNCHANGED <<envelopes, heartbeats, evictedAt>>

Newer(k, at) == heartbeats[k] = NotHeld \/ at >= heartbeats[k]

(* mergeHeartbeats(): another protocol is listed and not counted; the latest
   heartbeat of a key is. *)
Learn(h) ==
    /\ h \in flying /\ h.stage = "learning"
    /\ flying' = flying \ {h}
    /\ heartbeats' = [heartbeats EXCEPT ![h.key] =
         IF h.kind = "foreign" THEN NotHeld
         ELSE IF ~TooOld(h.at) /\ Newer(h.key, h.at) THEN h.at ELSE @]
    /\ UNCHANGED <<epoch, stakes, reading, envelopes, evictedAt, heard>>

-----------------------------------------------------------------------------
(* The tick and its chain half *)

NextEpoch ==
    /\ epoch < LastEpoch /\ epoch' = epoch + 1
    /\ UNCHANGED <<stakes, reading, envelopes, heartbeats, evictedAt, heard, flying>>

Fresh(e) == [k \in Keys |-> IF e[k] # NotHeld /\ TooOld(e[k]) THEN NotHeld ELSE e[k]]

ForgetStale ==
    /\ envelopes' = Fresh(envelopes) /\ heartbeats' = Fresh(heartbeats)
    /\ UNCHANGED <<epoch, stakes, reading, evictedAt, heard, flying>>

(* chainTick(): the standings of the keys heard of are read; some of the reads
   fail, and between two reads a key may bond or leave. *)
ReadStakes ==
    /\ reading = Idle
    /\ \E K \in SUBSET Cached(heartbeats) \ {{}} : \E F \in SUBSET K :
         reading' = [keys |-> K, found |-> F]
    /\ UNCHANGED <<epoch, stakes, envelopes, heartbeats, evictedAt, heard, flying>>

Merged(k) == IF heartbeats[k] = NotHeld THEN "unread"
             ELSE IF k \notin reading.keys THEN stakes[k]
             ELSE IF k \in reading.found THEN "bonded" ELSE "unbonded"

(* What was read is merged, keys no longer heard of go, and of the unbonded
   keys the freshest MaxUnbonded stay. *)
Trimmed(next) ==
    {K \in SUBSET {k \in Cached(envelopes) : next[k] = "unbonded"} :
       LET U == {k \in Cached(envelopes) : next[k] = "unbonded"} IN
       /\ Cardinality(U \ K) = IF Cardinality(U) < MaxUnbonded THEN Cardinality(U) ELSE MaxUnbonded
       /\ \A k \in K, j \in U \ K : envelopes[k] <= envelopes[j]}

MergeStakes ==
    /\ reading # Idle /\ reading' = Idle
    /\ stakes' = [k \in Keys |-> Merged(k)]
    /\ \E K \in Trimmed(stakes') :
         Evicting(K, [k \in Keys |-> IF k \in K THEN NotHeld ELSE envelopes[k]])
    /\ UNCHANGED <<epoch, heard, flying>>

PeerNext ==
    \/ \E k \in Keys, at \in Epochs, kind \in MessageKinds : Hear(k, at, kind)
    \/ \E h \in flying : Check(h) \/ Learn(h)
    \/ NextEpoch \/ ForgetStale \/ ReadStakes \/ MergeStakes

PeerSpec == PeerInit /\ [][PeerNext]_peerVars

-----------------------------------------------------------------------------
(* Properties *)

PeerTypeOK ==
    /\ epoch \in Epochs /\ heard \in 0..MaxHeard
    /\ stakes \in [Keys -> {"unread", "bonded", "unbonded"}]
    /\ reading.found \subseteq reading.keys /\ reading.keys \subseteq Keys
    /\ {envelopes, heartbeats, evictedAt} \subseteq [Keys -> Times]
    /\ flying \subseteq [key : Keys, at : Epochs, kind : MessageKinds, had : BOOLEAN,
                         stage : {"checking", "learning"}]

(* A flood of keys never costs a bonded operator its place: a key this node
   reads as bonded leaves the forwarding table only when nobody has renewed it
   for ForgetAfter epochs, whatever is absorbed or read at the same time. *)
BondedKeepTheirPlace ==
    [][\A k \in Keys : stakes[k] = "bonded" /\ stakes'[k] = "bonded"
         /\ envelopes[k] # NotHeld /\ envelopes'[k] = NotHeld => TooOld(envelopes[k])]_peerVars

(* Messages overtake each other, but the heartbeat this node counts for a peer
   never goes back to an earlier one. *)
HeartbeatsAdvance ==
    [][\A k \in Keys : heartbeats[k] # NotHeld /\ heartbeats'[k] # NotHeld
         => heartbeats'[k] >= heartbeats[k]]_peerVars

(* One failed read never takes a standing away: a key still heard of keeps the
   standing it had until a read of that key says otherwise ("merge, never
   replace", chainTick). *)
StandingOutlastsAFailedRead ==
    [][\A k \in Keys : stakes[k] # stakes'[k] /\ heartbeats[k] # NotHeld => k \in reading.keys]_peerVars

(* "every table a stranger can add to has a ceiling" (gossip limits). *)
TableHasACeiling == Cardinality(Cached(envelopes)) <= MaxKeys

(* "an evicted unbonded key is not taken back for this long" (EVICTED_MS). *)
EvictedStaysOut == \A k \in Keys : envelopes[k] # NotHeld => ~EvictedRecently(k)

=============================================================================
