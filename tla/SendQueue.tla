----------------------------- MODULE SendQueue -----------------------------
(* The node's hot key, which three parts of it sign with: the match driver,
   whose sends are queued one behind the other and share a cached nonce
   (node/matchbook.js send, sendNow, trySend), and the announcer and the proxy
   wallets' sponsor, which each read the pending nonce before a send
   (node/announce.js sync, node/proxy.js send), against the chain's pool. *)
EXTENDS Naturals, FiniteSets

CONSTANTS Others,    \* the announcer and the sponsor's calls
          LastNonce, \* bound: nonces
          MaxAsked   \* bound: sends of the driver

ASSUME SendQueueAssumption == IsFiniteSet(Others) /\ {LastNonce, MaxAsked} \subseteq Nat

Nonces == 0..LastNonce
Unread == LastNonce + 1

VARIABLES
  mined,   \* the key's nonce on chain
  txpool,  \* nonces of its pending transactions
  cached,  \* the queue's nonce, Unread when forgotten
  sending, \* sends of the driver under way, each with the nonce it took
  asked,   \* sends the driver has asked for
  reading, \* reading[o]: the nonce o will use, Unread while it does nothing
  refused, \* history: sends of the queue refused for their nonce
  taken    \* history: transactions of the others that were accepted

queueVars == <<mined, txpool, cached, sending, asked, reading, refused, taken>>

SendQueueTypeOK ==
    /\ mined \in 0..(LastNonce + 1) /\ txpool \subseteq Nonces
    /\ cached \in 0..(LastNonce + 1)
    /\ sending \in [1..MaxAsked -> Nonces \cup {Unread}]
    /\ reading \in [Others -> Nonces \cup {Unread}]
    /\ {asked, refused} \subseteq 0..MaxAsked /\ taken \in 0..(LastNonce + 1)

SendQueueInit ==
    /\ mined = 0 /\ txpool = {} /\ cached = Unread
    /\ sending = [a \in 1..MaxAsked |-> Unread] /\ asked = 0
    /\ reading = [o \in Others |-> Unread]
    /\ refused = 0 /\ taken = 0

(* eth_getTransactionCount, pending: what follows without a gap. *)
PendingNonce == CHOOSE n \in mined..(LastNonce + 1) :
                  n \notin txpool /\ \A k \in mined..(n - 1) : k \in txpool
Accepts(n) == n >= mined /\ n \notin txpool

UnderWay == {a \in 1..MaxAsked : sending[a] # Unread}

MyTurn == UnderWay = {}

(* sendNow takes its nonce: the cached one, or what the chain says. *)
TakeNonce ==
    /\ asked < MaxAsked /\ MyTurn
    /\ LET n == IF cached = Unread THEN PendingNonce ELSE cached
       IN n \in Nonces /\ sending' = [sending EXCEPT ![asked + 1] = n]
    /\ asked' = asked + 1
    /\ UNCHANGED <<mined, txpool, cached, reading, refused, taken>>

(* Mutation: the nonce is stepped over whether or not it was sent. *)
AfterFailure_Skipped(n) == n + 1
(* trySend forgets the nonce when anything failed. *)
AfterFailure(n) == Unread

(* The pool takes the transaction, and the answer arrives or is lost; or it
   refuses the nonce; or the call never reached it (an estimate that reverts,
   an endpoint that is down). *)
Sent(a) ==
    LET n == sending[a]
    IN
    /\ a \in UnderWay
    /\ sending' = [sending EXCEPT ![a] = Unread]
    /\ \/ /\ Accepts(n)
          /\ txpool' = txpool \cup {n}
          /\ cached' \in {n + 1, AfterFailure(n)}
          /\ UNCHANGED refused
       \/ /\ ~Accepts(n)
          /\ cached' = AfterFailure(n) /\ refused' = refused + 1
          /\ UNCHANGED txpool
       \/ /\ cached' = AfterFailure(n)
          /\ UNCHANGED <<txpool, refused>>
    /\ UNCHANGED <<mined, asked, reading, taken>>

OtherReads(o) ==
    /\ reading[o] = Unread /\ PendingNonce \in Nonces
    /\ reading' = [reading EXCEPT ![o] = PendingNonce]
    /\ UNCHANGED <<mined, txpool, cached, sending, asked, refused, taken>>

OtherSends(o) ==
    /\ reading[o] # Unread
    /\ reading' = [reading EXCEPT ![o] = Unread]
    /\ IF Accepts(reading[o])
       THEN txpool' = txpool \cup {reading[o]} /\ taken' = taken + 1
       ELSE UNCHANGED <<txpool, taken>>
    /\ UNCHANGED <<mined, cached, sending, asked, refused>>

MineNext ==
    /\ mined \in txpool
    /\ mined' = mined + 1 /\ txpool' = txpool \ {mined}
    /\ UNCHANGED <<cached, sending, asked, reading, refused, taken>>

SendQueueNext ==
    \/ TakeNonce \/ MineNext
    \/ \E a \in 1..MaxAsked : Sent(a)
    \/ \E o \in Others : OtherReads(o) \/ OtherSends(o)

SendQueueSpec == SendQueueInit /\ [][SendQueueNext]_queueVars

---------------------------------------------------------------------------
(* Properties. *)

(* The driver's own sends never race each other for a nonce, and a nonce lost
   to another part of the node costs the driver one send, not the ones behind
   it: it has been refused at most as often as the others were served. *)
RefusedByOthersOnly == refused <= taken

(* No transaction of the key waits behind a nonce that nobody sent, whatever
   fails and whichever answers are lost. *)
NoGap == \A n \in txpool : \A k \in mined..n : k \in txpool
=============================================================================
