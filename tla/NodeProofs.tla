----------------------------- MODULE NodeProofs -----------------------------
(* Proofs about the parts of one node: the hot key, the proxy wallets, the
   publisher services, the runner of verifiers, the updater and the reads of the
   chain. *)
EXTENDS SendQueue, ProxyWallets, Services, Verifier, Updater, RpcPool,
        FiniteSetTheorems, WellFoundedInduction, TLAPS

-----------------------------------------------------------------------------
(* The hot key *)

(* Every nonce below n is mined or pending. *)
Filled(n) == \A k \in mined..(n - 1) : k \in txpool

(* A nonce somebody holds, cached, taken or read, follows without a gap: it did
   when it was read, and what is pending is only ever mined. *)
QueueInv ==
    /\ mined \in 0..Unread /\ txpool \subseteq Nonces
    /\ cached \in 0..Unread
    /\ sending \in [1..MaxAsked -> 0..Unread] /\ reading \in [Others -> 0..Unread]
    /\ NoGap
    /\ cached # Unread => Filled(cached)
    /\ \A a \in 1..MaxAsked : sending[a] # Unread => Filled(sending[a])
    /\ \A o \in Others : reading[o] # Unread => Filled(reading[o])

LEMMA QueueInitKeeps == SendQueueInit => QueueInv
  BY SendQueueAssumption DEF SendQueueInit, QueueInv, NoGap, Unread, Nonces

(* A nonce that nothing pending has is there, at the latest the bound's. *)
LEMMA PendingNonceFollows ==
  ASSUME mined \in 0..Unread, txpool \subseteq Nonces
  PROVE  PendingNonce \in 0..Unread /\ Filled(PendingNonce) /\ Accepts(PendingNonce)
<1> DEFINE open == {n \in mined..(LastNonce + 1) : n \notin txpool}
           less == OpToRel(<, Nat)
<1>1. LastNonce \in Nat /\ Unread = LastNonce + 1 /\ Nonces = 0..LastNonce /\ mined \in Nat
  BY SendQueueAssumption DEF Unread, Nonces
<1>2. LastNonce + 1 \in open /\ open \subseteq Nat
  BY <1>1
<1>3. PICK n \in open : \A m \in open : ~(m < n)
  <2>1. IsWellFoundedOn(less, Nat)
    BY NatLessThanWellFounded
  <2> HIDE DEF less
  <2>2. \E n \in open : \A m \in open : <<m, n>> \notin less
    BY <1>2, <2>1, WFMin
  <2>3. \A m, n \in open : m < n => <<m, n>> \in less
    BY <1>2 DEF less, OpToRel
  <2> QED BY <2>2, <2>3
<1>4. \A k \in mined..(n - 1) : k \in txpool
  BY <1>1, <1>2, <1>3
<1>5. \E j \in mined..(LastNonce + 1) : j \notin txpool /\ \A k \in mined..(j - 1) : k \in txpool
  BY <1>3, <1>4
<1>6. /\ PendingNonce \in mined..(LastNonce + 1) /\ PendingNonce \notin txpool
      /\ \A k \in mined..(PendingNonce - 1) : k \in txpool
  BY <1>5, Zenon DEF PendingNonce
<1> QED BY <1>1, <1>6 DEF Filled, Accepts

LEMMA QueueStepKeeps == QueueInv /\ [SendQueueNext]_queueVars => QueueInv'
<1> SUFFICES ASSUME QueueInv, [SendQueueNext]_queueVars PROVE QueueInv'
  OBVIOUS
<1> USE DEF QueueInv
<1>t. LastNonce \in Nat /\ MaxAsked \in Nat /\ Unread = LastNonce + 1 /\ Nonces = 0..LastNonce
  BY SendQueueAssumption DEF Unread, Nonces
<1>1. ASSUME UNCHANGED mined, NEW n \in 0..Unread, Filled(n), n \in Nonces, Accepts(n),
             txpool' = txpool \cup {n}
      PROVE  /\ NoGap' /\ txpool' \subseteq Nonces
             /\ \A k \in 0..Unread : Filled(k) => Filled(k)'
             /\ Filled(n + 1)'
  BY <1>t, <1>1 DEF NoGap, Filled, Accepts
<1>2. CASE TakeNonce
  <2>1. PICK n \in Nonces : n = (IF cached = Unread THEN PendingNonce ELSE cached)
                            /\ sending' = [sending EXCEPT ![asked + 1] = n]
    BY <1>2 DEF TakeNonce
  <2>2. Filled(n)
    BY <2>1, PendingNonceFollows
  <2>3. UNCHANGED <<mined, txpool, cached, reading>>
    BY <1>2 DEF TakeNonce
  <2>4. NoGap' /\ \A k \in 0..Unread : Filled(k) => Filled(k)'
    BY <2>3 DEF NoGap, Filled
  <2>5. n \in 0..Unread /\ Filled(n)'
    BY <1>t, <2>2, <2>4
  <2> QED BY <1>t, <2>1, <2>3, <2>4, <2>5
<1>3. CASE MineNext
  <2>1. mined \in txpool /\ mined' = mined + 1 /\ txpool' = txpool \ {mined}
        /\ UNCHANGED <<cached, sending, reading>>
    BY <1>3 DEF MineNext
  <2>2. \A n \in 0..Unread : Filled(n) => Filled(n)'
    BY <1>t, <2>1 DEF Filled
  <2>3. NoGap' /\ mined' \in 0..Unread /\ txpool' \subseteq Nonces
    BY <1>t, <2>1 DEF NoGap
  <2> QED BY <2>1, <2>2, <2>3
<1>4. ASSUME NEW a \in 1..MaxAsked, Sent(a) PROVE QueueInv'
  <2>n. PICK n : n = sending[a]
    OBVIOUS
  <2>1. /\ n \in Nonces /\ Filled(n) /\ UNCHANGED <<mined, reading>>
        /\ sending' = [sending EXCEPT ![a] = Unread]
    BY <1>t, <1>4, <2>n DEF Sent, UnderWay
  <2>2. CASE Accepts(n) /\ txpool' = txpool \cup {n} /\ cached' \in {n + 1, Unread}
    <3>1. /\ NoGap' /\ txpool' \subseteq Nonces
          /\ \A k \in 0..Unread : Filled(k) => Filled(k)'
          /\ Filled(n + 1)'
      BY <1>t, <1>1, <2>1, <2>2
    <3>2. n + 1 \in 0..Unread
      BY <1>t, <2>1
    <3>3. cached' # Unread => Filled(cached)'
      BY <2>2, <3>1 DEF Filled
    <3> QED BY <1>t, <2>1, <2>2, <3>1, <3>2, <3>3
  <2>3. CASE UNCHANGED txpool /\ cached' = Unread
    <3>1. NoGap' /\ \A k \in 0..Unread : Filled(k) => Filled(k)'
      BY <2>1, <2>3 DEF NoGap, Filled
    <3> QED BY <1>t, <2>1, <2>3, <3>1
  <2> QED BY <1>4, <2>n, <2>2, <2>3 DEF Sent, AfterFailure
<1>5. ASSUME NEW o \in Others, OtherReads(o) PROVE QueueInv'
  <2>1. PICK n \in Nonces : n = PendingNonce /\ reading' = [reading EXCEPT ![o] = n]
                            /\ UNCHANGED <<mined, txpool, cached, sending>>
    BY <1>5 DEF OtherReads
  <2>2. Filled(n)
    BY <2>1, PendingNonceFollows
  <2> QED BY <1>t, <2>1, <2>2 DEF NoGap, Filled
<1>6. ASSUME NEW o \in Others, OtherSends(o) PROVE QueueInv'
  <2>n. PICK n : n = reading[o]
    OBVIOUS
  <2>1. /\ n \in Nonces /\ Filled(n) /\ UNCHANGED <<mined, cached, sending>>
        /\ reading' = [reading EXCEPT ![o] = Unread]
    BY <1>t, <1>6, <2>n DEF OtherSends
  <2>2. CASE Accepts(n) /\ txpool' = txpool \cup {n}
    <3>1. /\ NoGap' /\ txpool' \subseteq Nonces /\ \A k \in 0..Unread : Filled(k) => Filled(k)'
      BY <1>t, <1>1, <2>1, <2>2
    <3> QED BY <1>t, <2>1, <2>2, <3>1
  <2>3. CASE UNCHANGED txpool
    <3>1. NoGap' /\ \A k \in 0..Unread : Filled(k) => Filled(k)'
      BY <2>1, <2>3 DEF NoGap, Filled
    <3> QED BY <1>t, <2>1, <2>3, <3>1
  <2> QED BY <1>6, <2>n, <2>2, <2>3 DEF OtherSends
<1>7. CASE UNCHANGED queueVars
  BY <1>7 DEF queueVars, NoGap, Filled
<1> QED BY <1>2, <1>3, <1>4, <1>5, <1>6, <1>7 DEF SendQueueNext

(* Three parts of the node sign with one key, answers are lost and sends fail:
   for any number of sends and of other senders, no transaction waits behind a
   nonce that nobody sent. *)
THEOREM NonceIsNeverSkipped == SendQueueSpec => []NoGap
<1>1. QueueInv => NoGap
  BY DEF QueueInv
<1> QED BY <1>1, QueueInitKeeps, QueueStepKeeps, PTL DEF SendQueueSpec

(* Whom a refused nonce is due to: each refusal so far is paid for by a
   transaction of somebody else, and a nonce that the driver holds and the pool
   would refuse has one to spare. *)
Spoiled(n) == n # Unread /\ ~Accepts(n)
ToSpare == refused < taken

RefusalInv ==
    /\ QueueInv
    /\ asked \in Nat /\ refused \in Nat /\ taken \in Nat /\ refused <= taken
    /\ \A a, b \in 1..MaxAsked : sending[a] # Unread /\ sending[b] # Unread => a = b
    /\ Spoiled(cached) => ToSpare
    /\ \A a \in 1..MaxAsked : Spoiled(sending[a]) => ToSpare

LEMMA RefusalStepKeeps == RefusalInv /\ [SendQueueNext]_queueVars => RefusalInv'
<1> SUFFICES ASSUME RefusalInv, [SendQueueNext]_queueVars PROVE RefusalInv'
  OBVIOUS
<1> USE DEF RefusalInv
<1>t. /\ LastNonce \in Nat /\ MaxAsked \in Nat /\ Unread = LastNonce + 1 /\ Nonces = 0..LastNonce
      /\ Unread \in Nat
  BY SendQueueAssumption DEF Unread, Nonces
<1>q. QueueInv'
  BY QueueStepKeeps
<1>v. /\ mined \in Nat /\ cached \in Nat /\ cached <= Unread
      /\ \A a \in 1..MaxAsked : sending[a] \in Nat /\ sending[a] <= Unread
  BY <1>t DEF QueueInv
<1>1. CASE TakeNonce
  <2>1. /\ UNCHANGED <<mined, txpool, cached, refused, taken>>
        /\ asked' = asked + 1 /\ asked + 1 \in 1..MaxAsked
        /\ \A a \in 1..MaxAsked : sending[a] = Unread
    BY <1>1, <1>t DEF TakeNonce, MyTurn, UnderWay
  <2>2. PICK n : n = (IF cached = Unread THEN PendingNonce ELSE cached)
                 /\ sending' = [sending EXCEPT ![asked + 1] = n]
    BY <1>1 DEF TakeNonce
  <2>3. Spoiled(n) => ToSpare
    BY <2>2, PendingNonceFollows DEF Spoiled, QueueInv
  <2>4. \A a \in 1..MaxAsked : sending'[a] = n \/ sending'[a] = Unread
    BY <2>1, <2>2 DEF QueueInv
  <2>5. \A a \in 1..MaxAsked : sending'[a] # Unread => a = asked + 1
    BY <2>1, <2>2 DEF QueueInv
  <2>6. \A x : Spoiled(x)' <=> Spoiled(x)
    BY <2>1 DEF Spoiled, Accepts
  <2>7. ToSpare' <=> ToSpare
    BY <2>1 DEF ToSpare
  <2>8. \A a \in 1..MaxAsked : Spoiled(sending[a])' => ToSpare'
    BY <2>3, <2>4, <2>6, <2>7 DEF Spoiled, Accepts
  <2>9. Spoiled(cached)' => ToSpare'
    BY <2>1, <2>7 DEF Spoiled, Accepts
  <2> QED BY <1>q, <2>1, <2>5, <2>8, <2>9
<1>2. CASE MineNext
  <2>1. /\ mined \in txpool /\ mined' = mined + 1 /\ txpool' = txpool \ {mined}
        /\ UNCHANGED <<cached, sending, asked, refused, taken>>
    BY <1>2 DEF MineNext
  <2>2. \A x \in Nat : Accepts(x) => x >= mined + 1 /\ x \notin txpool \ {mined}
    BY <1>v, <2>1 DEF Accepts
  <2>3. Spoiled(cached)' => ToSpare'
    BY <1>v, <2>1, <2>2 DEF Spoiled, Accepts, ToSpare
  <2>4. \A a \in 1..MaxAsked : Spoiled(sending[a])' => ToSpare'
    BY <1>v, <2>1, <2>2 DEF Spoiled, Accepts, ToSpare
  <2> QED BY <1>q, <2>1, <2>3, <2>4
<1>3. ASSUME NEW a \in 1..MaxAsked, Sent(a) PROVE RefusalInv'
  <2> DEFINE n == sending[a]
  <2>1. /\ n # Unread /\ sending' = [sending EXCEPT ![a] = Unread]
        /\ UNCHANGED <<mined, asked, taken>>
    BY <1>3 DEF Sent, UnderWay
  <2>2. \A b \in 1..MaxAsked : sending'[b] = Unread
    BY <2>1 DEF QueueInv
  <2>3. \A b \in 1..MaxAsked : ~Spoiled(sending[b])'
    BY <2>2 DEF Spoiled, Unread
  <2>4. CASE cached' = Unread /\ UNCHANGED refused
    BY <1>q, <2>1, <2>2, <2>3, <2>4 DEF Spoiled, Unread
  <2>5. CASE ~Accepts(n) /\ cached' = Unread /\ refused' = refused + 1
    <3>1. refused + 1 <= taken
      BY <2>1, <2>5 DEF Spoiled, ToSpare
    <3> QED BY <1>q, <2>1, <2>2, <2>3, <2>5, <3>1 DEF Spoiled, Unread
  <2>6. CASE Accepts(n) /\ txpool' = txpool \cup {n} /\ cached' = n + 1 /\ UNCHANGED refused
    <3>1. n \in Nat /\ n < Unread /\ n \notin txpool /\ n >= mined
      BY <1>v, <1>t, <2>1, <2>6 DEF Accepts
    <3>2. n + 1 \notin txpool
      BY <1>v, <3>1 DEF QueueInv, NoGap
    <3>3. ~Spoiled(cached)'
      BY <1>v, <2>1, <2>6, <3>1, <3>2 DEF Spoiled, Accepts
    <3> QED BY <1>q, <2>1, <2>2, <2>3, <2>6, <3>3
  <2> QED BY <1>3, <2>4, <2>5, <2>6 DEF Sent, AfterFailure
<1>4. ASSUME NEW o \in Others, OtherReads(o) PROVE RefusalInv'
  <2>1. UNCHANGED <<mined, txpool, cached, sending, asked, refused, taken>>
    BY <1>4 DEF OtherReads
  <2> QED BY <1>q, <2>1 DEF Spoiled, Accepts, ToSpare
<1>5. ASSUME NEW o \in Others, OtherSends(o) PROVE RefusalInv'
  <2>1. UNCHANGED <<mined, cached, sending, asked, refused>>
    BY <1>5 DEF OtherSends
  <2>2. CASE taken' = taken + 1
    <3>1. ToSpare' /\ taken' \in Nat /\ refused' <= taken'
      BY <2>1, <2>2 DEF ToSpare
    <3> QED BY <1>q, <2>1, <3>1
  <2>3. CASE UNCHANGED <<txpool, taken>>
    BY <1>q, <2>1, <2>3 DEF Spoiled, Accepts, ToSpare
  <2> QED BY <1>5, <2>2, <2>3 DEF OtherSends
<1>6. CASE UNCHANGED queueVars
  BY <1>q, <1>6 DEF queueVars, Spoiled, Accepts, ToSpare
<1> QED BY <1>1, <1>2, <1>3, <1>4, <1>5, <1>6 DEF SendQueueNext

(* matchbook.js: however many senders share the hot key, the driver's queue
   loses to each of their transactions one send at most. *)
THEOREM OneRefusalEach == SendQueueSpec => []RefusedByOthersOnly
<1>1. SendQueueInit => RefusalInv
  BY QueueInitKeeps DEF SendQueueInit, RefusalInv, Spoiled
<1>2. RefusalInv => RefusedByOthersOnly
  BY DEF RefusalInv, RefusedByOthersOnly
<1> QED BY <1>1, <1>2, RefusalStepKeeps, PTL DEF SendQueueSpec

-----------------------------------------------------------------------------
(* The proxy wallets *)

ProxyTx == [what : Whats, user : Users, tab : Tabs, wallet : SUBSET Wallets, thing : Things]

(* What each call is about. *)
Fits(what, thing) ==
    /\ what \in Whats
    /\ what = "bind" => thing \in Browsers
    /\ what = "unbind" => thing \in ProfileKeys
    /\ what \in {"claim", "build", "unbuild", "give"} => thing \in Titles
    /\ what \in {"faucet", "approve", "bond", "stake", "delegate"} => thing = NodeKey

IsBusy(j) == j.at \in {"ready", "sent"}
JobFits(j, w) ==
    /\ j \in Job /\ (j.at # "idle" => <<j.op, j.thing>> \in Wishes)
    /\ IsBusy(j) => w # {} /\ j.plan # <<>> /\ \A i \in 1..Len(j.plan) : Fits(j.plan[i], j.thing)

TxFits(x) ==
    /\ x.wallet = walletOf[x.user] /\ x.wallet # {}
    /\ Fits(x.what, x.thing)
    /\ x.what \in {"register", "bind-air"} => x.thing = x.user

(* Every user has one wallet of its own, a call is signed by it, and what is
   owned once is never again nobody's. *)
WalletInv ==
    /\ owner \in [Things -> SUBSET (Wallets \cup {Away})]
    /\ walletOf \in [Users -> SUBSET Wallets]
    /\ \A u \in Users : walletOf[u] = {} \/ \E w \in Wallets : walletOf[u] = {w}
    /\ \A u, v \in Users : walletOf[u] # {} /\ walletOf[u] = walletOf[v] => u = v
    /\ job \in [Users -> [Tabs -> Job]]
    /\ \A u \in Users, t \in Tabs : JobFits(job[u][t], walletOf[u])
    /\ inPool \subseteq ProxyTx /\ reverted \subseteq ProxyTx
    /\ \A x \in inPool \cup reverted : TxFits(x)
    /\ \A a \in bound : a \in Things /\ owner[a] # {}
    /\ CustodyStays

(* While every call of a user was answered, one request of the user is under
   way at a time, and what is in the pool is the call it waits for, which will
   succeed unless another account was first. *)
OneAtATime ==
    \A u \in Users \ abandoned :
      /\ \A t, s \in Tabs : IsBusy(job[u][t]) /\ IsBusy(job[u][s]) => t = s
      /\ \A x \in inPool : x.user = u => Awaits(x) /\ (Allowed(x) \/ IsTaken(x))

ProxyInv == WalletInv /\ OneAtATime /\ NobodyPaysTwice

LEMMA ProxyInitKeeps == ProxyInit => ProxyInv
<1> SUFFICES ASSUME ProxyInit PROVE ProxyInv
  OBVIOUS
<1>1. NoRequest \in Job /\ NoRequest.at = "idle"
  BY DEF NoRequest, Job, Things
<1>2. \A u \in Users : u \in Things
  BY DEF Things, ProfileKeys
<1> HIDE DEF NoRequest
<1>3. WalletInv
  BY <1>1, <1>2 DEF ProxyInit, WalletInv, JobFits, IsBusy, CustodyStays
<1> QED BY <1>1, <1>3 DEF ProxyInit, ProxyInv, OneAtATime, IsBusy, NobodyPaysTwice

LEMMA ThingsApart ==
  /\ Users \subseteq Things /\ Browsers \subseteq Things /\ Titles \subseteq Things
  /\ ProfileKeys \subseteq Things /\ NodeKey \in Things
  /\ \A a \in Users : a \notin Browsers /\ a \notin Titles /\ a # NodeKey
  /\ Away \notin Wallets
  BY ProxyAssumption DEF Things, ProfileKeys

(* A request moves on, and nothing is sent. *)
LEMMA ARequestMoves ==
  ASSUME ProxyInv, NEW u \in Users, NEW t \in Tabs, NEW j, Goes(u, t, j),
         JobFits(j, walletOf[u]),
         UNCHANGED <<owner, bound, built, inPool, walletOf, reverted>>,
         abandoned' \in {abandoned, abandoned \cup {u}},
         job[u][t].at = "sent" => u \in abandoned',
         IsBusy(j) => IsBusy(job[u][t]) \/ HasLock(u)
  PROVE  ProxyInv'
<1> USE DEF ProxyInv
<1>1. /\ job' \in [Users -> [Tabs -> Job]]
      /\ \A v \in Users, s \in Tabs :
           job'[v][s] = IF v = u /\ s = t THEN j ELSE job[v][s]
  BY DEF Goes, WalletInv, JobFits
<1>2. WalletInv'
  <2>1. \A v \in Users, s \in Tabs : JobFits(job'[v][s], walletOf[v])
    BY <1>1 DEF WalletInv
  <2>2. \A x \in inPool \cup reverted : TxFits(x)'
    BY DEF WalletInv, TxFits
  <2>3. CustodyStays'
    BY DEF WalletInv, CustodyStays
  <2> QED BY <1>1, <2>1, <2>2, <2>3 DEF WalletInv
<1>3. ASSUME NEW v \in Users \ abandoned'
      PROVE  /\ \A r, s \in Tabs : IsBusy(job'[v][r]) /\ IsBusy(job'[v][s]) => r = s
             /\ \A x \in inPool : x.user = v => Awaits(x)' /\ (Allowed(x)' \/ IsTaken(x)')
  <2>1. v \in Users \ abandoned
    BY <1>3
  <2>2. ASSUME NEW r \in Tabs, NEW s \in Tabs, IsBusy(job'[v][r]), IsBusy(job'[v][s])
        PROVE  r = s
    <3>1. CASE v = u /\ IsBusy(j) /\ HasLock(u)
      <4>1. \A q \in Tabs : ~IsBusy(job[u][q])
        BY <3>1 DEF HasLock, IsBusy
      <4> QED BY <1>1, <2>2, <3>1, <4>1
    <3>2. CASE v = u /\ IsBusy(j) /\ IsBusy(job[u][t])
      BY <1>1, <2>1, <2>2, <3>2 DEF OneAtATime
    <3>3. CASE v # u \/ ~IsBusy(j)
      BY <1>1, <2>1, <2>2, <3>3 DEF OneAtATime
    <3> QED BY <3>1, <3>2, <3>3
  <2>3. ASSUME NEW x \in inPool, x.user = v
        PROVE  Awaits(x)' /\ (Allowed(x)' \/ IsTaken(x)')
    <3>1. x.user \in Users /\ x.tab \in Tabs
      BY DEF WalletInv, ProxyTx
    <3>2. Awaits(x) /\ (Allowed(x) \/ IsTaken(x))
      BY <2>1, <2>3 DEF OneAtATime
    <3>3. ~(x.user = u /\ x.tab = t)
      BY <1>3, <2>3, <3>2 DEF Awaits
    <3>4. job'[x.user][x.tab] = job[x.user][x.tab]
      BY <1>1, <3>1, <3>3
    <3>5. Awaits(x)'
      BY <3>2, <3>4 DEF Awaits, Call
    <3>6. Allowed(x)' = Allowed(x) /\ IsTaken(x)' = IsTaken(x)
      BY DEF Allowed, IsTaken
    <3> QED BY <3>2, <3>5, <3>6
  <2> QED BY <2>2, <2>3
<1>4. NobodyPaysTwice'
  BY DEF NobodyPaysTwice, IsTaken
<1> QED BY <1>2, <1>3, <1>4 DEF OneAtATime

LEMMA NoRequestFits == \A w : JobFits(NoRequest, w) /\ ~IsBusy(NoRequest)
  BY DEF NoRequest, JobFits, IsBusy, Job, Things

LEMMA DoneFits ==
  ASSUME NEW w, NEW j, JobFits(j, w), IsBusy(j)
  PROVE  JobFits(Done(j), w)
<1>1. CASE Len(j.plan) <= 1
  BY <1>1, NoRequestFits DEF Done
<1>2. CASE ~(Len(j.plan) <= 1)
  <2> DEFINE p == Tail(j.plan)
             d == [[j EXCEPT !.at = "ready"] EXCEPT !.plan = p]
  <2>1. j \in Job /\ j.plan \in Seq(Whats) /\ Len(j.plan) \in Nat /\ w # {}
        /\ \A i \in 1..Len(j.plan) : Fits(j.plan[i], j.thing)
    BY DEF JobFits, Job
  <2>2. p \in Seq(Whats) /\ Len(p) = Len(j.plan) - 1 /\ p # <<>>
    <3>1. j.plan # <<>>
      BY <1>2, <2>1
    <3>2. p \in Seq(Whats) /\ Len(p) = Len(j.plan) - 1
      BY <2>1, <3>1
    <3>3. Len(p) # 0 /\ Len(<<>>) = 0
      BY <1>2, <2>1, <3>2
    <3> HIDE DEF p
    <3>4. p # <<>>
      BY <3>3
    <3> QED BY <3>2, <3>4
  <2>3. ASSUME NEW i \in 1..Len(p) PROVE Fits(p[i], j.thing)
    <3>1. p[i] = j.plan[i + 1] /\ i + 1 \in 1..Len(j.plan)
      BY <1>2, <2>1, <2>2
    <3> QED BY <2>1, <3>1
  <2> HIDE DEF p
  <2>4. d \in Job /\ d.at = "ready" /\ d.plan = p /\ d.thing = j.thing /\ d.op = j.op
    BY <2>1, <2>2 DEF Job
  <2>5. Done(j) = d
    BY <1>2 DEF Done, At, p
  <2> HIDE DEF d
  <2>6. <<j.op, j.thing>> \in Wishes
    BY DEF JobFits, IsBusy
  <2> QED BY <2>1, <2>2, <2>3, <2>4, <2>5, <2>6 DEF JobFits
<1> QED BY <1>1, <1>2

LEMMA SentFits ==
  ASSUME NEW w, NEW j, JobFits(j, w), IsBusy(j)
  PROVE  JobFits(At(j, "sent"), w) /\ At(j, "sent").at = "sent" /\ At(j, "sent").plan = j.plan
         /\ At(j, "sent").thing = j.thing
  BY DEF JobFits, IsBusy, At, Job

LEMMA CallFits ==
  ASSUME WalletInv, NEW u \in Users, NEW t \in Tabs, job[u][t].at = "ready"
  PROVE  /\ Call(u, t) \in ProxyTx /\ TxFits(Call(u, t))
         /\ Call(u, t).user = u /\ Call(u, t).tab = t
<1> DEFINE j == job[u][t]
           what == Head(j.plan)
<1>1. j \in Job /\ j.plan \in Seq(Whats) /\ j.plan # <<>> /\ walletOf[u] # {} /\ j.thing \in Things
      /\ \A i \in 1..Len(j.plan) : Fits(j.plan[i], j.thing)
  BY DEF WalletInv, JobFits, IsBusy, Job
<1>2. what \in Whats /\ what = j.plan[1] /\ 1 \in 1..Len(j.plan)
  BY <1>1
<1>3. Fits(what, j.thing)
  BY <1>1, <1>2
<1>4. Call(u, t) = [what |-> what, user |-> u, tab |-> t, wallet |-> walletOf[u],
                    thing |-> IF what \in {"register", "bind-air"} THEN u ELSE j.thing]
  BY DEF Call
<1> HIDE DEF what, j
<1>5. Call(u, t) \in ProxyTx
  BY <1>1, <1>2, <1>4, ThingsApart DEF ProxyTx, WalletInv
<1>6. TxFits(Call(u, t))
  BY <1>1, <1>3, <1>4 DEF TxFits, Fits
<1> QED BY <1>4, <1>5, <1>6

(* The call of a request goes to the pool. *)
LEMMA ARequestSends ==
  ASSUME ProxyInv, NEW u \in Users, NEW t \in Tabs, job[u][t].at = "ready",
         Allowed(Call(u, t)), inPool' = inPool \cup {Call(u, t)},
         \/ Goes(u, t, At(job[u][t], "sent")) /\ UNCHANGED abandoned
         \/ Goes(u, t, NoRequest) /\ abandoned' = abandoned \cup {u},
         UNCHANGED <<owner, bound, built, walletOf, reverted>>
  PROVE  ProxyInv'
<1> USE DEF ProxyInv
<1>0. PICK x \in ProxyTx : x = Call(u, t) /\ TxFits(x) /\ x.user = u /\ x.tab = t
  BY CallFits
<1>1. PICK k : Goes(u, t, k) /\ JobFits(k, walletOf[u])
               /\ (u \notin abandoned' =>
                     k.at = "sent" /\ k.plan = job[u][t].plan /\ k.thing = job[u][t].thing)
               /\ abandoned \subseteq abandoned'
  <2>1. JobFits(job[u][t], walletOf[u]) /\ IsBusy(job[u][t])
    BY DEF WalletInv, IsBusy
  <2>2. CASE Goes(u, t, At(job[u][t], "sent")) /\ UNCHANGED abandoned
    BY <2>1, <2>2, SentFits
  <2>3. CASE Goes(u, t, NoRequest) /\ abandoned' = abandoned \cup {u}
    BY <2>3, NoRequestFits
  <2> QED BY <2>2, <2>3
<1>2. /\ job' \in [Users -> [Tabs -> Job]]
      /\ \A v \in Users, s \in Tabs :
           job'[v][s] = IF v = u /\ s = t THEN k ELSE job[v][s]
  BY <1>1 DEF Goes, WalletInv, JobFits
<1>3. inPool' = inPool \cup {x}
  BY <1>0
<1>4. WalletInv'
  <2>1. \A v \in Users, s \in Tabs : JobFits(job'[v][s], walletOf[v])
    BY <1>1, <1>2 DEF WalletInv
  <2>2. \A y \in inPool' \cup reverted : TxFits(y)'
    BY <1>0, <1>3 DEF WalletInv, TxFits
  <2>3. inPool' \subseteq ProxyTx
    BY <1>3 DEF WalletInv
  <2>4. CustodyStays'
    BY DEF WalletInv, CustodyStays
  <2> QED BY <1>2, <2>1, <2>2, <2>3, <2>4 DEF WalletInv, JobFits
<1>5. ASSUME NEW v \in Users \ abandoned'
      PROVE  /\ \A r, s \in Tabs : IsBusy(job'[v][r]) /\ IsBusy(job'[v][s]) => r = s
             /\ \A y \in inPool' : y.user = v => Awaits(y)' /\ (Allowed(y)' \/ IsTaken(y)')
  <2>1. v \in Users \ abandoned /\ IsBusy(job[u][t])
    BY <1>1, <1>5 DEF IsBusy
  <2>2. ASSUME NEW r \in Tabs, NEW s \in Tabs, IsBusy(job'[v][r]), IsBusy(job'[v][s])
        PROVE  r = s
    BY <1>2, <2>1, <2>2 DEF OneAtATime
  <2>3. ASSUME NEW y \in inPool, y.user = v
        PROVE  Awaits(y)' /\ (Allowed(y)' \/ IsTaken(y)')
    <3>1. y.user \in Users /\ y.tab \in Tabs
      BY DEF WalletInv, ProxyTx
    <3>2. Awaits(y) /\ (Allowed(y) \/ IsTaken(y))
      BY <2>1, <2>3 DEF OneAtATime
    <3>3. ~(y.user = u /\ y.tab = t)
      BY <3>2 DEF Awaits
    <3>4. job'[y.user][y.tab] = job[y.user][y.tab]
      BY <1>2, <3>1, <3>3
    <3>5. Awaits(y)'
      BY <3>2, <3>4 DEF Awaits, Call
    <3>6. Allowed(y)' = Allowed(y) /\ IsTaken(y)' = IsTaken(y)
      BY DEF Allowed, IsTaken
    <3> QED BY <3>2, <3>5, <3>6
  <2>4. u = v => Awaits(x)'
    <3> SUFFICES ASSUME u = v PROVE Awaits(x)'
      OBVIOUS
    <3>1. job'[u][t].at = "sent" /\ job'[u][t].plan = job[u][t].plan
          /\ job'[u][t].thing = job[u][t].thing
      BY <1>1, <1>2, <1>5
    <3>2. Call(u, t)' = x
      BY <1>0, <3>1 DEF Call
    <3> QED BY <1>0, <3>1, <3>2 DEF Awaits
  <2>5. Allowed(x)'
    BY <1>0 DEF Allowed
  <2> QED BY <1>0, <1>3, <2>2, <2>3, <2>4, <2>5
<1>6. NobodyPaysTwice'
  BY <1>1 DEF NobodyPaysTwice, IsTaken
<1> QED BY <1>4, <1>5, <1>6 DEF OneAtATime

LEMMA CallsFit ==
  ASSUME NEW thing, NEW a, NEW b, NEW c, NEW d,
         Fits(a, thing), Fits(b, thing), Fits(c, thing), Fits(d, thing)
  PROVE  \A p \in {<<a>>, <<a, b>>, <<a, b, c>>, <<a, b, c, d>>} :
           p \in Seq(Whats) /\ \A i \in 1..Len(p) : Fits(p[i], thing)
<1>1. a \in Whats /\ b \in Whats /\ c \in Whats /\ d \in Whats
  BY DEF Fits
<1> HIDE DEF Whats
<1>2. <<a>> \in Seq(Whats) /\ \A i \in 1..Len(<<a>>) : Fits(<<a>>[i], thing)
  BY <1>1
<1>3. <<a, b>> \in Seq(Whats) /\ \A i \in 1..Len(<<a, b>>) : Fits(<<a, b>>[i], thing)
  BY <1>1
<1>4. <<a, b, c>> \in Seq(Whats) /\ \A i \in 1..Len(<<a, b, c>>) : Fits(<<a, b, c>>[i], thing)
  BY <1>1
<1>5. /\ <<a, b, c, d>> \in Seq(Whats)
      /\ \A i \in 1..Len(<<a, b, c, d>>) : Fits(<<a, b, c, d>>[i], thing)
  BY <1>1
<1> QED BY <1>2, <1>3, <1>4, <1>5

LEMMA PlansFit ==
  ASSUME WalletInv, NEW u \in Users, NEW t \in Tabs, JobFits(job[u][t], walletOf[u]),
         NEW p \in Plans(u, job[u][t].op, job[u][t].thing), p # <<>>,
         <<job[u][t].op, job[u][t].thing>> \in Wishes
  PROVE  /\ p \in Seq(Whats)
         /\ \A i \in 1..Len(p) : Fits(p[i], job[u][t].thing)
         /\ walletOf[u] # {} \/ (job[u][t].op = "session" /\ owner[u] = {})
<1> DEFINE op == job[u][t].op
           thing == job[u][t].thing
<1>1. \/ op = "session" /\ thing \in Browsers
      \/ op = "revoke" /\ thing \in ProfileKeys
      \/ op = "bond" /\ thing = NodeKey
      \/ op \in {"register", "set-build", "revoke-build", "transfer"} /\ thing \in Titles
  BY DEF Wishes
<1>2. CASE op = "session"
  <2>1. p \in {<<"register", "bind">>, <<"bind-air", "bind">>, <<"bind">>}
        /\ (owner[u] # {} => walletOf[u] # {})
    BY <1>2 DEF Plans, SignIn, WalletInv, CustodyStays
  <2>2. thing \in Browsers
    BY <1>1, <1>2
  <2>3. \A w \in {"register", "bind-air", "bind"} : Fits(w, thing) /\ w \in Whats
    BY <2>2 DEF Fits, Whats
  <2> HIDE DEF thing
  <2>4. p \in Seq(Whats) /\ \A i \in 1..Len(p) : Fits(p[i], thing)
    BY <2>1, <2>3, CallsFit, Zenon
  <2> QED BY <1>2, <2>1, <2>4 DEF thing
<1>3. CASE op # "session"
  <2>1. IsHeld(u)
    BY <1>3 DEF Plans
  <2>2. walletOf[u] # {}
    BY <2>1 DEF IsHeld, WalletInv
  <2>3. CASE op = "revoke"
    <3>1. p = <<"unbind">>
      BY <2>1, <2>3 DEF Plans
    <3>2. thing \in ProfileKeys
      BY <1>1, <2>3
    <3>3. Fits("unbind", thing) /\ "unbind" \in Whats
      BY <3>2 DEF Fits, Whats
    <3> HIDE DEF thing
    <3>4. p \in Seq(Whats) /\ \A i \in 1..Len(p) : Fits(p[i], thing)
      BY <3>1, <3>3
    <3> QED BY <2>2, <3>4 DEF thing
  <2>4. CASE op = "register"
    <3>1. p = <<"claim">>
      BY <2>1, <2>4 DEF Plans
    <3>2. thing \in Titles
      BY <1>1, <2>4
    <3>3. Fits("claim", thing) /\ "claim" \in Whats
      BY <3>2 DEF Fits, Whats
    <3> HIDE DEF thing
    <3>4. p \in Seq(Whats) /\ \A i \in 1..Len(p) : Fits(p[i], thing)
      BY <3>1, <3>3
    <3> QED BY <2>2, <3>4 DEF thing
  <2>5. CASE op \in {"set-build", "revoke-build", "transfer"}
    <3>1. p \in {<<"build">>, <<"give">>, <<"unbuild">>}
      BY <2>1, <2>5 DEF Plans, TitleCall
    <3>2. thing \in Titles
      BY <1>1, <2>5
    <3>3. \A w \in {"build", "give", "unbuild"} : Fits(w, thing) /\ w \in Whats
      BY <3>2 DEF Fits, Whats
    <3>4. PICK w \in {"build", "give", "unbuild"} : p = <<w>>
      BY <3>1
    <3> HIDE DEF thing
    <3>5. p \in Seq(Whats) /\ \A i \in 1..Len(p) : Fits(p[i], thing)
      BY <3>3, <3>4
    <3> QED BY <2>2, <3>5 DEF thing
  <2>6. CASE op = "bond"
    <3>1. PICK top \in {"bond", "stake"} :
            p \in {<<"faucet", "approve", top, "delegate">>, <<"approve", top, "delegate">>}
      BY <2>1, <2>6 DEF Plans, BondPlans
    <3>2. thing = NodeKey
      BY <1>1, <2>6
    <3>3. \A w \in {"faucet", "approve", top, "delegate"} : Fits(w, thing) /\ w \in Whats
      BY <3>2 DEF Fits, Whats
    <3> HIDE DEF thing
    <3>4. p \in Seq(Whats) /\ \A i \in 1..Len(p) : Fits(p[i], thing)
      BY <3>1, <3>3, CallsFit, Zenon
    <3> QED BY <2>2, <3>4 DEF thing
  <2> QED BY <1>1, <1>3, <2>3, <2>4, <2>5, <2>6
<1> QED BY <1>2, <1>3

(* A request reads, keeps a new wallet when it needs one, and takes the lock. *)
LEMMA LookKeeps ==
  ASSUME ProxyInv, NEW u \in Users, NEW t \in Tabs, Look(u, t)
  PROVE  ProxyInv'
<1> USE DEF ProxyInv
<1>1. /\ job[u][t].at = "queued" /\ HasLock(u) /\ JobFits(job[u][t], walletOf[u])
      /\ UNCHANGED <<owner, bound, built, inPool, abandoned, reverted>>
      /\ \A s \in Tabs : ~IsBusy(job[u][s])
  BY DEF Look, HasLock, IsBusy, WalletInv
<1>2. PICK p \in Plans(u, job[u][t].op, job[u][t].thing) :
        Goes(u, t, IF p = <<>> THEN NoRequest ELSE [At(job[u][t], "ready") EXCEPT !.plan = p])
  BY DEF Look
<1> DEFINE j == IF p = <<>> THEN NoRequest ELSE [At(job[u][t], "ready") EXCEPT !.plan = p]
<1>3. /\ walletOf' \in [Users -> SUBSET Wallets]
      /\ \A v \in Users : v # u \/ walletOf[u] # {} => walletOf'[v] = walletOf[v]
      /\ walletOf'[u] = {} \/ \E w \in Wallets : walletOf'[u] = {w}
      /\ \A v \in Users : v # u /\ walletOf'[u] # {} => walletOf'[u] # walletOf[v]
      /\ job[u][t].op = "session" /\ owner[u] = {} => walletOf'[u] # {}
  <2>1. CASE job[u][t].op = "session" /\ owner[u] = {} /\ walletOf[u] = {}
    <3>1. PICK w \in Wallets \ UNION {walletOf[v] : v \in Users} :
            walletOf' = [walletOf EXCEPT ![u] = {w}]
      BY <2>1 DEF Look, Created
    <3>2. \A v \in Users : {w} # walletOf[v]
      OBVIOUS
    <3> QED BY <2>1, <3>1, <3>2 DEF WalletInv
  <2>2. CASE ~(job[u][t].op = "session" /\ owner[u] = {} /\ walletOf[u] = {})
    <3>1. walletOf' = walletOf
      BY <2>2 DEF Look, Created, WalletInv
    <3> QED BY <2>2, <3>1 DEF WalletInv
  <2> QED BY <2>1, <2>2
<1>4. JobFits(j, walletOf'[u])
  <2>1. CASE p = <<>>
    BY <2>1, NoRequestFits
  <2>2. CASE p # <<>>
    <3>1. <<job[u][t].op, job[u][t].thing>> \in Wishes
      BY <1>1 DEF JobFits
    <3>2. /\ p \in Seq(Whats) /\ \A i \in 1..Len(p) : Fits(p[i], job[u][t].thing)
          /\ walletOf[u] # {} \/ (job[u][t].op = "session" /\ owner[u] = {})
      BY <1>1, <2>2, <3>1, PlansFit
    <3>3. walletOf'[u] # {}
      BY <1>3, <3>2
    <3>4. job[u][t] \in Job
      BY <1>1 DEF JobFits
    <3>5. /\ j \in Job /\ j.plan = p /\ j.thing = job[u][t].thing /\ j.op = job[u][t].op
      <4>1. At(job[u][t], "ready") \in Job /\ At(job[u][t], "ready").thing = job[u][t].thing
            /\ At(job[u][t], "ready").op = job[u][t].op
        BY <3>4 DEF At, Job
      <4>2. j = [At(job[u][t], "ready") EXCEPT !.plan = p]
        BY <2>2
      <4> QED BY <3>2, <4>1, <4>2 DEF Job
    <3> HIDE DEF j
    <3> QED BY <2>2, <3>1, <3>2, <3>3, <3>5 DEF JobFits
  <2> QED BY <2>1, <2>2
<1> HIDE DEF j
<1>5. /\ job' \in [Users -> [Tabs -> Job]]
      /\ \A v \in Users, s \in Tabs :
           job'[v][s] = IF v = u /\ s = t THEN j ELSE job[v][s]
  BY <1>2, <1>4 DEF Goes, WalletInv, JobFits, j
<1>6. WalletInv'
  <2>1. ASSUME NEW v \in Users, NEW s \in Tabs PROVE JobFits(job'[v][s], walletOf'[v])
    <3>1. CASE v = u /\ s = t
      BY <1>4, <1>5, <3>1
    <3>2. CASE v # u
      BY <1>3, <1>5, <3>2 DEF WalletInv
    <3>3. CASE v = u /\ s # t
      <4>1. job'[v][s] = job[u][s] /\ ~IsBusy(job[u][s]) /\ JobFits(job[u][s], walletOf[u])
        BY <1>1, <1>5, <3>3 DEF WalletInv
      <4> QED BY <3>3, <4>1 DEF JobFits
    <3> QED BY <3>1, <3>2, <3>3
  <2>2. ASSUME NEW x \in inPool \cup reverted PROVE TxFits(x)'
    <3>1. x.user \in Users /\ TxFits(x)
      BY DEF WalletInv, ProxyTx
    <3>2. walletOf'[x.user] = walletOf[x.user]
      BY <1>3, <3>1 DEF TxFits
    <3> QED BY <3>1, <3>2 DEF TxFits
  <2>3. CustodyStays'
    <3>1. ASSUME NEW v \in Users PROVE owner[v] \in {{}, walletOf'[v]}
      <4>1. owner[v] \in {{}, walletOf[v]}
        BY DEF WalletInv, CustodyStays
      <4> QED BY <1>3, <4>1
    <3> QED BY <1>1, <3>1 DEF CustodyStays
  <2>4. \A v \in Users : walletOf'[v] = {} \/ \E w \in Wallets : walletOf'[v] = {w}
    BY <1>3 DEF WalletInv
  <2>5. \A v, w \in Users : walletOf'[v] # {} /\ walletOf'[v] = walletOf'[w] => v = w
    BY <1>3 DEF WalletInv
  <2>6. /\ owner' \in [Things -> SUBSET (Wallets \cup {Away})]
        /\ inPool' \subseteq ProxyTx /\ reverted' \subseteq ProxyTx
        /\ \A a \in bound' : a \in Things /\ owner'[a] # {}
    BY <1>1 DEF WalletInv
  <2>7. \A x \in inPool' \cup reverted' : TxFits(x)'
    BY <1>1, <2>2
  <2> QED BY <1>3, <1>5, <2>1, <2>3, <2>4, <2>5, <2>6, <2>7 DEF WalletInv
<1>7. ASSUME NEW v \in Users \ abandoned'
      PROVE  /\ \A r, s \in Tabs : IsBusy(job'[v][r]) /\ IsBusy(job'[v][s]) => r = s
             /\ \A x \in inPool' : x.user = v => Awaits(x)' /\ (Allowed(x)' \/ IsTaken(x)')
  <2>1. v \in Users \ abandoned
    BY <1>1, <1>7
  <2>2. ASSUME NEW r \in Tabs, NEW s \in Tabs, IsBusy(job'[v][r]), IsBusy(job'[v][s])
        PROVE  r = s
    BY <1>1, <1>5, <2>1, <2>2 DEF OneAtATime
  <2>3. ASSUME NEW x \in inPool, x.user = v
        PROVE  Awaits(x)' /\ (Allowed(x)' \/ IsTaken(x)')
    <3>1. x.user \in Users /\ x.tab \in Tabs
      BY DEF WalletInv, ProxyTx
    <3>2. Awaits(x) /\ (Allowed(x) \/ IsTaken(x))
      BY <2>1, <2>3 DEF OneAtATime
    <3>3. x.user # u
      BY <1>1, <3>1, <3>2 DEF Awaits, IsBusy
    <3>4. job'[x.user][x.tab] = job[x.user][x.tab] /\ walletOf'[x.user] = walletOf[x.user]
      BY <1>3, <1>5, <3>1, <3>3
    <3>5. Awaits(x)'
      BY <3>2, <3>4 DEF Awaits, Call
    <3>6. Allowed(x)' = Allowed(x) /\ IsTaken(x)' = IsTaken(x)
      BY <1>1 DEF Allowed, IsTaken
    <3> QED BY <3>2, <3>5, <3>6
  <2> QED BY <1>1, <2>2, <2>3
<1>8. NobodyPaysTwice'
  BY <1>1 DEF NobodyPaysTwice, IsTaken
<1> QED BY <1>6, <1>7, <1>8 DEF OneAtATime

(* What a mined call changes: it takes what was nobody's or its own wallet's, or
   gives its own away. *)
LEMMA OwnersMove ==
  ASSUME WalletInv, NEW x \in inPool, Mine(x)
  PROVE  /\ owner' \in [Things -> SUBSET (Wallets \cup {Away})]
         /\ \A a \in Things :
              \/ owner'[a] = owner[a]
              \/ /\ a = x.thing /\ Allowed(x) /\ owner[a] \in {{}, x.wallet}
                 /\ x.what \in {"register", "bind-air", "bind", "claim", "bond", "give"}
                 /\ owner'[a] \in {x.wallet, {Away}}
                 /\ x.what = "give" => owner[a] = x.wallet
                 /\ x.what # "give" => owner'[a] = x.wallet
         /\ ~Allowed(x) => UNCHANGED <<owner, bound, built>>
<1>1. /\ x \in ProxyTx /\ TxFits(x) /\ x.user \in Users /\ x.wallet \subseteq Wallets
      /\ x.thing \in Things /\ \E w \in Wallets : x.wallet = {w}
  BY DEF WalletInv, ProxyTx, TxFits
<1>2. CASE ~Allowed(x)
  BY <1>2 DEF Mine, WalletInv
<1>3. CASE Allowed(x) /\ x.what \in {"register", "bind-air", "bind", "claim", "bond"}
  <2>1. owner' = [owner EXCEPT ![x.thing] = x.wallet]
    BY <1>3 DEF Mine
  <2>2. owner[x.thing] = {} \/ owner[x.thing] \subseteq x.wallet
    BY <1>3 DEF Allowed
  <2>3. owner[x.thing] \in {{}, x.wallet}
    BY <1>1, <2>2
  <2> QED BY <1>1, <1>3, <2>1, <2>3 DEF WalletInv
<1>4. CASE Allowed(x) /\ x.what = "give"
  <2>1. owner' = [owner EXCEPT ![x.thing] = {Away}] /\ owner[x.thing] = x.wallet
    BY <1>4 DEF Mine, Allowed
  <2> QED BY <1>1, <1>4, <2>1 DEF WalletInv
<1>5. CASE Allowed(x) /\ x.what \notin {"register", "bind-air", "bind", "claim", "bond", "give"}
  <2>1. owner' = owner
    BY <1>5 DEF Mine
  <2> QED BY <1>5, <2>1 DEF WalletInv
<1> QED BY <1>2, <1>3, <1>4, <1>5

(* What another account took is not taken back. *)
LEMMA TakenStays ==
  ASSUME WalletInv, NEW x \in inPool, Mine(x), NEW y \in inPool \cup reverted, IsTaken(y)
  PROVE  IsTaken(y)'
<1>1. /\ y.thing \in Things /\ y.wallet # {} /\ y.wallet \subseteq Wallets
      /\ x.wallet # {} /\ x.wallet \subseteq Wallets
  BY DEF WalletInv, ProxyTx, TxFits
<1>2. CASE owner'[y.thing] = owner[y.thing]
  BY <1>2 DEF IsTaken
<1>3. CASE owner[y.thing] \in {{}, x.wallet} /\ owner'[y.thing] \in {x.wallet, {Away}}
  <2>1. owner[y.thing] = x.wallet /\ x.wallet # y.wallet
    BY <1>3 DEF IsTaken
  <2>2. {Away} # y.wallet
    BY <1>1, ThingsApart
  <2> QED BY <1>1, <1>3, <2>1, <2>2 DEF IsTaken
<1> QED BY <1>1, <1>2, <1>3, OwnersMove

(* A call that would succeed still does after another account's, or was too late. *)
LEMMA AllowedOrTaken ==
  ASSUME WalletInv, NEW x \in inPool, Mine(x), NEW y \in inPool, x.user # y.user,
         Allowed(y), ~IsTaken(y)
  PROVE  Allowed(y)' \/ IsTaken(y)'
<1>1. /\ y.thing \in Things /\ y.user \in Things /\ y.wallet # {} /\ x.wallet # {}
      /\ x.wallet # y.wallet /\ x.thing \in Things /\ TxFits(y)
      /\ {Away} # y.wallet /\ y.what \in Whats
  <2>1. x.user \in Users /\ y.user \in Users /\ x.wallet = walletOf[x.user]
        /\ y.wallet = walletOf[y.user] /\ y.wallet # {} /\ x.wallet # {}
    BY DEF WalletInv, ProxyTx, TxFits
  <2>2. x.wallet # y.wallet
    BY <2>1 DEF WalletInv
  <2>3. y.wallet \subseteq Wallets
    BY <2>1 DEF WalletInv
  <2> QED BY <2>1, <2>2, <2>3, ThingsApart DEF WalletInv, ProxyTx
<1>2. owner[y.thing] \in {{}, y.wallet}
  BY DEF IsTaken
<1>3. \/ owner'[y.thing] = owner[y.thing]
      \/ owner[y.thing] = {} /\ owner'[y.thing] = x.wallet
  BY <1>1, <1>2, OwnersMove
<1>4. CASE owner'[y.thing] = x.wallet
  BY <1>1, <1>4 DEF IsTaken
<1>5. CASE owner'[y.thing] = owner[y.thing] /\ owner'[y.thing] # x.wallet
  <2>1. owner[y.user] # {} => owner'[y.user] # {}
    BY <1>1, OwnersMove
  <2>2. ASSUME owner[y.thing] = y.wallet
        PROVE  /\ y.thing \in bound => y.thing \in bound'
               /\ y.thing \in built <=> y.thing \in built'
    <3>1. CASE ~Allowed(x)
      BY <3>1, OwnersMove
    <3>2. CASE Allowed(x)
      <4>1. x.what \in {"unbind", "build", "unbuild", "claim"} => x.thing # y.thing
        BY <1>1, <2>2, <3>2 DEF Allowed
      <4> QED BY <3>2, <4>1 DEF Mine
    <3> QED BY <3>1, <3>2
  <2>3. y.what \in {"register", "claim", "bond"} => owner'[y.thing] = {}
    BY <1>5 DEF Allowed
  <2>4. y.what \in {"unbind", "build", "unbuild", "give", "stake", "delegate"} =>
          owner'[y.thing] = y.wallet /\ owner[y.thing] = y.wallet
    BY <1>5 DEF Allowed
  <2>5. y.what \in {"bind", "bind-air"} => owner'[y.user] # {} /\ owner'[y.thing] \subseteq y.wallet
    BY <1>5, <2>1 DEF Allowed
  <2>6. /\ y.what = "unbind" => y.thing \in bound'
        /\ y.what = "build" => y.thing \notin built'
        /\ y.what = "unbuild" => y.thing \in built'
    BY <2>2, <2>4 DEF Allowed
  <2> QED BY <2>3, <2>4, <2>5, <2>6 DEF Allowed
<1> QED BY <1>3, <1>4, <1>5

LEMMA MineKeeps ==
  ASSUME ProxyInv, NEW x \in inPool, Mine(x)
  PROVE  ProxyInv'
<1> USE DEF ProxyInv
<1>1. /\ x \in ProxyTx /\ TxFits(x) /\ x.user \in Users /\ x.tab \in Tabs /\ x.thing \in Things
      /\ inPool' = inPool \ {x} /\ UNCHANGED <<walletOf, abandoned>>
      /\ reverted' = reverted \/ (~Allowed(x) /\ reverted' = reverted \cup {x})
  BY DEF Mine, WalletInv, ProxyTx
<1>2. PICK j : /\ job' = IF Awaits(x) THEN [job EXCEPT ![x.user][x.tab] = j] ELSE job
               /\ Awaits(x) => JobFits(j, walletOf[x.user])
  <2>1. CASE ~Awaits(x)
    BY <2>1 DEF Mine
  <2>2. CASE Awaits(x)
    <3>1. JobFits(job[x.user][x.tab], walletOf[x.user]) /\ IsBusy(job[x.user][x.tab])
      BY <1>1, <2>2 DEF Awaits, IsBusy, WalletInv
    <3>2. JobFits(Done(job[x.user][x.tab]), walletOf[x.user]) /\ JobFits(NoRequest, walletOf[x.user])
      BY <3>1, DoneFits, NoRequestFits
    <3>3. job' = [job EXCEPT ![x.user][x.tab] =
                    IF Allowed(x) THEN Done(job[x.user][x.tab]) ELSE NoRequest]
      BY <1>1, <2>2 DEF Mine, WalletInv
    <3> QED BY <2>2, <3>2, <3>3
  <2> QED BY <2>1, <2>2
<1>3. /\ job' \in [Users -> [Tabs -> Job]]
      /\ \A v \in Users, s \in Tabs :
           job'[v][s] = IF v = x.user /\ s = x.tab /\ Awaits(x) THEN j ELSE job[v][s]
  BY <1>1, <1>2 DEF WalletInv, JobFits
<1>4. WalletInv'
  <2>1. \A v \in Users, s \in Tabs : JobFits(job'[v][s], walletOf[v])
    BY <1>2, <1>3 DEF WalletInv
  <2>2. \A y \in inPool' \cup reverted' : TxFits(y)'
    BY <1>1 DEF WalletInv, TxFits
  <2>3. \A a \in Things : owner[a] # {} => owner'[a] # {}
    BY <1>1, OwnersMove DEF TxFits
  <2>4. ASSUME NEW a \in bound' PROVE a \in Things /\ owner'[a] # {}
    <3>1. CASE a \in bound
      BY <2>3, <3>1 DEF WalletInv
    <3>2. CASE a \notin bound
      <4>1. Allowed(x) /\ x.what \in {"register", "bind-air", "bind"} /\ a = x.thing
        BY <3>2, <2>4 DEF Mine
      <4>2. owner' = [owner EXCEPT ![x.thing] = x.wallet]
        BY <4>1 DEF Mine
      <4> QED BY <1>1, <4>1, <4>2 DEF WalletInv, TxFits
    <3> QED BY <3>1, <3>2
  <2>5. ASSUME NEW u \in Users PROVE owner'[u] \in {{}, walletOf[u]}
    <3>1. owner[u] \in {{}, walletOf[u]} /\ u \in Things
      BY ThingsApart DEF WalletInv, CustodyStays
    <3>2. CASE owner'[u] = owner[u]
      BY <3>1, <3>2
    <3>3. CASE /\ u = x.thing
               /\ x.what \in {"register", "bind-air", "bind", "claim", "bond", "give"}
               /\ x.what # "give" => owner'[u] = x.wallet
      <4>1. x.what \in {"register", "bind-air"}
        BY <1>1, <3>3, ThingsApart DEF TxFits, Fits
      <4> QED BY <1>1, <3>3, <4>1 DEF TxFits
    <3> QED BY <3>1, <3>2, <3>3, OwnersMove
  <2>6. inPool' \subseteq ProxyTx /\ reverted' \subseteq ProxyTx
    BY <1>1 DEF WalletInv
  <2>7. /\ walletOf' \in [Users -> SUBSET Wallets]
        /\ \A u \in Users : walletOf'[u] = {} \/ \E w \in Wallets : walletOf'[u] = {w}
        /\ \A u, v \in Users : walletOf'[u] # {} /\ walletOf'[u] = walletOf'[v] => u = v
    BY <1>1 DEF WalletInv
  <2>8. owner' \in [Things -> SUBSET (Wallets \cup {Away})]
    BY OwnersMove
  <2>9. CustodyStays'
    BY <1>1, <2>5 DEF CustodyStays
  <2>10. \A u \in Users, t \in Tabs : JobFits(job'[u][t], walletOf'[u])
    BY <1>1, <2>1
  <2> QED BY <1>3, <2>2, <2>4, <2>6, <2>7, <2>8, <2>9, <2>10 DEF WalletInv
<1>5. ASSUME NEW v \in Users \ abandoned'
      PROVE  /\ \A r, s \in Tabs : IsBusy(job'[v][r]) /\ IsBusy(job'[v][s]) => r = s
             /\ \A y \in inPool' : y.user = v => Awaits(y)' /\ (Allowed(y)' \/ IsTaken(y)')
  <2>1. v \in Users \ abandoned
    BY <1>1, <1>5
  <2>2. \A s \in Tabs : IsBusy(job'[v][s]) => IsBusy(job[v][s])
    BY <1>3 DEF Awaits, IsBusy
  <2>3. ASSUME NEW y \in inPool', y.user = v
        PROVE  Awaits(y)' /\ (Allowed(y)' \/ IsTaken(y)')
    <3>1. y \in inPool /\ y # x /\ y.user \in Users /\ y.tab \in Tabs
      BY <1>1 DEF WalletInv, ProxyTx
    <3>2. Awaits(y) /\ (Allowed(y) \/ IsTaken(y))
      BY <2>1, <2>3, <3>1 DEF OneAtATime
    <3>3. y.user # x.user
      <4> SUFFICES ASSUME y.user = x.user PROVE FALSE
        OBVIOUS
      <4>1. Awaits(x)
        BY <2>1, <2>3 DEF OneAtATime
      <4>2. y.tab = x.tab
        BY <1>1, <2>1, <2>3, <3>1, <3>2, <4>1 DEF OneAtATime, Awaits, IsBusy
      <4> QED BY <3>1, <3>2, <4>1, <4>2 DEF Awaits
    <3>4. job'[y.user][y.tab] = job[y.user][y.tab]
      BY <1>3, <3>1, <3>3
    <3>5. Awaits(y)'
      BY <1>1, <3>2, <3>4 DEF Awaits, Call
    <3>6. Allowed(y)' \/ IsTaken(y)'
      BY <3>1, <3>2, <3>3, TakenStays, AllowedOrTaken
    <3> QED BY <3>5, <3>6
  <2>4. \A r, s \in Tabs : IsBusy(job'[v][r]) /\ IsBusy(job'[v][s]) => r = s
    BY <2>1, <2>2 DEF OneAtATime
  <2> QED BY <2>3, <2>4
<1>6. ASSUME NEW y \in reverted' PROVE y.user \in abandoned' \/ IsTaken(y)'
  <2>1. CASE y \in reverted
    <3>1. y.user \in abandoned \/ IsTaken(y)
      BY <2>1 DEF NobodyPaysTwice
    <3> QED BY <1>1, <2>1, <3>1, TakenStays
  <2>2. CASE y = x /\ ~Allowed(x)
    <3>1. x.user \in abandoned \/ IsTaken(x)
      BY <1>1, <2>2 DEF OneAtATime
    <3> QED BY <1>1, <2>2, <3>1, TakenStays
  <2> QED BY <1>1, <1>6, <2>1, <2>2
<1>7. NobodyPaysTwice'
  BY <1>6 DEF NobodyPaysTwice
<1> QED BY <1>4, <1>5, <1>7 DEF OneAtATime

LEMMA ProxyStepKeeps == ProxyInv /\ [ProxyNext]_proxyVars => ProxyInv'
<1> SUFFICES ASSUME ProxyInv, [ProxyNext]_proxyVars PROVE ProxyInv'
  OBVIOUS
<1>1. ASSUME NEW u \in Users, NEW t \in Tabs, Ask(u, t) PROVE ProxyInv'
  <2>1. PICK a \in Wishes : Goes(u, t, [at |-> "queued", op |-> a[1], thing |-> a[2], plan |-> <<>>])
    BY <1>1 DEF Ask
  <2>2. a[1] \in Ops /\ a[2] \in Things /\ <<a[1], a[2]>> \in Wishes
    BY ThingsApart DEF Wishes, Ops
  <2>3. JobFits([at |-> "queued", op |-> a[1], thing |-> a[2], plan |-> <<>>], walletOf[u])
    BY <2>2 DEF JobFits, IsBusy, Job
  <2> QED BY <1>1, <2>1, <2>3, ARequestMoves DEF Ask, IsBusy
<1>2. ASSUME NEW u \in Users, NEW t \in Tabs, Look(u, t) PROVE ProxyInv'
  BY <1>2, LookKeeps
<1>3. ASSUME NEW u \in Users, NEW t \in Tabs, Fails(u, t) \/ GivesUp(u, t) PROVE ProxyInv'
  BY <1>3, NoRequestFits, ARequestMoves DEF Fails, GivesUp
<1>4. ASSUME NEW u \in Users, NEW t \in Tabs, Send(u, t) PROVE ProxyInv'
  <2>1. /\ job[u][t].at = "ready" /\ UNCHANGED <<owner, bound, built, walletOf, reverted>>
        /\ JobFits(job[u][t], walletOf[u]) /\ IsBusy(job[u][t])
    BY <1>4 DEF Send, ProxyInv, WalletInv, IsBusy
  <2>2. CASE /\ Goes(u, t, Done(job[u][t])) \/ Goes(u, t, NoRequest)
             /\ UNCHANGED <<inPool, abandoned>>
    BY <2>1, <2>2, DoneFits, NoRequestFits, ARequestMoves
  <2>3. CASE /\ Allowed(Call(u, t)) /\ inPool' = inPool \cup {Call(u, t)}
             /\ \/ Goes(u, t, At(job[u][t], "sent")) /\ UNCHANGED abandoned
                \/ Goes(u, t, NoRequest) /\ abandoned' = abandoned \cup {u}
    BY <2>1, <2>3, ARequestSends
  <2> QED BY <1>4, <2>2, <2>3 DEF Send
<1>5. ASSUME NEW x \in inPool, Mine(x) PROVE ProxyInv'
  BY <1>5, MineKeeps
<1>6. CASE UNCHANGED proxyVars
  <2>1. UNCHANGED <<owner, bound, built, inPool, walletOf, job, abandoned, reverted>>
    BY <1>6 DEF proxyVars
  <2>2. WalletInv'
    BY <2>1 DEF ProxyInv, WalletInv, JobFits, TxFits, CustodyStays
  <2>3. OneAtATime'
    <3>1. \A x : Awaits(x)' = Awaits(x) /\ Allowed(x)' = Allowed(x) /\ IsTaken(x)' = IsTaken(x)
      BY <2>1 DEF Awaits, Call, Allowed, IsTaken
    <3> QED BY <2>1, <3>1 DEF ProxyInv, OneAtATime
  <2>4. NobodyPaysTwice'
    BY <2>1 DEF ProxyInv, NobodyPaysTwice, IsTaken
  <2> QED BY <2>2, <2>3, <2>4 DEF ProxyInv
<1> QED BY <1>1, <1>2, <1>3, <1>4, <1>5, <1>6 DEF ProxyNext

(* proxy.js: for any users and pages at once, with transactions left unanswered
   and accounts after the same keys, titles and node, nobody pays for a call
   that reverts unless one of these is the cause. *)
THEOREM NobodyPaysForARevert == ProxySpec => []NobodyPaysTwice
<1>1. ProxyInv => NobodyPaysTwice
  BY DEF ProxyInv
<1> QED BY <1>1, ProxyInitKeeps, ProxyStepKeeps, PTL DEF ProxySpec

(* proxy.js: whichever requests run beside each other and whichever transactions
   are given up for lost, the profile of a user is owned by the key this node
   keeps for it. *)
THEOREM CustodyIsKept == ProxySpec => []CustodyStays
<1>1. ProxyInv => CustodyStays
  BY DEF ProxyInv, WalletInv
<1> QED BY <1>1, ProxyInitKeeps, ProxyStepKeeps, PTL DEF ProxySpec

-----------------------------------------------------------------------------
(* The publisher services *)

SvcType == [state : {"off", "starting", "up", "stopping", "restarting"},
            child : SUBSET Procs, timers : Int, stopped : BOOLEAN]
OneProc == [os : {"none", "booting", "listening", "dead"}, wait : {"none", "waiting", "confirming"},
            killed : BOOLEAN, again : Int, names : Int]

LEMMA AProcStaysAProc ==
  ASSUME NEW x \in OneProc
  PROVE  /\ [x EXCEPT !.killed = TRUE] \in OneProc
         /\ [x EXCEPT !.again = @ + 1] \in OneProc
         /\ [x EXCEPT !.os = "booting"] \in OneProc
         /\ \A w \in {"none", "waiting", "confirming"} : [x EXCEPT !.wait = w] \in OneProc
         /\ \A a \in Int : [x EXCEPT !.names = a] \in OneProc
         /\ x.again \in Int /\ [x EXCEPT !.killed = TRUE].again = x.again
<1>1. x.again \in Int /\ x.again + 1 \in Int /\ [x EXCEPT !.killed = TRUE].again = x.again
  BY DEF OneProc
<1>2. [x EXCEPT !.killed = TRUE] \in OneProc /\ [x EXCEPT !.os = "booting"] \in OneProc
  BY DEF OneProc
<1>3. \A a \in Int : [x EXCEPT !.names = a] \in OneProc
  BY DEF OneProc
<1>4. \A a \in Int : [x EXCEPT !.again = a] \in OneProc
  BY DEF OneProc
<1>5. ASSUME NEW w \in {"none", "waiting", "confirming"} PROVE [x EXCEPT !.wait = w] \in OneProc
  BY DEF OneProc
<1> QED BY <1>1, <1>2, <1>3, <1>4, <1>5

LEMMA NotLaunchedIsAProc == NotLaunched \in OneProc
  BY DEF OneProc, NotLaunched

ServiceInv == svc \in SvcType /\ proc \in [Procs -> OneProc] /\ address \in Int

StartsNothing == svc.stopped => \A p \in Procs : proc[p].os = "none" => proc'[p].os = "none"

LEMMA LaunchedRightly ==
  ASSUME ServiceInv, NEW n, NEW s \in SvcType, NEW P \in [Procs -> OneProc],
         Launch(n, s, P), UNCHANGED address, s.stopped = svc.stopped,
         \A p \in Procs : proc[p].os = "none" => P[p].os = "none"
  PROVE  ServiceInv' /\ StartsNothing
<1>1. CASE svc' = s /\ proc' = P
  BY <1>1 DEF ServiceInv, StartsNothing
<1>2. ASSUME ~s.stopped, NEW new \in SUBSET Procs, NEW p \in new,
             svc' = [s EXCEPT !.state = "starting", !.child = {p}],
             proc' = [q \in Procs |->
                  IF q \in new THEN [NotLaunched EXCEPT !.os = "booting", !.wait = "waiting",
                                                        !.names = address]
                  ELSE P[q]]
      PROVE  ServiceInv' /\ StartsNothing
  <2>1. svc' = [[s EXCEPT !.state = "starting"] EXCEPT !.child = {p}]
    BY <1>2
  <2>2. svc' \in SvcType
    BY <2>1 DEF SvcType
  <2> DEFINE fresh == [NotLaunched EXCEPT !.os = "booting", !.wait = "waiting", !.names = address]
  <2>3. fresh = [[[NotLaunched EXCEPT !.os = "booting"] EXCEPT !.wait = "waiting"]
                   EXCEPT !.names = address]
    OBVIOUS
  <2>4. fresh \in OneProc
    <3> DEFINE x == [NotLaunched EXCEPT !.os = "booting"]
               y == [x EXCEPT !.wait = "waiting"]
    <3>1. x \in OneProc
      BY NotLaunchedIsAProc, AProcStaysAProc
    <3>2. y \in OneProc
      <4> HIDE DEF x
      <4> QED BY <3>1, AProcStaysAProc
    <3>3. [y EXCEPT !.names = address] \in OneProc
      <4> HIDE DEF y
      <4> QED BY <3>2, AProcStaysAProc DEF ServiceInv
    <3> QED BY <2>3, <3>3
  <2>5. proc' \in [Procs -> OneProc]
    <3> HIDE DEF fresh
    <3>1. proc' = [q \in Procs |-> IF q \in new THEN fresh ELSE P[q]]
      BY <1>2 DEF fresh
    <3> QED BY <2>4, <3>1
  <2> QED BY <1>2, <2>2, <2>5 DEF ServiceInv, StartsNothing
<1> QED BY <1>1, <1>2 DEF Launch, MayLaunch

LEMMA ServiceStepKeeps == ServiceInv /\ [ServicesNext]_servicesVars => ServiceInv' /\ StartsNothing
<1> SUFFICES ASSUME ServiceInv, [ServicesNext]_servicesVars PROVE ServiceInv' /\ StartsNothing
  OBVIOUS
<1>1. CASE Relaunch
  <2> DEFINE s == [svc EXCEPT !.timers = @ - 1]
  <2>1. s \in SvcType /\ s.stopped = svc.stopped
    BY DEF ServiceInv, SvcType
  <2>2. Launch(1, s, proc) /\ UNCHANGED address
    BY <1>1 DEF Relaunch
  <2> HIDE DEF s
  <2> QED BY <2>1, <2>2, LaunchedRightly DEF ServiceInv
<1>2. ASSUME NEW p \in Procs, Exited(p) PROVE ServiceInv' /\ StartsNothing
  <2> DEFINE wanted == svc.stopped \/ svc.state = "stopping"
             s == [svc EXCEPT !.child = {}, !.state = IF wanted THEN "off" ELSE "restarting",
                              !.timers = IF wanted THEN @ ELSE @ + 1]
             gone == [NotLaunched EXCEPT !.wait = proc[p].wait]
             P == [proc EXCEPT ![p] = gone]
  <2>1. Launch(proc[p].again, s, P) /\ UNCHANGED address
    BY <1>2 DEF Exited
  <2>2. s \in SvcType /\ s.stopped = svc.stopped
    <3> DEFINE state == IF wanted THEN "off" ELSE "restarting"
               timers == IF wanted THEN svc.timers ELSE svc.timers + 1
    <3>1. state \in {"off", "restarting"} /\ timers \in Int
      BY DEF ServiceInv, SvcType
    <3>2. s = [[[svc EXCEPT !.child = {}] EXCEPT !.state = state] EXCEPT !.timers = timers]
      OBVIOUS
    <3> HIDE DEF s, state, timers
    <3> QED BY <3>1, <3>2 DEF ServiceInv, SvcType
  <2>3. gone \in OneProc /\ gone.os = "none"
    <3>1. proc[p].wait \in {"none", "waiting", "confirming"}
      BY DEF ServiceInv, OneProc
    <3>2. gone \in OneProc
      BY <3>1, NotLaunchedIsAProc, AProcStaysAProc
    <3>3. gone.os = NotLaunched.os /\ NotLaunched.os = "none"
      BY DEF NotLaunched
    <3> QED BY <3>2, <3>3
  <2>4. P \in [Procs -> OneProc] /\ \A q \in Procs : proc[q].os = "none" => P[q].os = "none"
    <3> HIDE DEF gone
    <3> QED BY <2>3 DEF ServiceInv
  <2> HIDE DEF s, P
  <2> QED BY <2>1, <2>2, <2>4, LaunchedRightly
<1>3. ASSUME NEW p \in Procs, Waited(p) \/ Confirmed(p) \/ Bind(p) \/ End(p)
      PROVE  ServiceInv' /\ StartsNothing
  BY <1>3 DEF Waited, Confirmed, Bind, End, ServiceInv, SvcType, OneProc, StartsNothing
<1>4. CASE Watch
  <2>1. CASE UNCHANGED <<svc, proc>>
    BY <1>4, <2>1 DEF Watch, ServiceInv, StartsNothing
  <2>2. CASE /\ svc' = [svc EXCEPT !.state = "stopping"]
             /\ proc' = [p \in Procs |-> IF p \in svc.child
                                         THEN [proc[p] EXCEPT !.killed = TRUE, !.again = @ + 1]
                                         ELSE proc[p]]
    <3>1. ~svc.stopped /\ UNCHANGED address
      BY <1>4 DEF Watch
    <3>2. svc' \in SvcType
      BY <2>2 DEF ServiceInv, SvcType
    <3>3. ASSUME NEW p \in Procs PROVE proc'[p] \in OneProc
      <4>1. proc'[p] = proc[p]
            \/ proc'[p] = [[proc[p] EXCEPT !.killed = TRUE] EXCEPT !.again = proc[p].again + 1]
        BY <2>2
      <4>2. proc[p] \in OneProc
        BY DEF ServiceInv
      <4> DEFINE x == [proc[p] EXCEPT !.killed = TRUE]
      <4>3. x \in OneProc /\ x.again = proc[p].again
        BY <4>2, AProcStaysAProc
      <4>4. [x EXCEPT !.again = x.again + 1] \in OneProc
        <5> HIDE DEF x
        <5> QED BY <4>3, AProcStaysAProc
      <4> QED BY <4>1, <4>2, <4>3, <4>4
    <3>4. proc' \in [Procs -> OneProc]
      BY <2>2, <3>3
    <3> QED BY <3>1, <3>2, <3>4 DEF ServiceInv, StartsNothing
  <2> QED BY <1>4, <2>1, <2>2 DEF Watch
<1>5. CASE StopServices
  <2>1. svc' \in SvcType
    <3>1. svc' = [svc EXCEPT !.stopped = TRUE]
          \/ svc' = [[svc EXCEPT !.stopped = TRUE] EXCEPT !.state = "stopping"]
      BY <1>5 DEF StopServices
    <3> QED BY <3>1 DEF ServiceInv, SvcType
  <2>2. proc' \in [Procs -> OneProc]
    <3>1. ASSUME NEW p \in Procs
          PROVE  proc[p] \in OneProc /\ [proc[p] EXCEPT !.killed = TRUE] \in OneProc
      BY AProcStaysAProc DEF ServiceInv
    <3> QED BY <1>5, <3>1 DEF StopServices, ServiceInv
  <2> QED BY <1>5, <2>1, <2>2 DEF StopServices, ServiceInv, StartsNothing
<1>6. CASE MoveAddress \/ UNCHANGED servicesVars
  BY <1>6, ServicesAssumption DEF MoveAddress, servicesVars, ServiceInv, StartsNothing
<1> QED BY <1>1, <1>2, <1>3, <1>4, <1>5, <1>6 DEF ServicesNext

(* Backoffs, restarts and exits overlap freely: for any number of processes and
   of moves of the address, none starts once the node stops its services. *)
THEOREM StoppedStaysStopped == ServicesSpec => NothingAfterStop
<1>1. ServicesInit => ServiceInv
  BY DEF ServicesInit, ServiceInv, SvcType, OneProc, NotLaunched
<1> QED BY <1>1, ServiceStepKeeps, PTL DEF ServicesSpec, NothingAfterStop, StartsNothing


-----------------------------------------------------------------------------
(* The runner of verifiers *)

(* What the disk holds of today counts as much as what is in memory, and neither
   is of a day to come. *)
DayType == [day : Nat, units : Nat]
BudgetInv ==
    /\ today \in Nat /\ charged \in Nat
    /\ budget \in DayType /\ budget.day <= today
    /\ saved \in DayType /\ saved.day <= today
    /\ Used.units = charged /\ Loaded.units = charged

LEMMA BudgetInitKeeps == VerifierInit => BudgetInv
  BY DEF VerifierInit, BudgetInv, DayType, Unused, Used, Loaded

LEMMA BudgetStepKeeps ==
  ASSUME ~DiskMayFail, BudgetInv, [VerifierNext]_verifierVars
  PROVE  BudgetInv'
<1> USE DEF BudgetInv
<1>1. Used \in DayType /\ Used.day = today /\ Loaded \in DayType /\ Loaded.day = today
  BY DEF Used, Loaded, Unused, DayType
<1>2. ASSUME UNCHANGED <<today, saved, charged>>, budget' = budget \/ budget' = Used \/ budget' = Loaded
      PROVE  BudgetInv'
  BY <1>1, <1>2 DEF Used, Loaded, Unused, DayType
<1>3. ASSUME NEW u \in Nat, Charge(u), charged' = charged + u, today' = today
      PROVE  BudgetInv'
  <2> DEFINE b == [Used EXCEPT !.units = @ + u]
  <2>1. budget' = b /\ saved' = b
    BY <1>3 DEF Charge
  <2>2. b \in DayType /\ b.day = today /\ b.units = charged + u
    BY <1>1 DEF DayType
  <2>3. Used' = b /\ Loaded' = b
    BY <1>3, <2>1, <2>2 DEF Used, Loaded
  <2> QED BY <1>3, <2>1, <2>2, <2>3
<1>4. CASE UNCHANGED verifierVars
  BY <1>2, <1>4 DEF verifierVars
<1>5. ASSUME NEW c \in Checks,
             \/ BeginCheck(c) \/ Ensure(c) \/ RegistryAnswers(c) \/ Install(c) \/ FindBroken(c)
             \/ FetchFails(c) \/ AskToRun(c) \/ Spawn(c)
      PROVE  BudgetInv'
  <2>1. UNCHANGED <<today, saved, charged>> /\ (budget' = budget \/ budget' = Used)
    BY <1>5 DEF BeginCheck, Ensure, RegistryAnswers, Install, FindBroken, FetchFails, AskToRun, Spawn
  <2> QED BY <1>2, <2>1
<1>6. ASSUME NEW c \in Checks, EndRun(c)
      PROVE  BudgetInv'
  <2>1. PICK u \in 0..Deadline : Charge(u) /\ charged' = charged + u
    BY <1>6 DEF EndRun
  <2>2. u \in Nat /\ today' = today
    BY <1>6, VerifierAssumption DEF EndRun
  <2> QED BY <1>3, <2>1, <2>2
<1>7. ASSUME NEW b \in VerifierBundles, MinutePasses(b) \/ RegisterOrRevoke(b)
      PROVE  BudgetInv'
  BY <1>2, <1>7 DEF MinutePasses, RegisterOrRevoke
<1>8. CASE Midnight
  <2>1. today' = today + 1 /\ charged' = 0 /\ budget' = budget /\ saved' = saved
    BY <1>8 DEF Midnight
  <2>2. budget.day # today' /\ saved.day # today'
    BY <2>1 DEF DayType
  <2>3. Used' = Unused(today') /\ Loaded' = Unused(today')
    BY <2>1, <2>2 DEF Used, Loaded
  <2> QED BY <2>1, <2>3 DEF DayType, Unused
<1>9. CASE RestartWitness
  <2>1. UNCHANGED <<today, saved, charged>> /\ budget' = Loaded
    BY <1>9 DEF RestartWitness
  <2> QED BY <1>2, <2>1
<1> QED BY <1>4, <1>5, <1>6, <1>7, <1>8, <1>9 DEF VerifierNext

(* What counts against the day's budget is what its runs took, across any number
   of restarts and midnights (node/verifier.js spend, used and the read of
   budget.json), where the disk takes what is written. *)
THEOREM BudgetSurvives == ASSUME ~DiskMayFail PROVE VerifierSpec => []TheDaysBudgetStands
<1>1. BudgetInv /\ [VerifierNext]_verifierVars => BudgetInv'
  BY BudgetStepKeeps
<1>2. BudgetInv => TheDaysBudgetStands
  BY DEF BudgetInv, TheDaysBudgetStands
<1> QED BY <1>1, <1>2, BudgetInitKeeps, PTL DEF VerifierSpec

(* One run at a time: whoever runs is at the head of the line. *)
RunInv ==
    /\ line \in Seq(Checks) /\ DOMAIN check = Checks
    /\ \A c \in Checks : check[c] = "running" => line # <<>> /\ Head(line) = c

LEMMA AtTheEnd ==
  ASSUME NEW S, NEW s \in Seq(S), NEW x \in S
  PROVE  /\ Append(s, x) \in Seq(S) /\ Append(s, x) # <<>>
         /\ s # <<>> => Head(Append(s, x)) = Head(s)
<1>1. Append(s, x) \in Seq(S) /\ Len(Append(s, x)) = Len(s) + 1 /\ Len(s) \in Nat
  OBVIOUS
<1>2. Append(s, x) # <<>>
  BY <1>1
<1>3. ASSUME s # <<>> PROVE Head(Append(s, x)) = Head(s)
  <2>1. Len(s) > 0
    BY <1>3
  <2>2. Append(s, x)[1] = s[1]
    BY <2>1
  <2> QED BY <1>2, <1>3, <2>2
<1> QED BY <1>1, <1>2, <1>3

LEMMA RunStepKeeps == RunInv /\ [VerifierNext]_verifierVars => RunInv'
<1> SUFFICES ASSUME RunInv, [VerifierNext]_verifierVars PROVE RunInv'
  OBVIOUS
<1> USE DEF RunInv
<1>1. ASSUME UNCHANGED line, NEW c \in Checks, NEW at, at # "running", To(c, at) PROVE RunInv'
  BY <1>1 DEF To
<1>2. ASSUME UNCHANGED <<line, check>> PROVE RunInv'
  BY <1>2
<1>3. ASSUME NEW c \in Checks,
             BeginCheck(c) \/ Ensure(c) \/ RegistryAnswers(c) \/ Install(c) \/ FindBroken(c)
               \/ FetchFails(c)
      PROVE  RunInv'
  <2>1. UNCHANGED line /\ \E at : at # "running" /\ To(c, at)
    BY <1>3 DEF BeginCheck, Ensure, RegistryAnswers, Install, FindBroken, FetchFails
  <2> QED BY <1>1, <2>1
<1>4. ASSUME NEW c \in Checks, AskToRun(c) PROVE RunInv'
  <2>1. CASE To(c, "in line") /\ line' = Append(line, c)
    <3>1. line' \in Seq(Checks) /\ line' # <<>> /\ (line # <<>> => Head(line') = Head(line))
      BY <2>1, AtTheEnd
    <3>5. \A d \in Checks : check'[d] = "running" => check[d] = "running"
      BY <2>1 DEF To
    <3>6. DOMAIN check' = Checks
      BY <2>1 DEF To
    <3> QED BY <3>1, <3>5, <3>6
  <2>2. CASE To(c, "skipped") /\ UNCHANGED line
    BY <1>1, <2>2
  <2> QED BY <1>4, <2>1, <2>2 DEF AskToRun
<1>5. ASSUME NEW c \in Checks, Spawn(c) PROVE RunInv'
  BY <1>5 DEF Spawn, To
<1>6. ASSUME NEW c \in Checks, EndRun(c) PROVE RunInv'
  <2>1. \A d \in Checks : check[d] = "running" => d = c
    BY <1>6 DEF EndRun
  <2>2. line # <<>> /\ line' = Tail(line)
    BY <1>6 DEF EndRun
  <2>3. line' \in Seq(Checks)
    BY <2>2
  <2>4. \A d \in Checks : check'[d] # "running"
    BY <1>6, <2>1 DEF EndRun, To
  <2>5. DOMAIN check' = Checks
    BY <1>6 DEF EndRun, To
  <2> QED BY <2>3, <2>4, <2>5
<1>7. CASE RestartWitness
  <2>1. line' = <<>> /\ DOMAIN check' = Checks /\ \A c \in Checks : check'[c] # "running"
    BY <1>7 DEF RestartWitness, Unfinished
  <2> QED BY <2>1
<1>8. CASE Midnight \/ UNCHANGED verifierVars
  BY <1>2, <1>8 DEF Midnight, verifierVars
<1>9. ASSUME NEW b \in VerifierBundles, MinutePasses(b) \/ RegisterOrRevoke(b) PROVE RunInv'
  BY <1>2, <1>9 DEF MinutePasses, RegisterOrRevoke
<1> QED BY <1>3, <1>4, <1>5, <1>6, <1>7, <1>8, <1>9 DEF VerifierNext

(* verifier.js: however many results are checked at once, their verifiers run
   one after the other. *)
THEOREM RunsGoOneByOne == VerifierSpec => []OneRunAtATime
<1>1. VerifierInit => RunInv
  BY DEF VerifierInit, RunInv
<1>2. RunInv => OneRunAtATime
  BY DEF RunInv, OneRunAtATime
<1> QED BY <1>1, <1>2, RunStepKeeps, PTL DEF VerifierSpec

-----------------------------------------------------------------------------
(* The updater *)

(* The disk holds releases' items, and a call past the gate has a release. *)
Disk ==
    /\ install \in [code: Copy, set: Nat]
    /\ previous \in [code: Copy, set: Nat, items: SUBSET Items, whole: BOOLEAN]
    /\ before \in Copy

CallsOk ==
    /\ {latest, opening} \subseteq Releases \cup {Nothing} /\ published \in Releases
    /\ apply \in [Callers -> [at: {"idle", "gate", "download"}, file: Releases \cup {Nothing}]]
    /\ \A c \in Callers : apply[c].at # "idle" => apply[c].file \in Releases

(* Whatever a cut left, a rollback would bring back what the last copying found. *)
BringsBack ==
    previous.whole /\ previous.code[1] # Nothing => RolledBack(LastRun) = before

(* Until the process first ends in a copying, the install is a whole release too. *)
UpdateInv ==
    /\ Disk /\ CallsOk /\ cuts \in Nat
    /\ BringsBack
    /\ cuts = 0 => Sound

LEMMA LastIsLast ==
  /\ LastRun \in Items /\ \A i \in Items : i <= LastRun
  /\ 1 \in Items /\ Items \subseteq Nat \ {0}
  /\ Releases \subseteq Nat \ {0} /\ Nothing \notin Releases /\ Fragment \notin Releases
<1>1. Cardinality(Items) \in Nat /\ Items = 1..Cardinality(Items)
  BY FS_CardinalityType, UpdaterAssumption
<1>2. 1 \in Items
  BY UpdaterAssumption
<1>3. Cardinality(Items) \in Items /\ \A i \in Items : i <= Cardinality(Items)
  BY <1>1, <1>2
<1>4. LastRun \in Items /\ \A i \in Items : i <= LastRun
  BY <1>3, Zenon DEF LastRun
<1>5. Releases \subseteq Nat \ {0} /\ Nothing \notin Releases /\ Fragment \notin Releases
  BY UpdaterAssumption DEF Nothing, Fragment
<1>6. Items \subseteq Nat \ {0}
  BY <1>1
<1> QED BY <1>2, <1>4, <1>5, <1>6

LEMMA UpdaterStarts == UpdaterInit => UpdateInv
<1> SUFFICES ASSUME UpdaterInit PROVE UpdateInv
  OBVIOUS
<1>1. Disk
  BY LastIsLast, UpdaterAssumption DEF UpdaterInit, Disk, Copy, CodeOf
<1>2. CallsOk
  BY LastIsLast, UpdaterAssumption DEF UpdaterInit, CallsOk, Idle
<1>3. previous.code[1] = Nothing
  BY LastIsLast DEF UpdaterInit
<1>4. Whole(install.code)
  BY LastIsLast, UpdaterAssumption DEF UpdaterInit, Whole, CodeOf
<1> QED BY <1>1, <1>2, <1>3, <1>4 DEF UpdateInv, BringsBack, Sound, UpdaterInit

(* A rollback restores what the copying found. *)
LEMMA SavedBringsBack ==
  ASSUME UpdateInv, NEW v \in Releases, NEW k \in {0} \cup Items,
         previous' = Saved(v, k),
         NEW code \in Torn(k, Replaced(v, k), Ships[v]), install'.code = code,
         before' = install.code
  PROVE  /\ RolledBack(LastRun)' = install.code
         /\ previous'.code[1] = install.code[1]
         /\ code \in Copy /\ previous' \in [code: Copy, set: Nat, items: SUBSET Items, whole: BOOLEAN]
<1>1. CodeItems \subseteq Items /\ Ships[v] \subseteq Items /\ 1 \in CodeItems
  BY UpdaterAssumption
<1>2. install.code \in Copy /\ install.set \in Nat
  BY DEF UpdateInv, Disk
<1>3. /\ previous'.items = Listed(v) /\ previous'.set = install.set
      /\ previous'.code = [i \in Items |-> IF i \in Listed(v) THEN install.code[i] ELSE Nothing]
  BY <1>1 DEF Saved, SavedItems, Only, Listed
<1>4. code \in Copy /\ \A i \in Items : i \notin Ships[v] => code[i] = install.code[i]
  BY <1>2, LastIsLast DEF Torn, Replaced, Copy
<1>5. ASSUME NEW i \in Items
      PROVE  RolledBack(LastRun)'[i] = install.code[i]
  <2>1. i <= LastRun
    BY LastIsLast
  <2>2. CASE i \in Listed(v)
    BY <1>2, <1>3, <2>1, <2>2 DEF RolledBack, PutBack, Removes, Copy
  <2>3. CASE i \notin Listed(v)
    <3>1. i \notin PutBack' /\ code[i] = install.code[i]
      BY <1>3, <1>4, <2>3 DEF PutBack, Listed
    <3> QED BY <3>1 DEF RolledBack
  <2> QED BY <2>2, <2>3
<1>6. RolledBack(LastRun)' = install.code
  BY <1>2, <1>5 DEF RolledBack, Copy
<1>7. previous'.code[1] = install.code[1]
  BY <1>1, <1>3, LastIsLast DEF Listed
<1>8. previous' \in [code: Copy, set: Nat, items: SUBSET Items, whole: BOOLEAN]
  BY <1>1, <1>2, <1>3 DEF Saved, Copy, Listed, Only, SavedItems
<1> QED BY <1>4, <1>6, <1>7, <1>8


(* The same while a rollback puts it back, at whatever item it ends. *)
LEMMA RollbackBringsBack ==
  ASSUME UpdateInv, UNCHANGED previous, NEW k \in {0} \cup Items,
         NEW code \in Torn(k, RolledBack(k), {i \in PutBack : previous.code[i] # Nothing}),
         install'.code = code
  PROVE  RolledBack(LastRun)' = RolledBack(LastRun) /\ code \in Copy
<1>1. install.code \in Copy /\ previous.code \in Copy
  BY DEF UpdateInv, Disk
<1>2. RolledBack(k) \in Copy
  BY <1>1 DEF RolledBack, Copy
<1>3. code \in Copy
  BY <1>2 DEF Torn, Copy
<1>4. ASSUME NEW i \in Items
      PROVE  RolledBack(LastRun)'[i] = RolledBack(LastRun)[i]
  <2>1. i <= LastRun
    BY LastIsLast
  <2>2. CASE i \in PutBack /\ (previous.code[i] # Nothing \/ Removes(i))
    BY <2>1, <2>2 DEF RolledBack, PutBack, Removes
  <2>3. CASE i \notin PutBack \/ (previous.code[i] = Nothing /\ ~Removes(i))
    <3>1. code[i] = install.code[i]
      BY <1>1, <2>3 DEF Torn, RolledBack, Removes, Copy
    <3> QED BY <2>1, <2>3, <3>1 DEF RolledBack, PutBack, Removes
  <2> QED BY <2>2, <2>3
<1> QED BY <1>3, <1>4 DEF RolledBack

LEMMA CallsKeep == UpdateInv /\ [UpdaterNext]_updaterVars => CallsOk' /\ cuts' \in Nat
<1> SUFFICES ASSUME UpdateInv, [UpdaterNext]_updaterVars PROVE CallsOk' /\ cuts' \in Nat
  OBVIOUS
<1> USE LastIsLast DEF UpdateInv, CallsOk, Idle
<1>1. CASE Fetch \/ Opened \/ Publish
  BY <1>1 DEF Fetch, Opened, Publish
<1>2. ASSUME NEW v \in Releases, RegistryMoves(v) PROVE CallsOk' /\ cuts' \in Nat
  BY <1>2 DEF RegistryMoves
<1>3. ASSUME NEW c \in Callers, ApplyAsked(c) PROVE CallsOk' /\ cuts' \in Nat
  BY <1>3 DEF ApplyAsked
<1>4. ASSUME NEW c \in Callers, ApplyGated(c) PROVE CallsOk' /\ cuts' \in Nat
  <2>1. UNCHANGED <<latest, opening, published, cuts>>
    BY <1>4 DEF ApplyGated
  <2>2. \/ apply' = [apply EXCEPT ![c].at = "download"]
        \/ apply' = [apply EXCEPT ![c] = Idle]
    BY <1>4 DEF ApplyGated
  <2>3. apply[c].at # "idle"
    BY <1>4 DEF ApplyGated
  <2> QED BY <2>1, <2>2, <2>3
<1>5. ASSUME NEW c \in Callers, DownloadFails(c) \/ ApplyDone(c) PROVE CallsOk' /\ cuts' \in Nat
  BY <1>5 DEF DownloadFails, ApplyDone
<1>6. ASSUME NEW c \in Callers, ApplyCut(c) PROVE CallsOk' /\ cuts' \in Nat
  BY <1>6 DEF ApplyCut, Cut, Down
<1>7. CASE RollbackDone \/ RollbackCut \/ Relaunched
  BY <1>7 DEF RollbackDone, RollbackCut, Relaunched, Cut, Down
<1>8. CASE UNCHANGED updaterVars
  BY <1>8 DEF updaterVars
<1> QED BY <1>1, <1>2, <1>3, <1>4, <1>5, <1>6, <1>7, <1>8 DEF UpdaterNext

(* What the steps that touch the disk do: a copying that ends well, one that is
   cut short, a rollback, and all the others. *)
AtRest == UNCHANGED <<install, previous, before>>
Applied ==
    \E v \in Releases :
      /\ previous' = Saved(v, LastRun) /\ install'.code = Replaced(v, LastRun)
      /\ install' \in [code: Copy, set: Nat] /\ before' = install.code
Begun ==
    /\ UNCHANGED install /\ before' = install.code /\ ~previous'.whole
    /\ previous' \in [code: Copy, set: Nat, items: SUBSET Items, whole: BOOLEAN]
HalfApplied ==
    \E v \in Releases, k \in {0} \cup Items :
      /\ previous' = Saved(v, k) /\ install'.code \in Torn(k, Replaced(v, k), Ships[v])
      /\ install' \in [code: Copy, set: Nat] /\ before' = install.code
Back ==
    \E k \in {0} \cup Items :
      /\ MayRollBack /\ UNCHANGED <<previous, before>>
      /\ install'.code \in Torn(k, RolledBack(k), {i \in PutBack : previous.code[i] # Nothing})
      /\ install' \in [code: Copy, set: Nat]
      /\ cuts' = cuts => install'.code = RolledBack(LastRun)

LEMMA DiskSteps ==
  ASSUME UpdateInv, [UpdaterNext]_updaterVars
  PROVE  \/ AtRest /\ cuts' = cuts
         \/ Applied /\ cuts' = cuts
         \/ cuts' = cuts + 1 /\ (Begun \/ HalfApplied)
         \/ Back /\ cuts' \in {cuts, cuts + 1}
<1> USE DEF UpdateInv, Disk, CallsOk
<1>t. /\ \A v \in Releases : Dated[v] \in Nat /\ Ships[v] \subseteq Items
      /\ install = [code |-> install.code, set |-> install.set]
      /\ install.set \in Nat /\ install.code \in Copy /\ previous.code \in Copy /\ previous.set \in Nat
  BY UpdaterAssumption
<1>1. ASSUME NEW c \in Callers, ApplyDone(c) PROVE Applied /\ cuts' = cuts
  <2> DEFINE v == apply[c].file
  <2>1. v \in Releases
    BY <1>1 DEF ApplyDone
  <2>2. Replaced(v, LastRun) \in Copy /\ Kept(install.set, SetAfter(v, LastRun)) \in Nat
    BY <1>t, <2>1 DEF Replaced, Copy, Kept, SetAfter
  <2>3. /\ previous' = Saved(v, LastRun) /\ before' = install.code /\ cuts' = cuts
        /\ install' = [code |-> Replaced(v, LastRun), set |-> Kept(install.set, SetAfter(v, LastRun))]
    BY <1>1 DEF ApplyDone
  <2> QED BY <2>1, <2>2, <2>3 DEF Applied
<1>2. ASSUME NEW c \in Callers, ApplyCut(c) PROVE cuts' = cuts + 1 /\ (Begun \/ HalfApplied)
  <2> DEFINE v == apply[c].file
  <2>1. v \in Releases /\ cuts' = cuts + 1 /\ before' = install.code
    BY <1>2 DEF ApplyCut, Cut
  <2>2. CASE HalfRemoved /\ UNCHANGED install
    <3>1. PICK gone \in SUBSET Items, torn \in {{}} \cup {{i} : i \in Items},
               items \in {previous.items, {}} :
            previous' = [code |-> Remains(gone, torn), items |-> items, whole |-> FALSE,
                         set |-> SetIn(Remains(gone, torn), previous.set)]
      BY <2>2, Zenon DEF HalfRemoved
    <3>2. Remains(gone, torn) \in Copy
      BY <1>t DEF Copy, Remains
    <3>3. SetIn(Remains(gone, torn), previous.set) \in Nat
      BY <1>t DEF SetIn
    <3>4. items \in SUBSET Items
      OBVIOUS
    <3> QED BY <2>1, <2>2, <3>1, <3>2, <3>3, <3>4 DEF Begun
  <2>3. ASSUME NEW k \in {0} \cup Items,
               NEW code \in Torn(k, Only(Listed(v) \cap 0..k, install.code),
                                 {i \in Listed(v) : install.code[i] # Nothing}),
               previous' = [code |-> code, items |-> {}, whole |-> FALSE,
                            set |-> SetIn(code, install.set)],
               UNCHANGED install
        PROVE  Begun
    <3>1. code \in Copy
      BY <1>t DEF Torn, Only, Copy
    <3>2. SetIn(code, install.set) \in Nat
      BY <1>t DEF SetIn
    <3> QED BY <2>1, <2>3, <3>1, <3>2 DEF Begun
  <2>4. ASSUME NEW k \in {0} \cup Items, previous' = Saved(v, k),
               NEW code \in Torn(k, Replaced(v, k), Ships[v]),
               install' = [code |-> code, set |-> SetIn(code, SetAfter(v, k))]
        PROVE  HalfApplied
    <3>1. code \in Copy
      BY <1>t, <2>1 DEF Torn, Replaced, Copy
    <3>2. SetIn(code, SetAfter(v, k)) \in Nat
      BY <1>t, <2>1 DEF SetAfter, SetIn
    <3> QED BY <2>1, <2>4, <3>1, <3>2 DEF HalfApplied
  <2> QED BY <1>2, <2>1, <2>2, <2>3, <2>4 DEF ApplyCut
<1>3. CASE RollbackDone
  <2>1. RolledBack(LastRun) \in Copy /\ Kept(install.set, SetBack(LastRun)) \in Nat
    BY <1>t DEF RolledBack, Copy, Kept, SetBack
  <2> QED BY <1>3, <2>1, LastIsLast DEF RollbackDone, Back, Torn
<1>4. CASE RollbackCut
  <2>1. PICK k \in {0} \cup Items :
          \E code \in Torn(k, RolledBack(k), {i \in PutBack : previous.code[i] # Nothing}) :
            install' = [code |-> code, set |-> SetIn(code, SetBack(k))]
    BY <1>4 DEF RollbackCut
  <2>2. PICK code \in Torn(k, RolledBack(k), {i \in PutBack : previous.code[i] # Nothing}) :
            install' = [code |-> code, set |-> SetIn(code, SetBack(k))]
    BY <2>1
  <2>3. code \in Copy
    BY <1>t DEF RolledBack, Copy, Torn
  <2>4. SetIn(code, SetBack(k)) \in Nat
    BY <1>t DEF SetBack, SetIn
  <2>5. install' \in [code: Copy, set: Nat] /\ install'.code = code
    BY <2>2, <2>3, <2>4
  <2>6. MayRollBack /\ UNCHANGED <<previous, before>> /\ cuts' = cuts + 1
    BY <1>4 DEF RollbackCut, Cut
  <2>7. /\ install'.code \in Torn(k, RolledBack(k), {i \in PutBack : previous.code[i] # Nothing})
        /\ cuts' # cuts
    BY <2>2, <2>5, <2>6
  <2>8. Back
    BY <2>5, <2>6, <2>7, Zenon DEF Back
  <2> QED BY <2>6, <2>8
<1>5. CASE Fetch \/ Opened \/ Publish \/ Relaunched \/ UNCHANGED updaterVars
  BY <1>5 DEF Fetch, Opened, Publish, Relaunched, updaterVars, AtRest
<1>6. ASSUME NEW v \in Releases, RegistryMoves(v) PROVE AtRest /\ cuts' = cuts
  BY <1>6 DEF RegistryMoves, AtRest
<1>7. ASSUME NEW c \in Callers, ApplyAsked(c) \/ ApplyGated(c) \/ DownloadFails(c)
      PROVE  AtRest /\ cuts' = cuts
  BY <1>7 DEF ApplyAsked, ApplyGated, DownloadFails, AtRest
<1> QED BY <1>1, <1>2, <1>3, <1>4, <1>5, <1>6, <1>7 DEF UpdaterNext

LEMMA UpdaterStepKeeps ==
  ASSUME UpdateInv, [UpdaterNext]_updaterVars
  PROVE  /\ UpdateInv'
         /\ cuts' # cuts /\ (cuts = 0 \/ Sound) => (Whole(install.code) \/ Heals)'
<1> USE DEF UpdateInv, Disk
<1>c. CallsOk' /\ cuts' \in Nat /\ cuts \in Nat
  BY CallsKeep
<1>w. \A code : Whole(code) => code[1] # Nothing
  BY LastIsLast, UpdaterAssumption DEF Whole
<1>1. CASE AtRest /\ cuts' = cuts
  BY <1>c, <1>1 DEF AtRest, BringsBack, Sound, Heals, RolledBack, PutBack, Removes
<1>2. CASE Applied /\ cuts' = cuts
  <2>1. PICK v \in Releases :
          /\ previous' = Saved(v, LastRun) /\ install'.code = Replaced(v, LastRun)
          /\ install' \in [code: Copy, set: Nat] /\ before' = install.code
    BY <1>2 DEF Applied
  <2>2. install'.code \in Torn(LastRun, Replaced(v, LastRun), Ships[v]) /\ LastRun \in {0} \cup Items
    BY <2>1, LastIsLast DEF Torn
  <2>3. /\ RolledBack(LastRun)' = install.code /\ previous'.code[1] = install.code[1]
        /\ previous' \in [code: Copy, set: Nat, items: SUBSET Items, whole: BOOLEAN]
    BY <2>1, <2>2, SavedBringsBack
  <2>4. Whole(install'.code)
    BY <2>1, LastIsLast, UpdaterAssumption DEF Whole, Replaced
  <2>5. before' \in Copy
    BY <2>1
  <2> QED BY <1>c, <1>2, <2>1, <2>3, <2>4, <2>5 DEF BringsBack, Sound, Heals
<1>3. CASE cuts' = cuts + 1 /\ Begun
  <2>2. Whole(install.code) => Whole(install'.code)
    BY <1>3 DEF Begun
  <2>3. Disk' /\ BringsBack'
    BY <1>3 DEF Begun, BringsBack
  <2> QED BY <1>c, <1>3, <2>2, <2>3 DEF Sound
<1>4. CASE cuts' = cuts + 1 /\ HalfApplied
  <2>1. PICK v \in Releases, k \in {0} \cup Items :
          /\ previous' = Saved(v, k) /\ install'.code \in Torn(k, Replaced(v, k), Ships[v])
          /\ install' \in [code: Copy, set: Nat] /\ before' = install.code
    BY <1>4 DEF HalfApplied
  <2>2. /\ RolledBack(LastRun)' = install.code /\ previous'.code[1] = install.code[1]
        /\ previous' \in [code: Copy, set: Nat, items: SUBSET Items, whole: BOOLEAN]
    BY <2>1, SavedBringsBack
  <2>3. Disk' /\ BringsBack'
    BY <2>1, <2>2 DEF BringsBack
  <2>4. Whole(install.code) => Heals'
    BY <1>w, <2>2 DEF Heals
  <2> QED BY <1>c, <1>4, <2>3, <2>4 DEF Sound
<1>5. CASE Back /\ cuts' \in {cuts, cuts + 1}
  <2>1. PICK k \in {0} \cup Items :
      /\ MayRollBack /\ UNCHANGED <<previous, before>>
      /\ install'.code \in Torn(k, RolledBack(k), {i \in PutBack : previous.code[i] # Nothing})
      /\ install' \in [code: Copy, set: Nat]
      /\ cuts' = cuts => install'.code = RolledBack(LastRun)
    BY <1>5 DEF Back
  <2>2. RolledBack(LastRun)' = RolledBack(LastRun)
    BY <2>1, RollbackBringsBack
  <2>3. Disk' /\ BringsBack'
    BY <2>1, <2>2 DEF BringsBack
  <2>4. previous.code[1] # Nothing
    BY <2>1 DEF MayRollBack
  <2>5. Heals => Heals'
    BY <2>1, <2>2 DEF Heals
  <2>6. cuts = 0 \/ Sound => Heals'
    BY <2>4, <2>5 DEF Sound
  <2>7. cuts' = cuts /\ cuts = 0 => Sound'
    BY <2>1, <2>2, <2>4, <2>6 DEF Sound, Heals
  <2> QED BY <1>c, <1>5, <2>3, <2>6, <2>7
<1> QED BY <1>1, <1>2, <1>3, <1>4, <1>5, DiskSteps

(* update.js apply, rollback: whatever the releases ship, add or drop, the end
   of the process in the midst of the copying leaves a whole release. *)
THEOREM AnEndLeavesAWhole == UpdaterSpec => EndLeavesAWhole
<1>1. UpdateInv /\ [UpdaterNext]_updaterVars
        => UpdateInv' /\ [cuts' # cuts /\ (cuts = 0 \/ Sound) => (Whole(install.code) \/ Heals)']_updaterVars
  BY UpdaterStepKeeps
<1> QED BY <1>1, UpdaterStarts, PTL DEF UpdaterSpec, EndLeavesAWhole

(* update.js rollback: one that completes restores what the last apply found,
   however often either was cut short in between, if the copy it restores was
   written to the end. *)
THEOREM RollbacksUndo == UpdaterSpec => RollbackUndoes
<1>1. UpdateInv /\ [UpdaterNext]_updaterVars => UpdateInv'
  BY UpdaterStepKeeps
<1>2. UpdateInv => [RollbackDone /\ previous.whole => install'.code = before]_updaterVars
  BY DEF UpdateInv, BringsBack, RollbackDone, MayRollBack
<1> QED BY <1>1, <1>2, UpdaterStarts, PTL DEF UpdaterSpec, RollbackUndoes

(* update.js keepNewerContracts: no apply and no rollback that completes goes
   back to an earlier set of deployed contracts, as long as a rollback has one to
   put back. *)
THEOREM ContractsNeverGoBack == UpdaterSpec => NewestSetStays
<1>1. UpdateInv /\ [UpdaterNext]_updaterVars => UpdateInv'
  BY UpdaterStepKeeps
<1>2. UpdateInv /\ [UpdaterNext]_updaterVars
        => [cuts' = cuts /\ (RollbackDone => SetBack(LastRun) # 0)
              => install'.set >= install.set]_updaterVars
  <2> SUFFICES ASSUME UpdateInv, [UpdaterNext]_updaterVars, cuts' = cuts,
                      RollbackDone => SetBack(LastRun) # 0
               PROVE  install'.set >= install.set
    OBVIOUS
  <2>n. cuts \in Nat /\ install.set \in Nat /\ previous.set \in Nat
    BY DEF UpdateInv, Disk
  <2>0. \A new \in Nat : new # 0 \/ install.set = 0 => Kept(install.set, new) >= install.set
    BY <2>n DEF Kept
  <2>1. ASSUME NEW c \in Callers, ApplyDone(c) PROVE install'.set >= install.set
    <3>1. /\ SetAfter(apply[c].file, LastRun) \in Nat
          /\ SetAfter(apply[c].file, LastRun) # 0 \/ install.set = 0
      <4>1. apply[c].file \in Releases
        BY <2>1 DEF ApplyDone, UpdateInv, CallsOk
      <4> QED BY <2>n, <4>1, UpdaterAssumption DEF SetAfter
    <3>2. install'.set = Kept(install.set, SetAfter(apply[c].file, LastRun))
      BY <2>1 DEF ApplyDone
    <3> QED BY <2>0, <3>1, <3>2
  <2>2. CASE RollbackDone
    <3>1. SetBack(LastRun) \in Nat /\ SetBack(LastRun) # 0
      BY <2>n, <2>2 DEF SetBack
    <3>2. install'.set = Kept(install.set, SetBack(LastRun))
      BY <2>2 DEF RollbackDone
    <3> QED BY <2>0, <3>1, <3>2
  <2>3. ~RollbackCut /\ \A c \in Callers : ~ApplyCut(c)
    BY <2>n DEF RollbackCut, ApplyCut, Cut
  <2>4. CASE UNCHANGED install
    BY <2>n, <2>4
  <2> QED BY <2>1, <2>2, <2>3, <2>4 DEF UpdaterNext, Fetch, Opened, Publish, RegistryMoves,
             ApplyAsked, ApplyGated, DownloadFails, Relaunched, updaterVars
<1> QED BY <1>1, <1>2, UpdaterStarts, PTL DEF UpdaterSpec, NewestSetStays

-----------------------------------------------------------------------------
(* The reads of the chain *)

(* A round's places, a call, and what the node keeps about the endpoints. *)
Lefts == UNION {[S -> Nat] : S \in SUBSET Endpoints}
CallType == [at: {"idle", "asking", "asking head", "sleeping"},
             method: {"none", "read", "head", "logs"}, to: Nat,
             ep: Endpoints \cup {0}, left: Lefts, round: Nat, limited: BOOLEAN]
PoolType == [Endpoints -> [bench: Nat, pause: Nat, head: Int]]

(* The endpoint asked has every block of the range. *)
Reaches(C) == C.method = "logs" /\ C.at = "asking" => C.to <= height[C.ep]

CallOk(c) ==
    /\ call[c] \in CallType
    /\ call[c].at \in {"asking", "asking head"} => call[c].ep \in Endpoints
    /\ c # "scan" => call[c].method \in {"none", "read"}
    /\ call[c].method = "logs" /\ Cardinality(Endpoints) <= 1 =>
         \A e \in Endpoints : call[c].to <= height[e]
    /\ Reaches(call[c])

(* No head the node has noted is above the endpoint's own. *)
RpcInv ==
    /\ height \in [Endpoints -> Nat]
    /\ pool \in PoolType
    /\ \A e \in Endpoints : pool[e].head <= height[e]
    /\ DOMAIN call = Parts /\ \A c \in Parts : CallOk(c)
    /\ cursor \in Nat
    /\ ScanComplete

LEMMA TwoNumbers ==
  ASSUME NEW a \in Int, NEW b \in Int
  PROVE  /\ Max({a, b}) \in {a, b} /\ Max({a, b}) >= a /\ Max({a, b}) >= b
         /\ Min({a, b}) \in {a, b} /\ Min({a, b}) <= a /\ Min({a, b}) <= b
<1>1. \E x \in {a, b} : \A y \in {a, b} : x >= y
  OBVIOUS
<1>2. \E x \in {a, b} : \A y \in {a, b} : x =< y
  OBVIOUS
<1>3. Max({a, b}) \in {a, b} /\ \A y \in {a, b} : Max({a, b}) >= y
  BY <1>1, Zenon DEF Max
<1>4. Min({a, b}) \in {a, b} /\ \A y \in {a, b} : Min({a, b}) =< y
  BY <1>2, Zenon DEF Min
<1> QED BY <1>3, <1>4

LEMMA EndpointsCount ==
  /\ Cardinality(Endpoints) \in Nat /\ IsFiniteSet(Endpoints) /\ 0 \notin Endpoints
  /\ Cardinality(Endpoints) <= 1 => \A e, f \in Endpoints : e = f
<1>1. Cardinality(Endpoints) \in Nat /\ IsFiniteSet(Endpoints) /\ Endpoints # {}
  BY RpcAssumption, FS_CardinalityType
<1>2. Cardinality(Endpoints) <= 1 => \A e, f \in Endpoints : e = f
  <2>1. SUFFICES ASSUME Cardinality(Endpoints) <= 1 PROVE \A e, f \in Endpoints : e = f
    OBVIOUS
  <2>2. Cardinality(Endpoints) = 1
    BY <1>1, <2>1, FS_EmptySet
  <2> QED BY <1>1, <2>2, FS_Singleton
<1> QED BY <1>1, <1>2, RpcAssumption

(* Some endpoint of a round is the next, and it is one of them. *)
LEMMA NextIsOne ==
  ASSUME NEW left \in Lefts, DOMAIN left # {}
  PROVE  NextOf(left) \in DOMAIN left
<1> DEFINE less == OpToRel(<, Nat)
           places == {left[e] : e \in DOMAIN left}
<1>1. PICK S \in SUBSET Endpoints : left \in [S -> Nat]
  BY DEF Lefts
<1>2. places \subseteq Nat /\ places # {}
  BY <1>1
<1>3. IsWellFoundedOn(less, Nat)
  BY NatLessThanWellFounded
<1>4. PICK n \in places : \A m \in places : ~(m < n)
  <2> HIDE DEF less, places
  <2>1. \E n \in places : \A m \in places : <<m, n>> \notin less
    BY <1>2, <1>3, WFMin
  <2>2. \A m, n \in places : m < n => <<m, n>> \in less
    BY <1>2 DEF less, OpToRel
  <2> QED BY <2>1, <2>2
<1>5. \A m \in places : n <= m
  <2> HIDE DEF places
  <2> QED BY <1>2, <1>4
<1>6. \E e \in DOMAIN left : \A f \in DOMAIN left : left[e] <= left[f]
  BY <1>5
<1> QED BY <1>6, Zenon DEF NextOf

LEMMA UsableIsALeft ==
  ASSUME NEW P \in PoolType
  PROVE  Usable(P) \in Lefts /\ DOMAIN Usable(P) = Open(P)
<1>1. \A e \in Open(P) : Cardinality({f \in Open(P) : Before(P, f, e)}) \in Nat
  <2>1. TAKE e \in Open(P)
  <2>2. IsFiniteSet({f \in Open(P) : Before(P, f, e)})
    BY EndpointsCount, FS_Subset DEF Open
  <2> QED BY <2>2, FS_CardinalityType
<1>2. Open(P) \in SUBSET Endpoints
  BY DEF Open
<1>3. Usable(P) \in [Open(P) -> Nat]
  BY <1>1 DEF Usable
<1> QED BY <1>2, <1>3 DEF Lefts

(* A turn asks an endpoint that is left, and for a range only one known to have it. *)
LEMMA TurnAsks ==
  ASSUME NEW P \in PoolType, NEW C \in CallType, DOMAIN C.left # {}
  PROVE  /\ Turn(P, C) \in CallType
         /\ Turn(P, C).at \in {"asking", "asking head"} /\ Turn(P, C).ep \in Endpoints
         /\ Turn(P, C).method = C.method /\ Turn(P, C).to = C.to
         /\ C.method = "logs" /\ Turn(P, C).at = "asking" /\ Cardinality(Endpoints) > 1
              => C.to <= P[Turn(P, C).ep].head
<1> DEFINE e == NextOf(C.left)
<1>1. C.left \in Lefts
  BY DEF CallType
<1>2. PICK S \in SUBSET Endpoints : C.left \in [S -> Nat]
  BY <1>1 DEF Lefts
<1>3. e \in DOMAIN C.left /\ e \in Endpoints
  BY <1>1, <1>2, NextIsOne
<1>4. Restrict(C.left, DOMAIN C.left \ {e}) \in Lefts
  <2>1. S \ {e} \in SUBSET Endpoints
    BY <1>2
  <2>2. Restrict(C.left, DOMAIN C.left \ {e}) \in [S \ {e} -> Nat]
    BY <1>2 DEF Restrict
  <2> QED BY <2>1, <2>2 DEF Lefts
<1> HIDE DEF e
<1>5. Turn(P, C) = [C EXCEPT !.ep = e, !.left = Restrict(C.left, DOMAIN C.left \ {e}),
                             !.at = IF HeadFirst(P, C, e) THEN "asking head" ELSE "asking"]
  BY DEF Turn, e
<1>6. P[e].head \in Int /\ C.to \in Nat
  BY <1>3 DEF PoolType, CallType
<1>7. /\ Turn(P, C).ep = e /\ Turn(P, C).left = Restrict(C.left, DOMAIN C.left \ {e})
      /\ Turn(P, C).at = (IF HeadFirst(P, C, e) THEN "asking head" ELSE "asking")
      /\ Turn(P, C).method = C.method /\ Turn(P, C).to = C.to
  BY <1>5 DEF CallType
<1>8. Turn(P, C) \in CallType
  <2>1. (IF HeadFirst(P, C, e) THEN "asking head" ELSE "asking") \in {"asking", "asking head"}
    OBVIOUS
  <2> QED BY <1>3, <1>4, <1>5, <2>1 DEF CallType
<1>9. C.method = "logs" /\ Turn(P, C).at = "asking" /\ Cardinality(Endpoints) > 1 => C.to <= P[e].head
  <2>1. SUFFICES ASSUME C.method = "logs", Turn(P, C).at = "asking", Cardinality(Endpoints) > 1
                 PROVE  C.to <= P[e].head
    OBVIOUS
  <2>2. ~HeadFirst(P, C, e)
    BY <1>7, <2>1
  <2> QED BY <1>6, <2>1, <2>2 DEF HeadFirst
<1> QED BY <1>3, <1>7, <1>8, <1>9

LEMMA NoCallIsIdle == NoCall \in CallType /\ NoCall.at = "idle" /\ NoCall.method = "none"
<1>1. NotAsked \in [{} -> Nat] /\ {} \in SUBSET Endpoints
  BY DEF NotAsked
<1>2. NotAsked \in Lefts
  BY <1>1 DEF Lefts
<1> QED BY <1>2 DEF NoCall, CallType

(* What a round, or moving on, makes of a call: none, one asleep, or a turn. *)
Asks(P, C, D) ==
    /\ D \in CallType /\ D.at \in {"asking", "asking head"} /\ D.ep \in Endpoints
    /\ D.method = C.method /\ D.to = C.to
    /\ C.method = "logs" /\ D.at = "asking" /\ Cardinality(Endpoints) > 1 => C.to <= P[D.ep].head
GoesOn(P, C, D) ==
    \/ D = NoCall
    \/ D = [C EXCEPT !.at = "sleeping", !.ep = 0]
    \/ Asks(P, C, D)

LEMMA RoundGoes ==
  ASSUME NEW P \in PoolType, NEW C \in CallType
  PROVE  GoesOn(P, C, Round(P, C))
<1>1. CASE Open(P) = {}
  BY <1>1 DEF Round, GoesOn
<1>2. CASE Open(P) # {}
  <2> DEFINE C2 == [C EXCEPT !.left = Usable(P)]
  <2>1. C2 \in CallType /\ C2.left = Usable(P) /\ C2.method = C.method /\ C2.to = C.to
    BY UsableIsALeft DEF CallType
  <2>2. Round(P, C) = Turn(P, C2) /\ DOMAIN C2.left # {}
    BY <1>2, <2>1, UsableIsALeft DEF Round
  <2> HIDE DEF C2
  <2>3. Asks(P, C2, Turn(P, C2))
    BY <2>1, <2>2, TurnAsks DEF Asks
  <2>4. Asks(P, C, Turn(P, C2))
    BY <2>1, <2>3 DEF Asks
  <2> QED BY <2>2, <2>4 DEF GoesOn
<1> QED BY <1>1, <1>2

LEMMA MoveOnGoes ==
  ASSUME NEW c \in Parts, NEW P \in PoolType, NEW C \in CallType, MoveOn(c, P, C)
  PROVE  \E D : GoesOn(P, C, D) /\ call' = [call EXCEPT ![c] = D] /\ pool' = P
<1> DEFINE D == IF DOMAIN C.left # {} THEN Turn(P, C)
                ELSE IF (C.limited /\ Open(P) = {}) \/ C.round >= Tries THEN NoCall
                ELSE [C EXCEPT !.at = "sleeping", !.ep = 0]
<1>1. GoesOn(P, C, D)
  <2>1. DOMAIN C.left # {} => Asks(P, C, Turn(P, C))
    BY TurnAsks DEF Asks
  <2> QED BY <2>1 DEF GoesOn
<1>2. call' = [call EXCEPT ![c] = D] /\ pool' = P
  BY DEF MoveOn
<1> QED BY <1>1, <1>2

(* A call that goes on keeps the invariant, whatever the pool has learned. *)
LEMMA GoingKeeps ==
  ASSUME RpcInv, NEW c \in Parts, NEW C \in CallType, NEW D, GoesOn(pool', C, D),
         call' = [call EXCEPT ![c] = D],
         pool' \in PoolType, \A e \in Endpoints : pool'[e].head <= height[e],
         c # "scan" => C.method \in {"none", "read"},
         C.method = "logs" /\ Cardinality(Endpoints) <= 1 => \A e \in Endpoints : C.to <= height[e],
         UNCHANGED <<height, cursor, scanned>>
  PROVE  RpcInv'
<1> USE DEF RpcInv
<1>1. ASSUME NEW d \in Parts, d # c PROVE CallOk(d)'
  BY <1>1 DEF CallOk, Reaches
<1>2. CallOk(c)'
  <2>1. call'[c] = D
    OBVIOUS
  <2>2. CASE D = NoCall
    BY <2>1, <2>2, NoCallIsIdle DEF CallOk, Reaches
  <2>3. CASE D = [C EXCEPT !.at = "sleeping", !.ep = 0]
    BY <2>1, <2>3 DEF CallOk, Reaches, CallType
  <2>4. CASE D # NoCall /\ D # [C EXCEPT !.at = "sleeping", !.ep = 0]
    <3>1. /\ D \in CallType /\ D.at \in {"asking", "asking head"} /\ D.ep \in Endpoints
          /\ D.method = C.method /\ D.to = C.to
          /\ C.method = "logs" /\ D.at = "asking" /\ Cardinality(Endpoints) > 1 => C.to <= pool'[D.ep].head
      BY <2>4, Zenon DEF GoesOn, Asks
    <3>2. Cardinality(Endpoints) > 1 \/ Cardinality(Endpoints) <= 1
      BY EndpointsCount
    <3>3. pool'[D.ep].head \in Int /\ height[D.ep] \in Nat /\ C.to \in Nat
      BY <3>1 DEF PoolType, CallType
    <3>4. Reaches(D)'
      BY <3>1, <3>2, <3>3 DEF Reaches
    <3> QED BY <2>1, <3>1, <3>4 DEF CallOk, Reaches
  <2> QED BY <2>2, <2>3, <2>4
<1> QED BY <1>1, <1>2 DEF ScanComplete

LEMMA AnsweredIsOk ==
  ASSUME RpcInv, NEW e \in Endpoints, NEW head \in Int, head <= height[e]
  PROVE  /\ Answered(e, head) \in PoolType
         /\ \A f \in Endpoints : Answered(e, head)[f].head <= height[f]
         /\ Answered(e, head)[e].head >= head
<1>1. pool[e].head \in Int /\ pool[e].head <= height[e] /\ pool \in PoolType
  BY DEF RpcInv, PoolType
<1>2. Max({pool[e].head, head}) \in {pool[e].head, head} /\ Max({pool[e].head, head}) >= head
  BY <1>1, TwoNumbers
<1> QED BY <1>1, <1>2 DEF RpcInv, Answered, Clean, PoolType

LEMMA HeldIsOk ==
  ASSUME RpcInv, NEW e, NEW n \in Nat
  PROVE  /\ Benched(e, n) \in PoolType /\ Paused(e, n) \in PoolType
         /\ \A f \in Endpoints : Benched(e, n)[f].head = pool[f].head /\ Paused(e, n)[f].head = pool[f].head
  BY DEF RpcInv, PoolType, Benched, Paused

LEMMA RpcStepKeeps == RpcInv /\ [RpcNext]_rpcVars => RpcInv'
<1> SUFFICES ASSUME RpcInv, [RpcNext]_rpcVars PROVE RpcInv'
  OBVIOUS
<1> USE DEF RpcInv
<1>t. Longest \in Nat /\ ScanRange \in Nat /\ Tries \in Nat
  BY RpcAssumption
<1>1. ASSUME NEW c \in Parts, Wake(c) PROVE RpcInv'
  <2> DEFINE C == [call[c] EXCEPT !.round = @ + 1]
  <2>0. call[c] \in CallType
    BY DEF CallOk
  <2>1. C \in CallType /\ C.method = call[c].method /\ C.to = call[c].to
    <3>0. call[c].round \in Nat
      BY <2>0, Zenon DEF CallType
    <3>1. call[c].round + 1 \in Nat
      BY <3>0
    <3>2. C = [call[c] EXCEPT !.round = call[c].round + 1]
      OBVIOUS
    <3> QED BY <2>0, <3>1, <3>2 DEF CallType
  <2>2. call' = [call EXCEPT ![c] = Round(pool, C)] /\ UNCHANGED <<height, pool, cursor, scanned>>
    BY <1>1, Zenon DEF Wake
  <2> HIDE DEF C
  <2>3. GoesOn(pool, C, Round(pool, C))
    BY <2>1, RoundGoes
  <2>4. GoesOn(pool', C, Round(pool, C)) /\ pool' \in PoolType /\ \A e \in Endpoints : pool'[e].head <= height[e]
    BY <2>2, <2>3
  <2>5. /\ c # "scan" => C.method \in {"none", "read"}
        /\ C.method = "logs" /\ Cardinality(Endpoints) <= 1 => \A e \in Endpoints : C.to <= height[e]
    BY <2>1 DEF CallOk
  <2> QED BY <2>1, <2>2, <2>4, <2>5, GoingKeeps
<1>2. ASSUME NEW c \in Parts, Fail(c) \/ Limit(c) PROVE RpcInv'
  <2>0. PICK n \in 1..Longest, limited \in BOOLEAN :
          \E P \in {Benched(call[c].ep, n), Paused(call[c].ep, n)} :
            MoveOn(c, P, [call[c] EXCEPT !.limited = limited])
    BY <1>2 DEF Fail, Limit
  <2>1. PICK P \in {Benched(call[c].ep, n), Paused(call[c].ep, n)} :
          MoveOn(c, P, [call[c] EXCEPT !.limited = limited])
    BY <2>0
  <2> DEFINE C == [call[c] EXCEPT !.limited = limited]
  <2>x. call[c] \in CallType
    BY DEF CallOk
  <2>2. C \in CallType /\ C.method = call[c].method /\ C.to = call[c].to
    BY <2>x DEF CallType
  <2>3. P \in PoolType /\ \A e \in Endpoints : P[e].head = pool[e].head
    BY <1>t, <2>1, HeldIsOk
  <2>4. UNCHANGED <<height, cursor, scanned>>
    BY <1>2 DEF Fail, Limit
  <2>5. /\ c # "scan" => C.method \in {"none", "read"}
        /\ C.method = "logs" /\ Cardinality(Endpoints) <= 1 => \A e \in Endpoints : C.to <= height[e]
    BY <2>2 DEF CallOk
  <2>6. PICK D : GoesOn(P, C, D) /\ call' = [call EXCEPT ![c] = D] /\ pool' = P
    <3> HIDE DEF C
    <3>1. MoveOn(c, P, C)
      BY <2>1 DEF C
    <3> QED BY <2>2, <2>3, <3>1, MoveOnGoes
  <2>7. GoesOn(pool', C, D) /\ pool' \in PoolType /\ \A e \in Endpoints : pool'[e].head <= height[e]
    BY <2>3, <2>6
  <2> HIDE DEF C
  <2> QED BY <2>2, <2>4, <2>5, <2>6, <2>7, GoingKeeps
<1>3. ASSUME NEW c \in Parts, HeadAnswer(c) PROVE RpcInv'
  <2> DEFINE e == call[c].ep
             P == Answered(e, height[e])
             C == [call[c] EXCEPT !.limited = FALSE]
  <2>1. call[c].at = "asking head" /\ e \in Endpoints /\ UNCHANGED <<height, cursor, scanned>> /\ CallOk(c)
    BY <1>3 DEF HeadAnswer, CallOk
  <2>x. height[e] \in Int /\ height[e] <= height[e] /\ height[e] \in Nat
    <3> HIDE DEF P
    <3>1. height[e] \in Nat
      BY <2>1
    <3> QED BY <3>1
  <2>2. P \in PoolType /\ (\A f \in Endpoints : P[f].head <= height[f])
    BY <2>1, <2>x, AnsweredIsOk
  <2>3. CASE P[e].head < call[c].to
    <3>1. MoveOn(c, P, C)
      BY <1>3, <2>3 DEF HeadAnswer
    <3>2. C \in CallType /\ C.method = call[c].method /\ C.to = call[c].to
      BY <2>1 DEF CallOk, CallType
    <3> HIDE DEF C, P
    <3>3. PICK D : GoesOn(P, C, D) /\ call' = [call EXCEPT ![c] = D] /\ pool' = P
      BY <2>2, <3>1, <3>2, MoveOnGoes
    <3>4. GoesOn(pool', C, D) /\ pool' \in PoolType /\ \A f \in Endpoints : pool'[f].head <= height[f]
      BY <2>2, <3>3
    <3>5. /\ c # "scan" => C.method \in {"none", "read"}
          /\ C.method = "logs" /\ Cardinality(Endpoints) <= 1 => \A f \in Endpoints : C.to <= height[f]
      BY <2>1, <3>2 DEF CallOk
    <3> QED BY <2>1, <3>2, <3>3, <3>4, <3>5, GoingKeeps
  <2>4. CASE ~(P[e].head < call[c].to)
    <3>1. pool' = P /\ call' = [call EXCEPT ![c].at = "asking"]
      BY <1>3, <2>4 DEF HeadAnswer
    <3>a. call[c].to \in Nat
      BY <2>1 DEF CallOk, CallType
    <3>b. P[e].head \in Int
      <4> HIDE DEF P
      <4> QED BY <2>1, <2>2 DEF PoolType
    <3>2. P[e].head \in Int /\ call[c].to \in Nat /\ P[e].head <= height[e] /\ height[e] \in Nat
      BY <2>1, <2>2, <2>x, <3>a, <3>b
    <3>3. call[c].to <= height[e]
      BY <2>4, <3>2
    <3> HIDE DEF P
    <3>4. CallOk(c)'
      BY <2>1, <3>1, <3>3 DEF CallOk, Reaches, CallType
    <3>5. \A d \in Parts : d # c => CallOk(d)'
      BY <2>1, <3>1 DEF CallOk, Reaches
    <3> QED BY <2>1, <2>2, <3>1, <3>4, <3>5 DEF ScanComplete
  <2> QED BY <2>3, <2>4
<1>4. ASSUME NEW c \in Parts, NEW method \in {"read", "head"}, c # "scan" => method = "read",
             call' = [call EXCEPT ![c] = Round(pool, Asked(method, 0))],
             UNCHANGED <<height, pool, cursor, scanned>>
      PROVE  RpcInv'
  <2> DEFINE C == Asked(method, 0)
  <2>1. C \in CallType /\ C.method = method
    BY <1>4, NoCallIsIdle DEF Asked, CallType
  <2> HIDE DEF C
  <2>2. GoesOn(pool, C, Round(pool, C))
    BY <2>1, RoundGoes
  <2>3. GoesOn(pool', C, Round(pool, C)) /\ pool' \in PoolType /\ \A e \in Endpoints : pool'[e].head <= height[e]
    BY <1>4, <2>2
  <2>4. call' = [call EXCEPT ![c] = Round(pool, C)]
    BY <1>4 DEF C
  <2> QED BY <1>4, <2>1, <2>3, <2>4, GoingKeeps
<1>5. ASSUME NEW c \in Readers, Read(c) PROVE RpcInv'
  <2>1. c \in Parts /\ c # "scan"
    BY RpcAssumption DEF Parts
  <2> QED BY <1>4, <1>5, <2>1 DEF Read
<1>6. CASE ScanBegin
  <2>1. "scan" \in Parts
    BY DEF Parts
  <2> QED BY <1>4, <1>6, <2>1 DEF ScanBegin
<1>7. ASSUME NEW c \in Parts, NEW e \in Endpoints, NEW head \in Int, head <= height[e],
             pool' = Answered(e, head), call' = [call EXCEPT ![c] = NoCall], UNCHANGED height
      PROVE  /\ pool' \in PoolType /\ \A f \in Endpoints : pool'[f].head <= height'[f]
             /\ DOMAIN call' = Parts /\ \A d \in Parts : CallOk(d)'
  <2>1. pool' \in PoolType /\ \A f \in Endpoints : pool'[f].head <= height'[f]
    BY <1>7, AnsweredIsOk
  <2>2. CallOk(c)'
    BY <1>7, NoCallIsIdle DEF CallOk, Reaches
  <2>3. \A d \in Parts : d # c => CallOk(d)'
    BY <1>7 DEF CallOk, Reaches
  <2> QED BY <1>7, <2>1, <2>2, <2>3
<1>8. ASSUME NEW c \in Readers, ReadAnswer(c) PROVE RpcInv'
  <2>1. c \in Parts /\ call[c].ep \in Endpoints /\ Unknown \in Int /\ Unknown <= height[call[c].ep]
    <3>1. c \in Parts /\ call[c].at = "asking"
      BY <1>8 DEF ReadAnswer, Parts
    <3>2. CallOk(c)
      BY <3>1
    <3>3. call[c].ep \in Endpoints
      BY <3>1, <3>2 DEF CallOk
    <3>4. height[call[c].ep] \in Nat
      BY <3>3
    <3> QED BY <3>1, <3>3, <3>4 DEF Unknown
  <2>2. /\ pool' = Answered(call[c].ep, Unknown) /\ call' = [call EXCEPT ![c] = NoCall]
        /\ UNCHANGED <<height, cursor, scanned>>
    BY <1>8 DEF ReadAnswer
  <2> QED BY <1>7, <2>1, <2>2 DEF ScanComplete
<1>9. CASE ScanHead
  <2> DEFINE e == call["scan"].ep
             P == Answered(e, height[e])
             to == Min({height[e], cursor + ScanRange})
  <2>1. "scan" \in Parts /\ e \in Endpoints /\ height[e] \in Nat
    BY <1>9 DEF ScanHead, Parts, CallOk
  <2>x. height[e] \in Int /\ height[e] <= height[e] /\ height[e] \in Nat
    <3> HIDE DEF P
    <3>1. height[e] \in Nat
      BY <2>1
    <3> QED BY <3>1
  <2>2. P \in PoolType /\ (\A f \in Endpoints : P[f].head <= height[f])
    BY <2>1, <2>x, AnsweredIsOk
  <2>3. pool' = P /\ UNCHANGED <<height, cursor, scanned>>
    BY <1>9 DEF ScanHead
  <2>4. CASE cursor >= height[e]
    <3>1. call' = [call EXCEPT !["scan"] = NoCall]
      BY <1>9, <2>4 DEF ScanHead
    <3> QED BY <1>7, <2>1, <2>x, <2>3, <3>1 DEF ScanComplete
  <2>5. CASE ~(cursor >= height[e])
    <3> DEFINE C == Asked("logs", to)
    <3>1. to \in Nat /\ to <= height[e]
      <4>1. height[e] \in Int /\ cursor + ScanRange \in Nat /\ cursor + ScanRange \in Int
        BY <1>t, <2>1
      <4>2. /\ Min({height[e], cursor + ScanRange}) \in {height[e], cursor + ScanRange}
            /\ Min({height[e], cursor + ScanRange}) <= height[e]
        BY <4>1, TwoNumbers
      <4> QED BY <2>1, <4>1, <4>2
    <3>2. call' = [call EXCEPT !["scan"] = Round(P, C)]
      BY <1>9, <2>5 DEF ScanHead
    <3> HIDE DEF to
    <3>3. C \in CallType /\ C.method = "logs" /\ C.to = to
      BY <3>1, NoCallIsIdle DEF Asked, CallType
    <3>4. Cardinality(Endpoints) <= 1 => \A f \in Endpoints : C.to <= height[f]
      BY <2>1, <3>1, <3>3, EndpointsCount
    <3> HIDE DEF C, P
    <3>5. GoesOn(pool', C, Round(P, C)) /\ pool' \in PoolType /\ \A f \in Endpoints : pool'[f].head <= height[f]
      BY <2>2, <2>3, <3>3, RoundGoes
    <3> QED BY <2>1, <2>3, <3>2, <3>3, <3>4, <3>5, GoingKeeps
  <2> QED BY <2>4, <2>5
<1>10. CASE ScanLogs
  <2> DEFINE C == call["scan"]
  <2>1. "scan" \in Parts /\ C.at = "asking" /\ C.method = "logs" /\ CallOk("scan")
    BY <1>10 DEF ScanLogs, Parts
  <2>2. C.ep \in Endpoints /\ C.to \in Nat /\ C.to <= height[C.ep] /\ height[C.ep] \in Nat
    BY <2>1 DEF CallOk, CallType, Reaches
  <2>3. Min({C.to, height[C.ep]}) \in {C.to, height[C.ep]} /\ Min({C.to, height[C.ep]}) >= C.to
    <3>0. C.to \in Int /\ height[C.ep] \in Int
      BY <2>2
    <3> HIDE DEF C
    <3>1. Min({C.to, height[C.ep]}) \in {C.to, height[C.ep]}
      BY <3>0, TwoNumbers
    <3> QED BY <2>2, <3>1
  <2>4. /\ scanned' = scanned \cup (cursor + 1)..Min({C.to, height[C.ep]}) /\ cursor' = C.to
        /\ pool' = Answered(C.ep, Unknown) /\ call' = [call EXCEPT !["scan"] = NoCall] /\ UNCHANGED height
    BY <1>10 DEF ScanLogs
  <2>5. ScanComplete'
    BY <2>2, <2>3, <2>4 DEF ScanComplete
  <2>6. Unknown \in Int /\ Unknown <= height[C.ep]
    BY <2>2 DEF Unknown
  <2> HIDE DEF C
  <2> QED BY <1>7, <2>1, <2>2, <2>4, <2>5, <2>6
<1>11. ASSUME NEW e \in Endpoints, Grow(e) PROVE RpcInv'
  <2>1. /\ height' = [height EXCEPT ![e] = @ + 1] /\ UNCHANGED <<pool, call, cursor, scanned>>
    BY <1>11 DEF Grow
  <2>2. height' \in [Endpoints -> Nat] /\ \A f \in Endpoints : height[f] <= height'[f]
    BY <2>1
  <2>3. \A f \in Endpoints : pool[f].head \in Int
    BY DEF PoolType
  <2>4. ASSUME NEW c \in Parts PROVE CallOk(c)'
    <3>1. CallOk(c) /\ call[c].to \in Nat
      BY DEF CallOk, CallType
    <3>2. \A f \in Endpoints : call[c].to <= height[f] => call[c].to <= height'[f]
      BY <2>2, <3>1
    <3>3. call'[c] = call[c]
      BY <2>1
    <3>4. call[c].at = "asking" => call[c].ep \in Endpoints
      BY <3>1 DEF CallOk
    <3> QED BY <3>1, <3>2, <3>3, <3>4 DEF CallOk, Reaches
  <2> QED BY <2>1, <2>2, <2>3, <2>4 DEF ScanComplete
<1>12. CASE Tick
  <2>1. UNCHANGED <<height, call, cursor, scanned>>
    BY <1>12 DEF Tick
  <2>2. \A e \in Endpoints : Max({0, pool[e].bench - 1}) \in Nat /\ Max({0, pool[e].pause - 1}) \in Nat
    <3>1. TAKE e \in Endpoints
    <3>2. pool[e].bench \in Nat /\ pool[e].pause \in Nat
      BY DEF PoolType
    <3>3. pool[e].bench - 1 \in Int /\ pool[e].pause - 1 \in Int /\ 0 \in Int
      BY <3>2
    <3>4. /\ Max({0, pool[e].bench - 1}) \in {0, pool[e].bench - 1} /\ Max({0, pool[e].bench - 1}) >= 0
          /\ Max({0, pool[e].pause - 1}) \in {0, pool[e].pause - 1} /\ Max({0, pool[e].pause - 1}) >= 0
      BY <3>3, TwoNumbers
    <3> QED BY <3>3, <3>4
  <2>3. pool' \in PoolType /\ \A e \in Endpoints : pool'[e].head = pool[e].head
    BY <1>12, <2>2 DEF Tick, PoolType
  <2> QED BY <2>1, <2>3 DEF CallOk, Reaches, ScanComplete
<1>13. CASE UNCHANGED rpcVars
  BY <1>13 DEF rpcVars, CallOk, Reaches, ScanComplete
<1> QED BY <1>1, <1>2, <1>3, <1>5, <1>6, <1>8, <1>9, <1>10, <1>11, <1>12, <1>13 DEF RpcNext

LEMMA RpcStarts == RpcInit => RpcInv
<1> SUFFICES ASSUME RpcInit PROVE RpcInv
  OBVIOUS
<1>1. \A c \in Parts : call[c] = NoCall
  BY DEF RpcInit
<1>2. \A c \in Parts : CallOk(c)
  BY <1>1, NoCallIsIdle DEF CallOk, Reaches
<1> QED BY <1>2 DEF RpcInit, RpcInv, PoolType, Clean, Unknown, ScanComplete

(* chain.js call, matchbook.js scan: whichever endpoints answer, fail, limit or
   lag behind, the cursor never passes an event the scan has not absorbed. *)
THEOREM ScansAreComplete == RpcSpec => []ScanComplete
<1>1. RpcInv => ScanComplete
  BY DEF RpcInv
<1> QED BY <1>1, RpcStarts, RpcStepKeeps, PTL DEF RpcSpec
=============================================================================
