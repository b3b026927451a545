---------------------------- MODULE ProxyWallets ----------------------------
(* A node's proxy wallets (node/proxy.js): what an AIR user asks for here is
   done by the wallet this node keeps for the user - a sign-in, which mints the
   profile and binds the browser's key, the revocation of a key, the claim, the
   builds and the transfer of a title, the bond of this node.  Requests of one
   user are taken one at a time; every transaction may outlive the wait for its
   receipt.  The stake token's faucet and allowance refuse nobody. *)
EXTENDS Naturals, FiniteSets, Sequences

CONSTANTS Users, Tabs,     \* Tabs: pages of each user
          Browsers,        \* keys the pages present: any user may present any of them
          Titles, NodeKey, \* the titles of TitleRegistry, this node's key on NodeStake
          Wallets, Away,   \* wallet keys the node may generate; every wallet that is not here
          MaxRequests      \* bound: requests made

ProfileKeys == Users \cup Browsers  \* a user stands for the AIR key of the user's profile
Things == ProfileKeys \cup Titles \cup {NodeKey}

ASSUME ProxyAssumption ==
    /\ IsFiniteSet(Wallets) /\ Away \notin Wallets /\ MaxRequests \in Nat
    /\ Users \cap (Browsers \cup Titles \cup {NodeKey}) = {}
    /\ Browsers \cap (Titles \cup {NodeKey}) = {} /\ NodeKey \notin Titles

VARIABLES
  owner,     \* chain: the wallet that holds a key, a title, this node's bond ({} for none)
  bound,    \* chain: the keys that are bound and not revoked
  built,     \* chain: titles with the build the node serves
  inPool,    \* transactions sent and not mined
  walletOf,  \* <dataDir>/proxies: the wallet file of u ({} for none)
  job,       \* job[u][t]: where the request of a page is
  requests,
  abandoned, \* history: users of whom a transaction was left unanswered
  reverted   \* history: transactions that were mined and reverted

proxyVars == <<owner, bound, built, inPool, walletOf, job, requests, abandoned, reverted>>

Ops == {"session", "revoke", "register", "set-build", "revoke-build", "transfer", "bond"}
Whats == {"register", "bind-air", "bind", "unbind", "claim", "build", "unbuild", "give",
          "faucet", "approve", "bond", "stake", "delegate"}
NoRequest == [at |-> "idle", op |-> "none", thing |-> NodeKey, plan |-> <<>>]
Job == [at : {"idle", "queued", "ready", "sent"}, op : Ops \cup {"none"}, thing : Things,
        plan : Seq(Whats)]

ProxyTypeOK ==
    /\ owner \in [Things -> SUBSET (Wallets \cup {Away})]
    /\ \A a \in Things : Cardinality(owner[a]) <= 1
    /\ bound \subseteq ProfileKeys /\ built \subseteq Titles
    /\ walletOf \in [Users -> SUBSET Wallets]
    /\ job \in [Users -> [Tabs -> Job]]
    /\ requests \in 0..MaxRequests /\ abandoned \subseteq Users

ProxyInit ==
    /\ owner = [a \in Things |-> {}] /\ bound = {} /\ built = {} /\ inPool = {}
    /\ walletOf = [u \in Users |-> {}]
    /\ job = [u \in Users |-> [t \in Tabs |-> NoRequest]]
    /\ requests = 0 /\ abandoned = {} /\ reverted = {}

Goes(u, t, j) == job' = [job EXCEPT ![u][t] = j]
At(j, at) == [j EXCEPT !.at = at]
(* The call is done: on to the next of the request, or the answer. *)
Done(j) == IF Len(j.plan) <= 1 THEN NoRequest ELSE [At(j, "ready") EXCEPT !.plan = Tail(j.plan)]

Wishes ==
    ({"session"} \X Browsers) \cup ({"revoke"} \X ProfileKeys) \cup ({"bond"} \X {NodeKey})
      \cup ({"register", "set-build", "revoke-build", "transfer"} \X Titles)

Ask(u, t) ==
    /\ requests < MaxRequests /\ requests' = requests + 1 /\ job[u][t].at = "idle"
    /\ \E a \in Wishes : Goes(u, t, [at |-> "queued", op |-> a[1], thing |-> a[2], plan |-> <<>>])
    /\ UNCHANGED <<owner, bound, built, inPool, walletOf, abandoned, reverted>>

(* Mutation: requests of one user run side by side. *)
HasLock_Always(u) == TRUE
(* withLock *)
HasLock(u) == \A t \in Tabs : job[u][t].at \in {"idle", "queued"}

(* load, or create a wallet and write its file. *)
Created(u) == IF walletOf[u] # {} THEN {walletOf[u]}
              ELSE {{w} : w \in Wallets \ UNION {walletOf[v] : v \in Users}}

(* resolve: the AIR key is bound, and to the wallet that is here. *)
IsHeld(u) == u \in bound /\ owner[u] = walletOf[u]

(* What a request reads first makes the calls it will send, in order; none when
   there is nothing to do or it is refused. *)
SignIn(u) ==
    IF owner[u] = {} THEN <<"register", "bind">>
    ELSE IF u \notin bound THEN <<"bind-air", "bind">>
    ELSE IF IsHeld(u) THEN <<"bind">> ELSE <<>>

TitleCall(op) == CASE op = "set-build" -> "build" [] op = "transfer" -> "give" [] OTHER -> "unbuild"

(* bond: with the faucet or without; a bonded node may have lost its standing. *)
BondPlans ==
    LET top == IF owner[NodeKey] = {} THEN "bond" ELSE "stake"
    IN {<<"faucet", "approve", top, "delegate">>, <<"approve", top, "delegate">>}
         \cup {p \in {<<>>} : owner[NodeKey] # {}}

Plans(u, op, thing) ==
    IF op = "session" THEN {SignIn(u)}
    ELSE IF ~IsHeld(u) THEN {<<>>}
    ELSE IF op = "bond" THEN BondPlans
    ELSE {IF op = "revoke" /\ owner[thing] = walletOf[u] /\ thing \in bound THEN <<"unbind">>
          ELSE IF op = "register" /\ owner[thing] = {} THEN <<"claim">>
          ELSE IF op \in {"set-build", "revoke-build", "transfer"} /\ owner[thing] = walletOf[u]
          THEN <<TitleCall(op)>> ELSE <<>>}

Look(u, t) ==
    /\ job[u][t].at = "queued" /\ HasLock(u)
    /\ IF job[u][t].op = "session" /\ owner[u] = {}
       THEN \E w \in Created(u) : walletOf' = [walletOf EXCEPT ![u] = w]
       ELSE UNCHANGED walletOf
    /\ \E p \in Plans(u, job[u][t].op, job[u][t].thing) :
         Goes(u, t, IF p = <<>> THEN NoRequest ELSE [At(job[u][t], "ready") EXCEPT !.plan = p])
    /\ UNCHANGED <<owner, bound, built, inPool, requests, abandoned, reverted>>

(* fund fails (the sponsor cannot pay, or its nonce was taken), or an endpoint
   is down before the transaction is in a pool. *)
Fails(u, t) ==
    /\ job[u][t].at = "ready" /\ Goes(u, t, NoRequest)
    /\ UNCHANGED <<owner, bound, built, inPool, walletOf, requests, abandoned, reverted>>

Call(u, t) ==
    LET what == Head(job[u][t].plan)
    IN [what |-> what, user |-> u, tab |-> t, wallet |-> walletOf[u],
        thing |-> IF what \in {"register", "bind-air"} THEN u ELSE job[u][t].thing]

(* PlayerProfile, TitleRegistry and NodeStake, each modelled on its own: who may
   make the call now.  A profile exists once its AIR key has an owner. *)
Allowed(x) ==
    /\ x.what \in {"register", "claim", "bond"} => owner[x.thing] = {}
    /\ x.what \in {"unbind", "build", "unbuild", "give", "stake", "delegate"} =>
         owner[x.thing] = x.wallet
    /\ x.what \in {"bind", "bind-air"} => owner[x.user] # {} /\ owner[x.thing] \subseteq x.wallet
    /\ x.what = "unbind" => x.thing \in bound
    /\ x.what = "build" => x.thing \notin built
    /\ x.what = "unbuild" => x.thing \in built

(* A browser's key is left alone when another wallet holds it, or it is bound. *)
IsSkipped(x) ==
    /\ x.what = "bind" /\ owner[x.thing] # {}
    /\ owner[x.thing] = x.wallet => x.thing \in bound

(* A call the chain would refuse now fails at its estimate and is not sent; the
   answer to one that is sent may be lost, and the request fails then. *)
Send(u, t) ==
    LET x == Call(u, t) IN
    /\ job[u][t].at = "ready"
    /\ \/ IsSkipped(x) /\ Goes(u, t, Done(job[u][t])) /\ UNCHANGED <<inPool, abandoned>>
       \/ ~IsSkipped(x) /\ ~Allowed(x) /\ Goes(u, t, NoRequest) /\ UNCHANGED <<inPool, abandoned>>
       \/ /\ ~IsSkipped(x) /\ Allowed(x) /\ inPool' = inPool \cup {x}
          /\ \/ Goes(u, t, At(job[u][t], "sent")) /\ UNCHANGED abandoned
             \/ Goes(u, t, NoRequest) /\ abandoned' = abandoned \cup {u}
    /\ UNCHANGED <<owner, bound, built, walletOf, requests, reverted>>

(* The receipt did not come within RECEIPT_TIMEOUT_MS, or the read of it failed;
   the transaction may still be mined. *)
GivesUp(u, t) ==
    /\ job[u][t].at = "sent" /\ Goes(u, t, NoRequest)
    /\ abandoned' = abandoned \cup {u}
    /\ UNCHANGED <<owner, bound, built, inPool, walletOf, requests, reverted>>

Awaits(x) == job[x.user][x.tab].at = "sent" /\ Call(x.user, x.tab) = x

Mine(x) ==
    /\ x \in inPool /\ inPool' = inPool \ {x}
    /\ IF ~Allowed(x) THEN reverted' = reverted \cup {x} /\ UNCHANGED <<owner, bound, built>>
       ELSE /\ owner' = CASE x.what \in {"register", "bind-air", "bind", "claim", "bond"} ->
                               [owner EXCEPT ![x.thing] = x.wallet]
                          [] x.what = "give" -> [owner EXCEPT ![x.thing] = {Away}]
                          [] OTHER -> owner
            /\ bound' = CASE x.what \in {"register", "bind-air", "bind"} -> bound \cup {x.thing}
                           [] x.what = "unbind" -> bound \ {x.thing}
                           [] OTHER -> bound
            /\ built' = IF x.what \in {"claim", "build"} THEN built \cup {x.thing} ELSE built
            /\ UNCHANGED reverted
    /\ job' = IF ~Awaits(x) THEN job
              ELSE [job EXCEPT ![x.user][x.tab] = IF Allowed(x) THEN Done(@) ELSE NoRequest]
    /\ UNCHANGED <<walletOf, requests, abandoned>>

ProxyNext ==
    \/ \E u \in Users, t \in Tabs :
         Ask(u, t) \/ Look(u, t) \/ Fails(u, t) \/ Send(u, t) \/ GivesUp(u, t)
    \/ \E x \in inPool : Mine(x)

ProxySpec == ProxyInit /\ [][ProxyNext]_proxyVars

---------------------------------------------------------------------------
(* Properties. *)

(* Another account got there first. *)
IsTaken(x) == owner[x.thing] \notin {{}, x.wallet}

(* "Two tabs signing in together must not mint two profiles", nor pay for the
   attempt, and so for every request: a user pays for a call that reverts only
   when a transaction of that user was left unanswered, or another account took
   the key, the title or the node while the call was on its way. *)
NobodyPaysTwice == \A x \in reverted : x.user \in abandoned \/ IsTaken(x)

(* The AIR key of a user is bound to the wallet in the user's file, even when
   the transaction that bound it was given up for lost: this node can always
   sign for the profile. *)
CustodyStays == \A u \in Users : owner[u] \in {{}, walletOf[u]}
=============================================================================
