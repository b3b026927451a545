----------------------------- MODULE Placement -----------------------------
(* The queue, the placements and the commits of the nodes of a mesh
   (node/litnode.js matchesNow, absorbMatch, commitIfHost; protocol/pairing.js):
   players post an entry per bucket, entries reach the nodes in part and late,
   every node pairs the closed buckets it sees, placements travel to the other
   nodes, the drawn host of one commits it to the chain, and every node drops
   what is too old.  The clock counts buckets; all entries are for one title and
   the ranked mode. *)
EXTENDS Integers, FiniteSets, FiniteSetsExt

CONSTANTS MeshNodes, Players,  \* players are numbers: the order of their keys
          Home,                \* Home[p]: the node p's page talks to
          SpentBuckets,        \* buckets a placement spends around its own
          CommitWait,          \* buckets from hearing of a placement to its commit
          MatchTtl, QueueTtl,  \* buckets a book keeps a placement, and an entry is paired
          LastPost, LastBucket, MaxLost  \* bounds: the last bucket posted in, the clock,
                                         \* buckets in which gossip is late

ASSUME PlacementAssumption ==
    /\ Players \subseteq Nat /\ IsFiniteSet(Players) /\ Home \in [Players -> MeshNodes]
    /\ {SpentBuckets, CommitWait, MatchTtl, QueueTtl, LastPost, LastBucket, MaxLost} \subseteq Nat
    /\ CommitWait > 0   \* the wait of three seconds is longer than a bucket
    /\ QueueTtl + SpentBuckets <= MatchTtl + 2  \* a minute and four seconds, 15 minutes

Buckets == 0..LastBucket
Pairs == {P \in SUBSET Players : Cardinality(P) = 2}
Ids == Buckets \X Pairs   \* the beacon of its bucket and its players make the id
Entry == [host : MeshNodes, computed : Buckets, commitAt : Nat,
          commit : {"no", "sending", "done", "failed"}]
NoMatch == [host |-> "none"]

VARIABLES
  clock, late,
  queue,   \* queue[n]: entries <<bucket, player>> n holds
  book,    \* book[n][id]: the placement n holds under id
  told,    \* placements delivered since the last bucket: <<from, to, id>>
  commits, \* commits[n]: the ids n brought on chain
  unheard, \* those of them whose answer n never got: <<n, id>>
  made     \* the ids some node has computed, for the properties only

placementVars == <<clock, late, queue, book, told, commits, unheard, made>>

PlacementInit ==
    /\ clock = 0 /\ late = 0
    /\ queue = [n \in MeshNodes |-> {}]
    /\ book = [n \in MeshNodes |-> [id \in Ids |-> NoMatch]]
    /\ told = {}
    /\ commits = [n \in MeshNodes |-> {}] /\ unheard = {}
    /\ made = {}

Holds(n) == {id \in Ids : book[n][id] # NoMatch}
Seats(id) == id[2]
OnChain == UNION {commits[n] : n \in MeshNodes}

-----------------------------------------------------------------------------
(* The queue *)

(* A page posts one entry per bucket until its node shows it a match; gossip
   brings it to the other nodes before they pair the bucket, or it does not. *)
Post(p) ==
    /\ clock <= LastPost /\ \A n \in MeshNodes : <<clock, p>> \notin queue[n]
    /\ \A id \in Holds(Home[p]) : p \notin Seats(id)
    /\ \E reached \in SUBSET MeshNodes :
         queue' = [n \in MeshNodes |-> IF n \in reached \cup {Home[p]}
                                       THEN queue[n] \cup {<<clock, p>>} ELSE queue[n]]
    /\ UNCHANGED <<clock, late, book, told, commits, unheard, made>>

-----------------------------------------------------------------------------
(* Placements *)

(* What a placement spends of its players' entries: those up to two buckets past
   its own, and up to one past the bucket it was computed in. *)
IsSpent(n, p, b) ==
    \E id \in Holds(n) : /\ p \in Seats(id)
                         /\ b <= id[1] + SpentBuckets \/ b <= book[n][id].computed + 1

Waiting(n, b) == {p \in Players : <<b, p>> \in queue[n] /\ ~IsSpent(n, p, b)}

(* pair(): neighbours in key order, two by two. *)
Drawn(n, b) ==
    LET W == Waiting(n, b)
        Rank(p) == Cardinality({q \in W : q < p})
    IN {P \in Pairs : P \subseteq W /\ Rank(Max(P)) = Rank(Min(P)) + 1 /\ Rank(Min(P)) % 2 = 0}

IsClosed(b) == b < clock - 1
IsStale(b) == clock > b + QueueTtl
IsAged(e) == clock > e.computed + MatchTtl

Placed_AtOnce(n, id, host, computed) ==
    [host : {host}, computed : {computed}, commitAt : {clock}, commit : {"no"}]

(* What a node writes down of a placement it computed or adopted.  The host
   waits before it commits; one that finds it on chain already is done. *)
Placed(n, id, host, computed) ==
    [host : {host}, computed : {computed}, commitAt : {clock + CommitWait},
     commit : {"no"} \cup {x \in {"done"} : host = n /\ id \in OnChain}]

(* matchesNow, first: placements past their time leave the book, committed ones
   too, and entries nobody paired leave the queue. *)
Sweep(n) ==
    /\ book' = [book EXCEPT ![n] = [id \in Ids |->
                  IF id \in Holds(n) /\ IsAged(book[n][id]) THEN NoMatch ELSE book[n][id]]]
    /\ queue' = [queue EXCEPT ![n] = {e \in @ : ~IsStale(e[1])}]
    /\ UNCHANGED <<clock, late, told, commits, unheard, made>>

IsSwept(n) == \A id \in Holds(n) : ~IsAged(book[n][id])

(* Then: the earliest pair this node has no placement for, with the host drawn
   from this node's view of the mesh; its players leave the queue. *)
Compute(n) ==
    \E b \in Buckets : \E P \in Drawn(n, b), host \in MeshNodes :
      /\ IsSwept(n) /\ IsClosed(b) /\ ~IsStale(b) /\ <<b, P>> \notin Holds(n)
      /\ \E e \in Placed(n, <<b, P>>, host, clock) : book' = [book EXCEPT ![n][<<b, P>>] = e]
      /\ queue' = [queue EXCEPT ![n] = {e \in @ : e[2] \notin P}]
      /\ made' = made \cup {<<b, P>>}
      /\ UNCHANGED <<clock, late, told, commits, unheard>>

(* Two placements of one player in neighbouring buckets. *)
AreRivals(i, j) ==
    /\ i # j /\ Seats(i) \cap Seats(j) # {}
    /\ i[1] - j[1] \in -SpentBuckets..SpentBuckets

Rivals(n, id) == {r \in Holds(n) : AreRivals(r, id)}

Smaller(P, Q) == \/ Min(P) < Min(Q)
                 \/ Min(P) = Min(Q) /\ Max(P) < Max(Q)
Earlier(d, r) == d[1] < r[1] \/ (d[1] = r[1] /\ Smaller(d[2], r[2]))
Yields_Always(n, r) == TRUE
Yields(n, r) == book[n][r].commit \notin {"sending", "done"}

(* absorbMatch: one too old to keep is not taken; otherwise the earliest
   placement of a player stands, unless the later one is on chain or on its way.
   One rival is looked for, in the order the book holds them, and only that one
   makes room. *)
Tell(n, m, id) ==
    /\ n # m /\ id \in Holds(n)
    /\ <<n, m, id>> \notin told
    /\ told' = told \cup {<<n, m, id>>}
    /\ \E e \in Placed(m, id, book[n][id].host, book[n][id].computed) :
         IF id \in Holds(m) \/ IsAged(e) THEN UNCHANGED book
         ELSE IF Rivals(m, id) = {} THEN book' = [book EXCEPT ![m][id] = e]
         ELSE \E r \in Rivals(m, id) :
                IF Earlier(id, r) /\ Yields(m, r)
                THEN book' = [book EXCEPT ![m][r] = NoMatch, ![m][id] = e]
                ELSE UNCHANGED book
    /\ UNCHANGED <<clock, late, queue, commits, unheard, made>>

(* commitIfHost, by its one timer: the drawn host sends its commit once the wait
   is over, unless it reads the match on chain. *)
CommitPlaced(n) ==
    \E id \in Holds(n) : \E how \in {"sending"} \cup {x \in {"done"} : id \in OnChain} :
      /\ book[n][id].host = n /\ book[n][id].commit = "no" /\ clock >= book[n][id].commitAt
      /\ book' = [book EXCEPT ![n][id].commit = how]
      /\ UNCHANGED <<clock, late, queue, told, commits, unheard, made>>

(* The commit is mined and its hash returned; or there were too few seats, the
   send failed or the contract refuses an id it has; or the hash is lost and the
   commit mined.  No timer calls again after a failure. *)
CommitAnswered(n) ==
    \E id \in Holds(n), how \in {"done", "failed"} :
      /\ book[n][id].commit = "sending"
      /\ book' = [book EXCEPT ![n][id].commit = how]
      /\ \/ /\ id \notin OnChain /\ commits' = [commits EXCEPT ![n] = @ \cup {id}]
            /\ unheard' = IF how = "done" THEN unheard ELSE unheard \cup {<<n, id>>}
         \/ how = "failed" /\ UNCHANGED <<commits, unheard>>
      /\ UNCHANGED <<clock, late, queue, told, made>>

(* A send is answered, or given up, minutes before its placement is too old. *)
NoSendOutlives ==
    \A n \in MeshNodes : \A id \in Holds(n) :
      book[n][id].commit = "sending" => clock < book[n][id].computed + MatchTtl

(* Gossip runs every second and a bucket is two: before a bucket is over every
   node has told every other one what it held, except in MaxLost of them. *)
NextBucket ==
    /\ clock < LastBucket /\ clock' = clock + 1 /\ NoSendOutlives
    /\ IF \A n, m \in MeshNodes : n # m => \A id \in Holds(n) : <<n, m, id>> \in told
       THEN UNCHANGED late
       ELSE late < MaxLost /\ late' = late + 1
    /\ told' = {}
    /\ UNCHANGED <<queue, book, commits, unheard, made>>

PlacementNext ==
    \/ \E p \in Players : Post(p)
    \/ \E n \in MeshNodes : Sweep(n) \/ Compute(n) \/ CommitPlaced(n) \/ CommitAnswered(n)
    \/ \E n, m \in MeshNodes, id \in Ids : Tell(n, m, id)
    \/ NextBucket

PlacementSpec == PlacementInit /\ [][PlacementNext]_placementVars

-----------------------------------------------------------------------------
(* Properties *)

PlacementTypeOK ==
    /\ clock \in Buckets /\ late \in 0..MaxLost
    /\ queue \in [MeshNodes -> SUBSET (Buckets \X Players)]
    /\ book \in [MeshNodes -> [Ids -> Entry \cup {NoMatch}]]
    /\ told \subseteq MeshNodes \X MeshNodes \X Ids
    /\ commits \in [MeshNodes -> SUBSET Ids] /\ made \subseteq Ids
    /\ unheard \subseteq MeshNodes \X Ids

(* "one placement per pair stands on every node" (absorbMatch): no node's book
   seats a player twice within neighbouring buckets. *)
OneSeatPerPlayer ==
    \A n \in MeshNodes : \A i, j \in Holds(n) : ~AreRivals(i, j)

(* The mesh has paired the same players twice, or three players round, and never
   one player with a second whom it paired with a third: whoever is a rival of a
   rival is a rival. *)
RivalsOfRivals ==
    \A i, j, k \in made : AreRivals(i, j) /\ AreRivals(j, k) => i = k \/ AreRivals(i, k)

(* While gossip is on time, the wait before a commit is long enough for the
   earliest of the placements of the same players to arrive everywhere: nobody
   pays for two commits of one player's neighbouring buckets, on whichever
   nodes.  A placement with two rivals that are none of each other is what
   absorbMatch has no answer for (OneSeatPerPlayer), and then two are paid. *)
OneCommitPerPlayer ==
    late = 0 /\ RivalsOfRivals => \A i, j \in OnChain : ~AreRivals(i, j)

IsPast(id) == clock > id[1] + 2 + MatchTtl

(* "Once committed, a placement is never replaced": what a node brought on chain
   it keeps in its book, whatever it hears later and however late, until the
   placement's own time is over: the host serves the match the chain holds it
   to.  A commit whose hash the host never got counts as failed there, and such
   a placement may be replaced; the property is about the others. *)
CommittedStands ==
    \A n \in MeshNodes : \A id \in commits[n] :
      <<n, id>> \notin unheard => id \in Holds(n) \/ IsPast(id)

(* The same without the exception: a lost hash breaks it (see the README). *)
UnheardStands ==
    \A n \in MeshNodes : \A id \in commits[n] : id \in Holds(n) \/ IsPast(id)

=============================================================================
