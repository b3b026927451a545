------------------------------- MODULE RpcPool -------------------------------
(* A node's reads of the chain (node/chain.js call, post) and the scan of
   MatchBook's events that trusts them (node/matchbook.js read, scan).  Several
   endpoints, the first preferred: one that fails is benched, one that limits
   the node is paused, one that lags may not answer for blocks it does not
   have.  Calls of different parts of the node interleave at every answer.
   Benches and pauses are counted down, one unit per Tick. *)
EXTENDS Integers, FiniteSetsExt

CONSTANTS Endpoints,  \* 1..n, in the order of preference
          Readers,    \* the parts of the node that read, but for the scan
          Tries,      \* rounds over the endpoints before a call gives up
          Longest,    \* the longest bench or pause, in units of the clock
          ScanRange,  \* blocks of one scan
          Tip         \* bound: the highest block of the run; a block is an event

ASSUME RpcAssumption ==
    /\ Endpoints \subseteq Nat \ {0} /\ IsFiniteSet(Endpoints) /\ Endpoints # {}
    /\ {Tries, Longest, ScanRange, Tip} \subseteq Nat \ {0}
    /\ "scan" \notin Readers

Parts == Readers \cup {"scan"}
Unknown == -1

VARIABLES
  height,  \* height[e]: the blocks endpoint e has, which the node cannot see
  pool,    \* pool[e]: what the node keeps about e
  call,    \* call[c]: the call c waits for
  cursor,  \* the last block scanned
  scanned     \* the events the scan absorbed

rpcVars == <<height, pool, call, cursor, scanned>>

NotAsked == [e \in {} |-> 0]
Clean == [bench |-> 0, pause |-> 0, head |-> Unknown]
NoCall == [at |-> "idle", method |-> "none", to |-> 0, ep |-> 0, left |-> NotAsked,
           round |-> 0, limited |-> FALSE]
Asked(method, to) == [NoCall EXCEPT !.method = method, !.to = to, !.round = 1]

RpcInit ==
    /\ height = [e \in Endpoints |-> 0]
    /\ pool = [e \in Endpoints |-> Clean]
    /\ call = [c \in Parts |-> NoCall]
    /\ cursor = 0 /\ scanned = {}

(* usable: those not benched in order of preference, then the one back soonest;
   those paused are left out.  Each has the place a round begins with. *)
Open(P) == {e \in Endpoints : P[e].pause = 0}
Before(P, e, f) == \/ P[e].bench < P[f].bench
                   \/ P[e].bench = P[f].bench /\ e < f
Usable(P) == [e \in Open(P) |-> Cardinality({f \in Open(P) : Before(P, f, e)})]
NextOf(left) == CHOOSE e \in DOMAIN left : \A f \in DOMAIN left : left[e] <= left[f]

-----------------------------------------------------------------------------
(* A call *)

(* A numbered range is only asked of an endpoint known to have reached its end;
   with one endpoint nobody asks. *)
HeadFirst_Never(P, C, e) == FALSE
HeadFirst(P, C, e) ==
    C.method = "logs" /\ Cardinality(Endpoints) > 1 /\ P[e].head < C.to

(* The next of the endpoints that were open when the round began. *)
Turn(P, C) ==
    LET e == NextOf(C.left)
    IN [C EXCEPT !.ep = e, !.left = Restrict(C.left, DOMAIN C.left \ {e}),
                 !.at = IF HeadFirst(P, C, e) THEN "asking head" ELSE "asking"]

(* A round over the open endpoints; with none the call fails at once. *)
Round(P, C) == IF Open(P) = {} THEN NoCall ELSE Turn(P, [C EXCEPT !.left = Usable(P)])

(* After an endpoint failed: the next one, a pause before the next round, or
   the end.  A call that every endpoint limits is not repeated. *)
MoveOn(c, P, C) ==
    /\ pool' = P
    /\ call' = [call EXCEPT ![c] =
         IF DOMAIN C.left # {} THEN Turn(P, C)
         ELSE IF (C.limited /\ Open(P) = {}) \/ C.round >= Tries THEN NoCall
         ELSE [C EXCEPT !.at = "sleeping", !.ep = 0]]

Wake(c) ==
    /\ call[c].at = "sleeping"
    /\ call' = [call EXCEPT ![c] = Round(pool, [call[c] EXCEPT !.round = @ + 1])]
    /\ UNCHANGED <<height, pool, cursor, scanned>>

Waiting(c) == call[c].at \in {"asking", "asking head"}

(* How long grows with the failures in a row; here any length is possible. *)
Benched(e, n) == [pool EXCEPT ![e].bench = IF Cardinality(Endpoints) > 1 THEN n ELSE @]
Paused(e, n) == [pool EXCEPT ![e].pause = n]

(* Any answer, a revert too, clears what was held against the endpoint. *)
Answered(e, head) == [pool EXCEPT ![e] = [Clean EXCEPT !.head = Max({pool[e].head, head})]]

(* A timeout, a reset, a page that is no JSON. *)
Fail(c) ==
    /\ Waiting(c)
    /\ \E n \in 1..Longest :
         MoveOn(c, Benched(call[c].ep, n), [call[c] EXCEPT !.limited = FALSE])
    /\ UNCHANGED <<height, cursor, scanned>>

(* 429, or an error that names a limit. *)
Limit(c) ==
    /\ Waiting(c)
    /\ \E n \in 1..Longest :
         MoveOn(c, Paused(call[c].ep, n), [call[c] EXCEPT !.limited = TRUE])
    /\ UNCHANGED <<height, cursor, scanned>>

(* The head asked first: the endpoint is behind and the call moves on, or it
   is asked the call itself. *)
HeadAnswer(c) ==
    LET C == call[c]
        P == Answered(C.ep, height[C.ep])
    IN
    /\ C.at = "asking head"
    /\ IF P[C.ep].head < C.to
       THEN MoveOn(c, P, [C EXCEPT !.limited = FALSE])
       ELSE pool' = P /\ call' = [call EXCEPT ![c].at = "asking"]
    /\ UNCHANGED <<height, cursor, scanned>>

(* A read of another part of the node; a value and a revert both end it. *)
Read(c) ==
    /\ call[c].at = "idle"
    /\ call' = [call EXCEPT ![c] = Round(pool, Asked("read", 0))]
    /\ UNCHANGED <<height, pool, cursor, scanned>>

ReadAnswer(c) ==
    /\ call[c].at = "asking" /\ call[c].method = "read"
    /\ pool' = Answered(call[c].ep, Unknown)
    /\ call' = [call EXCEPT ![c] = NoCall]
    /\ UNCHANGED <<height, cursor, scanned>>

-----------------------------------------------------------------------------
(* The scan: a head from whichever endpoint is asked, then the events up to it *)

ScanBegin ==
    /\ call["scan"].at = "idle"
    /\ call' = [call EXCEPT !["scan"] = Round(pool, Asked("head", 0))]
    /\ UNCHANGED <<height, pool, cursor, scanned>>

ScanHead ==
    LET C == call["scan"]
        head == height[C.ep]
        P == Answered(C.ep, head)
    IN
    /\ C.at = "asking" /\ C.method = "head"
    /\ pool' = P
    /\ call' = [call EXCEPT !["scan"] =
                  IF cursor >= head THEN NoCall
                  ELSE Round(P, Asked("logs", Min({head, cursor + ScanRange})))]
    /\ UNCHANGED <<height, cursor, scanned>>

(* The events of the blocks the endpoint has; the cursor moves past the range. *)
ScanLogs ==
    LET C == call["scan"]
    IN
    /\ C.at = "asking" /\ C.method = "logs"
    /\ scanned' = scanned \cup (cursor + 1)..Min({C.to, height[C.ep]})
    /\ cursor' = C.to
    /\ pool' = Answered(C.ep, Unknown)
    /\ call' = [call EXCEPT !["scan"] = NoCall]
    /\ UNCHANGED height

-----------------------------------------------------------------------------
(* The endpoints and time *)

Grow(e) ==
    /\ height[e] < Tip /\ height' = [height EXCEPT ![e] = @ + 1]
    /\ UNCHANGED <<pool, call, cursor, scanned>>

Tick ==
    /\ \E e \in Endpoints : pool[e].bench > 0 \/ pool[e].pause > 0
    /\ pool' = [e \in Endpoints |-> [pool[e] EXCEPT !.bench = Max({0, @ - 1}),
                                                    !.pause = Max({0, @ - 1})]]
    /\ UNCHANGED <<height, call, cursor, scanned>>

RpcNext ==
    \/ \E c \in Parts : Wake(c) \/ Fail(c) \/ Limit(c) \/ HeadAnswer(c)
    \/ \E c \in Readers : Read(c) \/ ReadAnswer(c)
    \/ ScanBegin \/ ScanHead \/ ScanLogs
    \/ \E e \in Endpoints : Grow(e)
    \/ Tick

RpcSpec == RpcInit /\ [][RpcNext]_rpcVars

-----------------------------------------------------------------------------
(* Properties *)

RpcTypeOK ==
    /\ height \in [Endpoints -> 0..Tip]
    /\ \A e \in Endpoints :
         /\ {pool[e].bench, pool[e].pause} \subseteq 0..Longest
         /\ pool[e].head \in Unknown..height[e]
    /\ \A c \in Parts : Waiting(c) => call[c].ep \in Endpoints \ DOMAIN call[c].left
    /\ cursor \in 0..Tip /\ scanned \subseteq 1..Tip

(* "a fallback a few blocks behind answers [] for blocks it does not have yet,
   and MatchBook's cursor would move past events it never saw" (call): whatever
   endpoint answers, every event up to the cursor has been absorbed. *)
ScanComplete == 1..cursor \subseteq scanned

(* "nothing is sent to it meanwhile" (RATE_MS): a paused endpoint is asked
   nothing new. *)
PausedIsLeftAlone ==
    [][\A c \in Parts :
         Waiting(c)' /\ (call'[c].ep # call[c].ep \/ call'[c].round # call[c].round)
           => pool[call'[c].ep].pause = 0]_rpcVars

=============================================================================
