---------------------------- MODULE MCMatchBook ----------------------------
(* MatchBook on small fleets that bonded and enrolled before the run starts. *)
EXTENDS MatchBook, TLC

CONSTANTS h1, w1, w2, w3, s1, s2, s3, s4, x1,   \* keys
          oh, o1, o2, o3, p1, p2, p3,            \* their operators
          admin, treasury, book, none,
          good, bad, odd, zero, m1

Wallets == {oh, o1, o2, o3, p1, p2, p3}
MCAddress == Wallets \cup {admin, treasury, book}
Nothing == {}
OneMatch == {m1}
MCHash == {good, bad}
HashSymmetry == Permutations(MCHash)
Panel == {w1, w2, w3}

(* Who runs which key; x1 is a second key of the host's operator and s4 a
   second key of s3's. *)
Runs == h1 :> oh @@ x1 :> oh @@ w1 :> o1 @@ w2 :> o2 @@ w3 :> o3
        @@ s1 :> p1 @@ s2 :> p2 @@ s3 :> p3 @@ s4 :> p3
Bonded(op, amt) == [operator |-> op, delegate |-> none, amount |-> amt,
                    bondedSince |-> 1, lastStakedAt |-> 1, unbondAt |-> 0]
Fleet(keys, amt) ==
    [node |-> [k \in keys |-> Bonded(Runs[k], amt[k])],
     totalActive |-> TotalOf(keys, amt),
     vault |-> TotalOf(keys, amt),
     adjudicators |-> {book},
     terms |-> [minStake |-> 1, lockTerm |-> 1, eligibilityAge |-> 1,
                unbondingPeriod |-> MaxTerm, admin |-> admin, treasury |-> treasury],
     wallet |-> [a \in MCAddress |-> 0],
     now |-> MaxTerm + 1]

Windows == [settleWindow |-> 1, attestWindow |-> 1, escalationWindow |-> 2, drawDelay |-> 1,
            hostSlashBps |-> 10000, witnessSlashBps |-> 5000, admin |-> admin]
Opened(enrolled) ==
    [params |-> Windows, maxPool |-> MaxPoolCap, pool |-> enrolled, height |-> 1]
Seconds == {1}
Equal(keys) == [k \in keys |-> 2]

(* Verdict: every dispute of one match, bonds at rest. *)
VerdictKey == {h1, x1, w1, w2, w3, s1, s2, s3, s4}
VerdictGenesis == Fleet(VerdictKey, [k \in VerdictKey |-> IF k \in {s1, s4} THEN 3 ELSE 2])
VerdictBook == Opened({x1, s1, s2, s3, s4})
VerdictOffers == {<<h1, Panel>>, <<h1, {x1, w1, w2}>>, <<h1, {s3, s4, w1}>>}

(* Prompt: a witness leaves while a match is open, witnesses join and leave
   the pool, and callers do not sleep. *)
PromptKey == {h1, w1, w2, w3, s1, s2}
PromptGenesis == Fleet(PromptKey, Equal(PromptKey))
PromptBook == [Opened({s1, s2}) EXCEPT !.params.settleWindow = 0, !.maxPool = 2]
PromptMovers == {w1}
PromptEnrollers == {w1, s1}
PromptCeilings == {1}
PromptOffers == {<<h1, Panel>>}

(* Outlast: the same fleet, and nobody has to call in time. *)

(* Rotate: the host's operator hands its key to a wallet that runs a seat. *)
RotateMovers == {h1}
RotateWallets == {p1}

(* Shift: the ground moves under one match and under the vote on it.  The
   admin shortens its windows; a seat's bond is topped up, handed to another
   wallet or withdrawn.  Two small seats and a large one over three answers
   give ties, three-way splits without a majority, lone voters, and a single
   seat that outweighs two.  The witnesses of the panel are alike. *)
ShiftHash == MCHash \cup {odd}
ShiftKey == {h1, w1, w2, w3, s1, s2, s3}
ShiftGenesis ==
    [Fleet(ShiftKey, [k \in ShiftKey |-> IF k = s3 THEN 5 ELSE 2]) EXCEPT !.wallet[p1] = 1]
ShiftBook == [Opened({s1, s2, s3}) EXCEPT !.params.settleWindow = 0]
ShiftBookTerms == {[ShiftBook.params EXCEPT !.escalationWindow = 1]}
ShiftMovers == {s1}
ShiftWallets == {p2}
Swapped(j, k, p, q) == j :> k @@ k :> j @@ p :> q @@ q :> p
ShiftSymmetry ==
    Permutations(ShiftHash) \cup {Swapped(w1, w2, o1, o2), Swapped(w2, w3, o2, o3)}
=============================================================================
