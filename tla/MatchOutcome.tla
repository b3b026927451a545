----------------------------- MODULE MatchOutcome -----------------------------
(***************************************************************************)
(* What MatchBook promises of a match to a reader of the ladder, with none *)
(* of its windows, panels and draws: the host claims one result, once;     *)
(* bonded keys vote on the claim, each once; and at most one verdict ever  *)
(* falls, after which nothing about the match changes.  A claim becomes    *)
(* final only with a vote for it.                                          *)
(***************************************************************************)
CONSTANTS Match, Key, Hash, NoHash

VARIABLES claim, votes, verdict

outcomeVars == <<claim, votes, verdict>>

Init ==
    /\ claim = [m \in Match |-> NoHash]
    /\ votes = [m \in Match |-> [k \in Key |-> NoHash]]
    /\ verdict = [m \in Match |-> "open"]

Open(m) == verdict[m] = "open"

Claim(m, h) ==
    /\ Open(m) /\ claim[m] = NoHash
    /\ claim' = [claim EXCEPT ![m] = h]
    /\ UNCHANGED <<votes, verdict>>

Vote(m, k, h) ==
    /\ Open(m) /\ claim[m] # NoHash
    /\ votes[m][k] = NoHash
    /\ votes' = [votes EXCEPT ![m][k] = h]
    /\ UNCHANGED <<claim, verdict>>

Accept(m) ==
    /\ Open(m) /\ claim[m] # NoHash
    /\ \E k \in Key : votes[m][k] = claim[m]
    /\ verdict' = [verdict EXCEPT ![m] = "final"]
    /\ UNCHANGED <<claim, votes>>

Annul(m) ==
    /\ Open(m)
    /\ verdict' = [verdict EXCEPT ![m] = "void"]
    /\ UNCHANGED <<claim, votes>>

Next ==
    \E m \in Match :
        \/ \E h \in Hash : Claim(m, h) \/ \E k \in Key : Vote(m, k, h)
        \/ Accept(m)
        \/ Annul(m)

Spec == Init /\ [][Next]_outcomeVars
=============================================================================
