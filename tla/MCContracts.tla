----------------------------- MODULE MCContracts -----------------------------
(* The contracts beside the bond ledger and the match book: the hourly roots,
   the gas refunds, the titles, the player profiles and the characters.  None
   of them reads another's state but EpochAnchor, which reads the bonds; each
   behaviour is one of one contract, which Init picks. *)
EXTENDS EpochAnchor, GasRefund, TitleRegistry, PlayerProfile, CharacterRegistry, TLC

VARIABLE part

contractVars == <<part, allVars, refundVars, titleVars, profileVars, characterVars>>

-----------------------------------------------------------------------------
(* The hourly roots: three node keys of three operators. *)

CONSTANTS k1, k2, k3, op1, op2, op3, admin, treasury, none, good, bad, zero

MCKey == {k1, k2, k3}
MCAddress == {op1, op2, op3, admin, treasury}
Nothing == {}
OneHour == {1}
TwoRoots == {good, bad}
RootSymmetry == Permutations(TwoRoots)
Seconds == {1}
Runs == k1 :> op1 @@ k2 :> op2 @@ k3 :> op3

Held(amt, k) == [operator |-> Runs[k], delegate |-> none, amount |-> amt,
                 bondedSince |-> IF amt = 0 THEN 0 ELSE 1,
                 lastStakedAt |-> IF amt = 0 THEN 0 ELSE 1, unbondAt |-> 0]
Fleet(amt, free) ==
    [node |-> [k \in MCKey |-> Held(amt[k], k)],
     totalActive |-> TotalOf(MCKey, amt), vault |-> TotalOf(MCKey, amt),
     adjudicators |-> {},
     terms |-> [minStake |-> 0, lockTerm |-> MaxTerm, eligibilityAge |-> 1,
                unbondingPeriod |-> 1, admin |-> admin, treasury |-> treasury],
     wallet |-> [a \in MCAddress |-> IF a \in {op1, op2} THEN free ELSE 0],
     now |-> MaxTerm + 1]
HalfOf == [bps |-> 5000, admin |-> admin]
QuorumChoices == {5000, 6667, 10000}
Amounts12 == {1, 2}

(* Grow: three keys whose operators withdrew come back, and stake comes in
   while roots are proposed. *)
GrowGenesis == Fleet([k \in MCKey |-> 0], 2)
GrowDelegates == {op3}
GrowJudges == {treasury}

(* Rest: bonds of 1, 2 and 3 that stay as they are. *)
RestGenesis == Fleet(k1 :> 1 @@ k2 :> 2 @@ k3 :> 3, 0)

(* Leave: the second key may leave once it has proposed. *)
LeaveMovers == {k2}
LeaveGenesis == [RestGenesis EXCEPT !.terms.lockTerm = 1]

-----------------------------------------------------------------------------
(* The refunds of two matches with a seat in common *)

CONSTANTS ka, kb, kc
TwoMatches == "m1" :> <<ka, kb>> @@ "m2" :> <<kb, kc>>

-----------------------------------------------------------------------------

ContractsInit ==
    /\ part \in {"anchor", "refund", "titles", "profiles", "characters"}
    /\ Init /\ AnchorInit /\ RefundInit /\ TitleInit /\ ProfileInit /\ CharacterInit
    /\ part # "refund" => \A other \in Caps : cap <= other
    /\ part # "characters" => \E u \in Users : gearOwner = [g \in Gear |-> u]

ContractsNext ==
    /\ UNCHANGED part
    /\ \/ /\ part = "anchor" /\ AnchorNext
          /\ UNCHANGED <<refundVars, titleVars, profileVars, characterVars>>
       \/ /\ part = "refund" /\ RefundNext
          /\ UNCHANGED <<allVars, titleVars, profileVars, characterVars>>
       \/ /\ part = "titles" /\ TitleNext
          /\ UNCHANGED <<allVars, refundVars, profileVars, characterVars>>
       \/ /\ part = "profiles" /\ ProfileNext
          /\ UNCHANGED <<allVars, refundVars, titleVars, characterVars>>
       \/ /\ part = "characters" /\ CharacterNext
          /\ UNCHANGED <<allVars, refundVars, titleVars, profileVars>>

ContractsSpec == ContractsInit /\ [][ContractsNext]_contractVars

(* Each contract's storage is what it declares. *)
ContractsTypeOK ==
    AnchorTypeOK /\ RefundTypeOK /\ TitleTypeOK /\ ProfileTypeOK /\ CharacterTypeOK
=============================================================================
