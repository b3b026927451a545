------------------------------ MODULE MCHourly ------------------------------
(* HourlyRoot on three nodes whose bonds rest, two matches and two hours. *)
EXTENDS HourlyRoot, TLC

CONSTANTS n1, n2, n3, op1, admin, none, zero, m1, m2

MCKey == {n1, n2, n3}
MCAddress == {op1, admin}
Nothing == {}
MCMatch == {m1, m2}
OneMatch == {m1}
Roots == [results: SUBSET MCMatch, stats: SUBSET MCMatch]
OneMatchRoots == [results: SUBSET OneMatch, stats: SUBSET OneMatch]
TwoHours == {1, 2}
OneHour == {1}
Seconds == {1}
Third == {n3}
Symmetric == Permutations({n1, n2}) \cup Permutations(MCMatch)

Fleet(amt) ==
    [node |-> [k \in MCKey |-> [operator |-> op1, delegate |-> none, amount |-> amt[k],
                                bondedSince |-> 1, lastStakedAt |-> 1, unbondAt |-> 0]],
     totalActive |-> TotalOf(MCKey, amt), vault |-> TotalOf(MCKey, amt),
     adjudicators |-> {},
     terms |-> [minStake |-> 1, lockTerm |-> 1, eligibilityAge |-> 1,
                unbondingPeriod |-> 1, admin |-> admin, treasury |-> admin],
     wallet |-> [a \in MCAddress |-> 0],
     now |-> MaxTerm + 1]
Even == Fleet([k \in MCKey |-> 1])
TwoThirds == [bps |-> 6000, admin |-> admin]
All == [bps |-> 10000, admin |-> admin]
=============================================================================
