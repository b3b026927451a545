---------------------------- MODULE MCNodeStake ----------------------------
(* NodeStake from the empty contract: two keys, the wallets of two operators,
   an admin that switches between strict and lax terms, one adjudicator. *)
EXTENDS NodeStake, TLC

CONSTANTS k1, k2, op1, op2, admin, treasury, book, none

MCKey == {k1, k2}
MCAddress == {op1, op2, admin, treasury, book}
MCSigned == {<<k1, op1>>, <<k2, op2>>}
MCAmounts == {1, 2}
MCSlashRates == {5000, 10000}
MCDelegates == {}
MCTakers == {op2}
MCJudges == {}
MCBlockTimes == {1}

Strict == [minStake |-> 2, lockTerm |-> 1, eligibilityAge |-> 1,
           unbondingPeriod |-> 1, admin |-> admin, treasury |-> treasury]
Lax == [Strict EXCEPT !.minStake = 1, !.lockTerm = 0, !.unbondingPeriod = 2]
MCTerms == {Strict, Lax}

MCGenesis ==
    [node |-> [k \in MCKey |-> Unbound], totalActive |-> 0,
     adjudicators |-> {book}, terms |-> Strict,
     wallet |-> (op1 :> 3 @@ op2 :> 1 @@ [a \in MCAddress |-> 0]),
     vault |-> 0, now |-> 3]
=============================================================================
