------------------------------ MODULE GasRefund ------------------------------
(* contracts/GasRefund.sol: the treasury pays the seats of a FINAL match their
   gas back.  A claim reckons every share first and then pays seat by seat; a
   payee may be a contract whose code runs in the middle of the claim, calls
   back, and at last accepts or refuses its share.  Only a call that is not
   running may begin another day. *)
EXTENDS Naturals, Sequences, FiniteSets

CONSTANTS Finals,      \* matches MatchBook calls FINAL
          NodeKeys, Seated,   \* Seated[m]: its paid seats, the host first
          Share, ClaimShare,  \* wei a seat's gas comes to, and a claim's
          Callbacks,   \* keys whose delegate is a contract with code of its own
          Admins,      \* those of them that administer this contract
          Caps,        \* values of dailyCapWei
          Fund0, MaxFund, LastDay  \* bounds

ASSUME RefundAssumption ==
    /\ Seated \in [Finals -> Seq(NodeKeys) \ {<<>>}]
    /\ \A m \in Finals : \A i, j \in DOMAIN Seated[m] : i # j => Seated[m][i] # Seated[m][j]
    /\ Share \in Nat \ {0} /\ ClaimShare \in Nat /\ Caps \subseteq Nat /\ Caps # {}
    /\ Admins \subseteq Callbacks /\ Callbacks \subseteq NodeKeys
    /\ {Fund0, MaxFund, LastDay} \subseteq Nat

VARIABLES
  funds,     \* the contract's balance
  claimed,   \* matches refunded
  refundedOn,\* refundedOn[k]: what k was paid today
  cap, highCap,   \* dailyCapWei, and its highest value today
  paused,
  calls,     \* claims running, the innermost last: [of, owed, at]
  day

refundVars == <<funds, claimed, refundedOn, cap, highCap, paused, calls, day>>

NoWei == [k \in NodeKeys |-> 0]

RefundInit ==
    /\ funds = Fund0 /\ claimed = {} /\ refundedOn = NoWei
    /\ cap \in Caps /\ highCap = cap
    /\ paused = FALSE /\ calls = <<>> /\ day = 0

(* Whose turn it is: a transaction of anyone, or the code of the seat that the
   innermost claim is paying. *)
Depth == Len(calls)
Running == calls[Depth]
PayeeOf(c) == Seated[c.of][c.at]
InCallback == Depth > 0 /\ Running.inside
MayBegin == Depth = 0 \/ InCallback
AdminTurn == IF Depth = 0 THEN TRUE ELSE InCallback /\ PayeeOf(Running) \in Admins

Least(a, b) == IF a < b THEN a ELSE b
Capped(k, amount) == IF refundedOn[k] >= cap THEN 0 ELSE Least(amount, cap - refundedOn[k])
Owed(m, caller) ==
    [i \in DOMAIN Seated[m] |->
       Capped(Seated[m][i], Share + IF Seated[m][i] = caller THEN ClaimShare ELSE 0)]
SumOf(s) == LET Upto[i \in 0..Len(s)] == IF i = 0 THEN 0 ELSE Upto[i - 1] + s[i] IN Upto[Len(s)]

Entered_Never == FALSE
Entered == Depth > 0

Claim(m, caller) ==
    /\ MayBegin /\ ~Entered /\ ~paused /\ m \notin claimed
    /\ SumOf(Owed(m, caller)) <= funds
    /\ claimed' = claimed \cup {m}
    /\ calls' = Append(calls, [of |-> m, owed |-> Owed(m, caller), at |-> 1, inside |-> FALSE])
    /\ UNCHANGED <<funds, refundedOn, cap, highCap, paused, day>>

NextSeat(c) == [of |-> c.of, owed |-> c.owed, at |-> c.at + 1, inside |-> FALSE]
Onward(c) == SubSeq(calls, 1, Depth - 1) \o (IF c.at < Len(c.owed) THEN <<NextSeat(c)>> ELSE <<>>)

(* One turn of the loop.  A seat that is owed nothing, that nobody holds any
   more, that refuses (and so undoes whatever its code did), or that the
   balance no longer covers, is skipped: what was counted for it is taken back. *)
Skip ==
    /\ Depth > 0 /\ ~Running.inside
    /\ calls' = Onward(Running)
    /\ UNCHANGED <<funds, claimed, refundedOn, cap, highCap, paused, day>>

PaySeat ==
    LET k == PayeeOf(Running)  wei == Running.owed[Running.at] IN
    /\ Depth > 0 /\ ~Running.inside /\ 0 < wei /\ wei <= funds
    /\ funds' = funds - wei
    /\ refundedOn' = [refundedOn EXCEPT ![k] = @ + wei]
    /\ calls' = IF k \in Callbacks THEN [calls EXCEPT ![Depth].inside = TRUE] ELSE Onward(Running)
    /\ UNCHANGED <<claimed, cap, highCap, paused, day>>

(* The payee's code is done; what it called stays done. *)
Accepted ==
    /\ InCallback /\ calls' = Onward(Running)
    /\ UNCHANGED <<funds, claimed, refundedOn, cap, highCap, paused, day>>

Deposit ==
    /\ MayBegin /\ funds < MaxFund /\ funds' = funds + 1
    /\ UNCHANGED <<claimed, refundedOn, cap, highCap, paused, calls, day>>

WithdrawFunds ==
    /\ MayBegin /\ AdminTurn
    /\ \E wei \in 1..funds : funds' = funds - wei
    /\ UNCHANGED <<claimed, refundedOn, cap, highCap, paused, calls, day>>

SetCap ==
    /\ MayBegin /\ AdminTurn
    /\ cap' \in Caps /\ highCap' = IF cap' > highCap THEN cap' ELSE highCap
    /\ UNCHANGED <<funds, claimed, refundedOn, paused, calls, day>>

SetPaused ==
    /\ MayBegin /\ AdminTurn /\ paused' = ~paused
    /\ UNCHANGED <<funds, claimed, refundedOn, cap, highCap, calls, day>>

NextDay ==
    /\ Depth = 0 /\ day < LastDay /\ day' = day + 1
    /\ refundedOn' = NoWei /\ highCap' = cap
    /\ UNCHANGED <<funds, claimed, cap, paused, calls>>

RefundNext ==
    \/ \E m \in Finals, k \in NodeKeys : Claim(m, k)
    \/ Skip \/ PaySeat \/ Accepted
    \/ Deposit \/ WithdrawFunds \/ SetCap \/ SetPaused \/ NextDay

RefundSpec == RefundInit /\ [][RefundNext]_refundVars

-----------------------------------------------------------------------------
(* Properties *)

RefundTypeOK ==
    /\ funds \in 0..MaxFund /\ claimed \subseteq Finals /\ day \in 0..LastDay
    /\ refundedOn \in [NodeKeys -> Nat] /\ {cap, highCap} \subseteq Caps
    /\ paused \in BOOLEAN
    /\ \A i \in DOMAIN calls : calls[i].of \in claimed /\ calls[i].at \in DOMAIN Seated[calls[i].of]

(* "at most dailyCapWei per node key per UTC day": no key is paid more in a day
   than the highest cap of that day, although a claim reckons its shares before
   it pays them and a payee's code may run in between. *)
CapHolds == \A k \in NodeKeys : refundedOn[k] <= highCap

=============================================================================
