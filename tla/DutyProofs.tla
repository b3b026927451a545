----------------------------- MODULE DutyProofs -----------------------------
(* Theorems about MatchDuty for every host, panel, number of answers and
   number of faults: whom the chain names as a custodian has the ledger, a
   node that restarts keeps its duty, and a held settle is not overtaken by its
   window.  The last two need to know what the event log and the host's duty
   may hold while the match is only committed.  And one about the match servers
   a host starts (Gauntlet). *)
EXTENDS MatchDuty, Gauntlet, TLAPS

ChainRec == [status : Open \cup Over, age : 0..2, yes : SUBSET Seats, no : SUBSET Seats,
             extended : BOOLEAN, custodians : SUBSET Seats, unsettled : BOOLEAN]
TxRec == [from : Nodes, step : Steps, holders : SUBSET Seats]
CustodyRec == [state : {"unplayed", "waiting", "closed", "direct", "late", "skipped", "given up"},
               committed : BOOLEAN, need : Nat, holders : SUBSET Seats, tries : Nat]

DutyTypes ==
    /\ chain \in ChainRec
    /\ log \in Seq(Events)
    /\ pool \in SUBSET TxRec
    /\ heard \in [Nodes -> SUBSET DOMAIN log]
    /\ duty \in [Nodes -> DutyStatus] /\ saved \in [Nodes -> DutyStatus]
    /\ held \in SUBSET Nodes
    /\ custody \in CustodyRec
    /\ faults \in Nat

-----------------------------------------------------------------------------
(* What a mined transaction does to the match *)

Refused == chain' = chain /\ log' = log
Grew == \E e \in Events : log' = Append(log, e)

SettledBy(t) ==
    /\ chain.status = "committed" /\ chain.age < 2 /\ t.step = "settle"
    /\ chain'.status = "settled" /\ chain'.custodians = t.holders
    /\ chain'.unsettled = chain.unsettled
MovedOn ==
    /\ chain.status # "committed" /\ chain.status \in Open
    /\ chain'.status # "committed" /\ chain'.custodians \subseteq chain.custodians
    /\ chain'.unsettled => chain.unsettled
Expired ==
    /\ chain.status = "committed" /\ chain.age = 2
    /\ chain'.status = "void" /\ chain'.custodians = {}

LEMMA NowTypes ==
    ASSUME DutyTypes, NEW s \in Open \cup Over
    PROVE  /\ Now(s) \in ChainRec /\ Now(s).status = s
           /\ Now(s).custodians = chain.custodians /\ Now(s).unsettled = chain.unsettled
<1> DEFINE a == [chain EXCEPT !.status = s]
           b == [a EXCEPT !.age = 0]
           c == [b EXCEPT !.yes = {}]
           d == [c EXCEPT !.no = {}]
<1>1. chain \in ChainRec  BY DEF DutyTypes
<1>2. a \in ChainRec /\ a.status = s /\ a.custodians = chain.custodians
      /\ a.unsettled = chain.unsettled
  BY <1>1 DEF ChainRec
<1>. HIDE DEF a
<1>3. b \in ChainRec /\ b.status = s /\ b.custodians = chain.custodians
      /\ b.unsettled = chain.unsettled
  BY <1>2 DEF ChainRec
<1>. HIDE DEF b
<1>4. c \in ChainRec /\ c.status = s /\ c.custodians = chain.custodians
      /\ c.unsettled = chain.unsettled
  BY <1>3 DEF ChainRec
<1>. HIDE DEF c
<1>5. d \in ChainRec /\ d.status = s /\ d.custodians = chain.custodians
      /\ d.unsettled = chain.unsettled
  BY <1>4 DEF ChainRec
<1>6. Now(s) = d
  BY <1>1 DEF a, b, c, d, Now, ChainRec
<1>. HIDE DEF d
<1>. QED  BY <1>5, <1>6

LEMMA EmitGrows ==
    ASSUME DutyTypes, NEW e \in Events, Emit(e)
    PROVE  Grew
BY DEF Emit, Grew

LEMMA EndedDoes ==
    ASSUME DutyTypes, NEW s \in Over, Ended(s)
    PROVE  /\ chain' \in ChainRec /\ Grew
           /\ chain'.status = s /\ chain'.custodians = {}
           /\ chain'.unsettled = (chain.status = "committed")
<1>1. Now(s) \in ChainRec /\ Now(s).status = s  BY NowTypes
<1>2. chain' = [Now(s) EXCEPT !.custodians = {}, !.unsettled = chain.status = "committed"]
  BY DEF Ended
<1>3. chain' = [[Now(s) EXCEPT !.custodians = {}] EXCEPT !.unsettled = chain.status = "committed"]
  BY <1>1, <1>2 DEF ChainRec
<1>4. (chain.status = "committed") \in BOOLEAN  OBVIOUS
<1>5. Grew  BY EmitGrows DEF Ended, Events
<1>. QED  BY <1>1, <1>3, <1>4, <1>5 DEF ChainRec

LEMMA MineDoes ==
    ASSUME DutyTypes, NEW t \in pool, Mine(t)
    PROVE  \/ ~Accepts(t) /\ Refused
           \/ /\ Accepts(t) /\ chain' \in ChainRec /\ Grew
              /\ SettledBy(t) \/ MovedOn \/ Expired
<1>1. CASE ~Accepts(t)  BY <1>1 DEF Mine, Refused
<1>2. CASE Accepts(t)
  <2>0. Executes(t) /\ t.step \in Steps /\ t.holders \in SUBSET Seats
    BY <1>2 DEF Mine, DutyTypes, TxRec
  <2>1. CASE t.step = "settle"
    <3>1. chain' = [Now("settled") EXCEPT !.custodians = t.holders] /\ Emit("Settled")
      BY <2>0, <2>1 DEF Executes
    <3>2. Grew  BY <3>1, EmitGrows DEF Events
    <3>3. chain.status = "committed" /\ chain.age < 2  BY <1>2, <2>1 DEF Accepts
    <3>4. Now("settled") \in ChainRec /\ Now("settled").status = "settled"
          /\ Now("settled").unsettled = chain.unsettled
      BY NowTypes DEF Open
    <3>5. chain' \in ChainRec /\ SettledBy(t)
      BY <2>0, <2>1, <3>1, <3>3, <3>4 DEF ChainRec, SettledBy
    <3>. QED  BY <1>2, <3>2, <3>5
  <2>2. CASE t.step = "finalize"
    <3>1. Decided /\ chain.status = "settled"  BY <1>2, <2>0, <2>2 DEF Executes, Accepts
    <3>2. CASE Ended("final")
      BY <1>2, <3>1, <3>2, EndedDoes DEF Over, Open, MovedOn
    <3>3. CASE /\ chain' = [Now("settled") EXCEPT !.extended = TRUE, !.yes = chain.yes]
               /\ Emit("Extended")
      <4>1. Now("settled") \in ChainRec /\ Now("settled").status = "settled"
            /\ Now("settled").unsettled = chain.unsettled
            /\ Now("settled").custodians = chain.custodians
        BY NowTypes DEF Open
      <4>2. chain' = [[Now("settled") EXCEPT !.extended = TRUE] EXCEPT !.yes = chain.yes]
        BY <3>3, <4>1 DEF ChainRec
      <4>3. chain.yes \in SUBSET Seats  BY DEF DutyTypes, ChainRec
      <4>4. chain' \in ChainRec /\ chain'.status = "settled"
            /\ chain'.unsettled = chain.unsettled /\ chain'.custodians = chain.custodians
        BY <4>1, <4>2, <4>3 DEF ChainRec
      <4>5. Grew  BY <3>3, EmitGrows DEF Events
      <4>. QED  BY <1>2, <3>1, <4>4, <4>5 DEF MovedOn, Open
    <3>4. CASE chain' = Now("escalating") /\ Emit("Escalating")
      BY <1>2, <3>1, <3>4, NowTypes, EmitGrows DEF MovedOn, Open, Events
    <3>. QED  BY <3>1, <3>2, <3>3, <3>4 DEF Decided
  <2>3. CASE t.step = "escalate"
    <3>1. chain.status = "escalating"  BY <1>2, <2>3 DEF Accepts
    <3>2. CASE chain' = Now("escalated") /\ Emit("Escalated")
      BY <1>2, <3>1, <3>2, NowTypes, EmitGrows DEF MovedOn, Open, Events
    <3>3. CASE Ended("void")
      BY <1>2, <3>1, <3>3, EndedDoes DEF MovedOn, Open, Over
    <3>. QED  BY <2>0, <2>3, <3>2, <3>3 DEF Executes
  <2>4. CASE t.step = "expire"
    <3>1. Ended("void") /\ chain.age = 2 /\ chain.status \in {"committed", "escalating"}
      BY <1>2, <2>0, <2>4 DEF Executes, Accepts
    <3>. QED  BY <1>2, <3>1, EndedDoes DEF MovedOn, Expired, Open, Over
  <2>5. CASE t.step = "resolve"
    <3>1. chain.status = "escalated"  BY <1>2, <2>5 DEF Accepts
    <3>2. PICK s \in Over : Ended(s)  BY <2>0, <2>5 DEF Executes
    <3>. QED  BY <1>2, <3>1, <3>2, EndedDoes DEF MovedOn, Open, Over
  <2>. QED  BY <2>0, <2>1, <2>2, <2>3, <2>4, <2>5 DEF Steps
<1>. QED  BY <1>1, <1>2

LEMMA GrewKeeps ==
    ASSUME DutyTypes, Grew
    PROVE  /\ log' \in Seq(Events) /\ DOMAIN log \subseteq DOMAIN log'
           /\ \A i \in DOMAIN log : log'[i] = log[i]
<1>1. PICK e \in Events : log' = Append(log, e)  BY DEF Grew
<1>2. log \in Seq(Events)  BY DEF DutyTypes
<1>. QED  BY <1>1, <1>2

-----------------------------------------------------------------------------
(* Type correctness *)

LEMMA TypesStart == DutyInit => DutyTypes
<1>. SUFFICES ASSUME DutyInit PROVE DutyTypes  OBVIOUS
<1>1. chain \in ChainRec
  BY DEF DutyInit, ChainRec, Open
<1>2. log \in Seq(Events)  BY DEF DutyInit, Events
<1>3. custody \in CustodyRec  BY DEF DutyInit, CustodyRec
<1>. QED  BY <1>1, <1>2, <1>3 DEF DutyInit, DutyTypes, DutyStatus, Nodes

(* What Settled and Sends leave behind. *)
LEMMA SettledTypes ==
    ASSUME DutyTypes, Settled(Host)
    PROVE  /\ duty' \in [Nodes -> DutyStatus] /\ saved' \in [Nodes -> DutyStatus]
           /\ \A n \in Nodes : duty'[n] = duty[n] \/ duty'[n] = "settled"
BY DEF DutyTypes, Settled, DutyStatus, Open, Nodes

LEMMA SettleTxTypes ==
    ASSUME NEW H \in SUBSET Seats
    PROVE  /\ SettleTx(H) \in TxRec /\ SettleTx(H).step = "settle"
           /\ SettleTx(H).holders = H
BY DEF SettleTx, TxRec, Nodes, Steps

LEMMA TypesKeep == DutyTypes /\ [DutyNext]_dutyVars => DutyTypes'
<1>. SUFFICES ASSUME DutyTypes, [DutyNext]_dutyVars PROVE DutyTypes'  OBVIOUS
<1>s. Host \in Nodes /\ Seats \subseteq Nodes  BY DEF Nodes
<1>1. ASSUME NEW t \in pool, Mine(t) PROVE DutyTypes'
  <2>1. /\ chain' \in ChainRec /\ log' \in Seq(Events) /\ DOMAIN log \subseteq DOMAIN log'
    BY <1>1, MineDoes, GrewKeeps DEF Refused, DutyTypes
  <2>2. pool' \subseteq pool  BY <1>1 DEF Mine
  <2>3. UNCHANGED <<heard, duty, saved, held, custody, faults>>  BY <1>1 DEF Mine
  <2>. QED  BY <2>1, <2>2, <2>3 DEF DutyTypes
<1>2. ASSUME NEW t \in pool, LoseTx(t) PROVE DutyTypes'
  BY <1>2 DEF LoseTx, Fault, DutyTypes
<1>3. CASE Age
  <2>1. chain \in ChainRec  BY DEF DutyTypes
  <2>2. chain.age \in {0, 1}  BY <1>3, <2>1 DEF Age, ChainRec
  <2>3. chain' = [chain EXCEPT !.age = @ + 1] \/ chain' = [chain EXCEPT !.age = 2]
    BY <1>3 DEF Age
  <2>4. chain' \in ChainRec  BY <2>1, <2>2, <2>3 DEF ChainRec
  <2>. QED  BY <1>3, <2>4 DEF Age, DutyTypes
<1>4. CASE PlayedOut
  <2>0. custody \in CustodyRec  BY DEF DutyTypes
  <2>1. UNCHANGED <<chain, log, heard, held>>  BY <1>4 DEF PlayedOut
  <2>2. CASE custody' = [custody EXCEPT !.state = "skipped"] /\ UNCHANGED <<pool, duty, saved, faults>>
    <3>1. custody' \in CustodyRec  BY <2>0, <2>2 DEF CustodyRec
    <3>. QED  BY <2>1, <2>2, <3>1 DEF DutyTypes
  <2>3. ASSUME NEW need \in 0..Need,
               custody' = [custody EXCEPT !.state = "waiting", !.need = need],
               UNCHANGED <<pool, duty, faults>>, saved' = [saved EXCEPT ![Host] = duty[Host]]
        PROVE  DutyTypes'
    <3>0. need \in Nat  BY DutyAssumption
    <3>1. custody' = [[custody EXCEPT !.state = "waiting"] EXCEPT !.need = need]
      BY <2>0, <2>3 DEF CustodyRec
    <3>2. custody' \in CustodyRec  BY <2>0, <3>0, <3>1 DEF CustodyRec
    <3>3. saved' \in [Nodes -> DutyStatus]  BY <1>s, <2>3 DEF DutyTypes
    <3>. QED  BY <2>1, <2>3, <3>2, <3>3 DEF DutyTypes
  <2>4. CASE SettleAtOnce
    <3>1. CASE /\ Sends(SettleTx(Seats)) /\ Settled(Host)
               /\ custody' = [custody EXCEPT !.state = "direct"] /\ UNCHANGED faults
      <4>1. custody' \in CustodyRec  BY <2>0, <3>1 DEF CustodyRec
      <4>2. pool' = pool \cup {SettleTx(Seats)} /\ SettleTx(Seats) \in TxRec
        BY <3>1, SettleTxTypes DEF Sends
      <4>. QED  BY <2>1, <3>1, <4>1, <4>2, SettledTypes DEF DutyTypes
    <3>2. CASE /\ custody' = [custody EXCEPT !.state = "late"] /\ UNCHANGED <<pool, duty, saved>>
               /\ Fault \/ UNCHANGED faults
      <4>1. custody' \in CustodyRec  BY <2>0, <3>2 DEF CustodyRec
      <4>2. faults' \in Nat  BY <3>2 DEF Fault, DutyTypes
      <4>. QED  BY <2>1, <3>2, <4>1, <4>2 DEF DutyTypes
    <3>. QED  BY <2>4, <3>1, <3>2 DEF SettleAtOnce
  <2>. QED  BY <1>4, <2>2, <2>3, <2>4 DEF PlayedOut
<1>5. CASE SettleHeld
  <2>0. custody \in CustodyRec  BY DEF DutyTypes
  <2>1. UNCHANGED <<chain, log, heard, held>>  BY <1>5 DEF SettleHeld
  <2>2. CASE /\ Sends(SettleTx(Custodians)) /\ Settled(Host)
             /\ custody' = [custody EXCEPT !.state = "closed", !.holders = {}] /\ UNCHANGED faults
    <3>1. custody' = [[custody EXCEPT !.state = "closed"] EXCEPT !.holders = {}]
      BY <2>0, <2>2 DEF CustodyRec
    <3>2. custody' \in CustodyRec  BY <2>0, <3>1 DEF CustodyRec
    <3>3. Custodians \in SUBSET Seats  BY <2>0 DEF CustodyRec, Custodians
    <3>4. pool' = pool \cup {SettleTx(Custodians)} /\ SettleTx(Custodians) \in TxRec
      BY <2>2, <3>3, SettleTxTypes DEF Sends
    <3>. QED  BY <2>1, <2>2, <3>2, <3>4, SettledTypes DEF DutyTypes
  <2>3. CASE /\ UNCHANGED <<pool, duty, saved>>
             /\ custody' = [custody EXCEPT !.tries = @ + 1]
             /\ Fault \/ UNCHANGED faults
    <3>0. \A k \in Nat : k + 1 \in Nat  OBVIOUS
    <3>n. custody.tries + 1 \in Nat  BY <2>0, <3>0 DEF CustodyRec
    <3>1. custody' \in CustodyRec
      <4>. DEFINE k == custody.tries + 1
      <4>1. custody' = [custody EXCEPT !.tries = k]  BY <2>3
      <4>2. k \in Nat  BY <3>n
      <4>. HIDE DEF k
      <4>. QED  BY <2>0, <4>1, <4>2 DEF CustodyRec
    <3>2. faults' \in Nat  BY <2>3 DEF Fault, DutyTypes
    <3>. QED  BY <2>1, <2>3, <3>1, <3>2 DEF DutyTypes
  <2>4. CASE /\ \E e \in {"given up", "closed"} :
                    custody' = [custody EXCEPT !.state = e, !.holders = {}]
             /\ UNCHANGED <<pool, duty, saved, faults>>
    <3>1. PICK e \in {"given up", "closed"} :
             custody' = [[custody EXCEPT !.state = e] EXCEPT !.holders = {}]
      BY <2>0, <2>4 DEF CustodyRec
    <3>2. custody' \in CustodyRec  BY <2>0, <3>1 DEF CustodyRec
    <3>. QED  BY <2>1, <2>4, <3>2 DEF DutyTypes
  <2>. QED  BY <1>5, <2>2, <2>3, <2>4 DEF SettleHeld
<1>6. ASSUME NEW n \in Nodes, NEW i \in Unheard(n), AbsorbEvent(n, i), faults' \in Nat
      PROVE DutyTypes'
  <2>0. custody \in CustodyRec /\ i \in DOMAIN log /\ log[i] \in Events
    BY <1>6 DEF DutyTypes, Unheard
  <2>1. heard' \in [Nodes -> SUBSET DOMAIN log]  BY <1>6, <2>0 DEF AbsorbEvent, DutyTypes
  <2>2. StatusAfter(duty[n], log[i]) \in DutyStatus
    BY <1>6, <2>0 DEF DutyTypes, StatusAfter, DutyStatus, Open, Events
  <2>3. duty' \in [Nodes -> DutyStatus] /\ saved' \in [Nodes -> DutyStatus]
    BY <1>6, <2>2 DEF AbsorbEvent, DutyTypes
  <2>4. custody' \in CustodyRec
    <3>1. CASE custody' = [custody EXCEPT !.state = "closed", !.holders = {}]
      <4>1. custody' = [[custody EXCEPT !.state = "closed"] EXCEPT !.holders = {}]
        BY <2>0, <3>1 DEF CustodyRec
      <4>. QED  BY <2>0, <4>1 DEF CustodyRec
    <3>2. CASE custody' = custody  BY <2>0, <3>2
    <3>. QED  BY <1>6, <3>1, <3>2 DEF AbsorbEvent
  <2>5. held' \in SUBSET Nodes /\ UNCHANGED <<chain, log, pool>>
    BY <1>6 DEF AbsorbEvent, DutyTypes
  <2>. QED  BY <1>6, <2>1, <2>3, <2>4, <2>5 DEF DutyTypes
<1>7. ASSUME NEW n \in Nodes, Absorb(n) \/ AbsorbEarly(n) PROVE DutyTypes'
  <2>1. \E i \in Unheard(n) : AbsorbEvent(n, i)  BY <1>7 DEF Absorb, AbsorbEarly
  <2>2. faults' \in Nat  BY <1>7 DEF Absorb, AbsorbEarly, Fault, DutyTypes
  <2>. QED  BY <1>6, <2>1, <2>2
<1>8. ASSUME NEW n \in Nodes, Restart(n) PROVE DutyTypes'
  <2>1. PICK torn \in SUBSET Unheard(n) :
           /\ heard' = [heard EXCEPT ![n] = @ \cup torn]
           /\ duty' = [duty EXCEPT ![n] = Replayed(n, heard'[n])]
    BY <1>8 DEF Restart
  <2>2. heard' \in [Nodes -> SUBSET DOMAIN log]  BY <1>8, <2>1 DEF DutyTypes, Unheard
  <2>3. Replayed(n, heard'[n]) \in DutyStatus
    BY <1>8 DEF Replayed, DutyTypes, DutyStatus, Open
  <2>4. duty' \in [Nodes -> DutyStatus]  BY <2>1, <2>3 DEF DutyTypes
  <2>5. custody' \in CustodyRec  BY <1>8 DEF Restart, DutyTypes, CustodyRec
  <2>. QED  BY <1>8, <2>2, <2>4, <2>5 DEF Restart, Fault, DutyTypes
<1>9. ASSUME NEW s \in Seats, TakeLedger(s) \/ SendReceipt(s) PROVE DutyTypes'
  <2>1. custody' \in CustodyRec
    <3>1. custody \in CustodyRec  BY DEF DutyTypes
    <3>2. CASE custody' = [custody EXCEPT !.holders = @ \cup {s}]
      <4>1. custody.holders \cup {s} \in SUBSET Seats  BY <3>1 DEF CustodyRec
      <4>. QED  BY <3>1, <3>2, <4>1 DEF CustodyRec
    <3>. QED  BY <1>9, <3>1, <3>2 DEF TakeLedger, SendReceipt
  <2>. QED  BY <1>s, <1>9, <2>1 DEF TakeLedger, SendReceipt, DutyTypes
<1>10. ASSUME NEW s \in Seats, Witness(s) PROVE DutyTypes'
  <2>1. chain' \in ChainRec  BY <1>10 DEF Witness, DutyTypes, ChainRec
  <2>. QED  BY <1>s, <1>10, <2>1 DEF Witness, DutyTypes
<1>11. ASSUME NEW n \in Nodes, NEW what \in Driven, Drive(n, what) PROVE DutyTypes'
  <2>1. Tx(n, what) \in TxRec  BY DEF Tx, TxRec, Driven, Steps
  <2>. QED  BY <1>11, <2>1 DEF Drive, Sends, DutyTypes
<1>12. CASE UNCHANGED dutyVars  BY <1>12 DEF dutyVars, DutyTypes
<1>. QED  BY <1>1, <1>2, <1>3, <1>4, <1>5, <1>7, <1>8, <1>9, <1>10, <1>11, <1>12 DEF DutyNext

-----------------------------------------------------------------------------
(* Custody *)

(* As long as the match is not void, whoever has told the host has the ledger,
   and so has whoever a held settle names, on its way or on chain; a void match
   never leaves that status, so only then copies are dropped.  A settle sent at
   once is the only one of its match. *)
CustodyInv ==
    chain.status # "void" =>
        /\ custody.holders \subseteq held
        /\ custody.state # "direct" =>
             /\ chain.custodians \subseteq held
             /\ \A t \in pool : t.holders \subseteq held

LEMMA CustodyStarts == DutyInit => CustodyInv
BY DEF DutyInit, CustodyInv

LEMMA CustodyKeeps ==
    DutyTypes /\ CustodyInv /\ [DutyNext]_dutyVars => CustodyInv'
<1>. SUFFICES ASSUME DutyTypes, CustodyInv, [DutyNext]_dutyVars PROVE CustodyInv'
  OBVIOUS
<1>c. chain \in ChainRec /\ custody \in CustodyRec  BY DEF DutyTypes
<1>1. ASSUME NEW t \in pool, Mine(t) PROVE CustodyInv'
  <2>1. pool' \subseteq pool /\ UNCHANGED <<held, custody>>  BY <1>1 DEF Mine
  <2>2. CASE Refused  BY <2>1, <2>2 DEF Refused, CustodyInv
  <2>3. CASE SettledBy(t)  BY <2>1, <2>3 DEF SettledBy, CustodyInv
  <2>4. CASE MovedOn  BY <2>1, <2>4 DEF MovedOn, CustodyInv, Open
  <2>5. CASE Expired  BY <2>1, <2>5 DEF Expired, CustodyInv
  <2>. QED  BY <1>1, MineDoes, <2>2, <2>3, <2>4, <2>5
<1>2. ASSUME NEW t \in pool, LoseTx(t) PROVE CustodyInv'
  BY <1>2 DEF LoseTx, CustodyInv
<1>3. CASE Age
  <2>1. chain'.status = chain.status /\ chain'.custodians = chain.custodians
    BY <1>3, <1>c DEF Age, ChainRec
  <2>. QED  BY <1>3, <2>1 DEF Age, CustodyInv
<1>4. CASE PlayedOut
  <2>1. UNCHANGED <<chain, held>> /\ custody.state = "unplayed"  BY <1>4 DEF PlayedOut
  <2>2. custody'.holders = custody.holders
    BY <1>4, <1>c DEF PlayedOut, SettleAtOnce, CustodyRec
  <2>3. pool' = pool \/ custody'.state = "direct"
    BY <1>4, <1>c DEF PlayedOut, SettleAtOnce, CustodyRec
  <2>. QED  BY <2>1, <2>2, <2>3 DEF CustodyInv
<1>5. CASE SettleHeld
  <2>1. UNCHANGED <<chain, held>> /\ custody.state = "waiting"  BY <1>5 DEF SettleHeld
  <2>2. custody'.holders = custody.holders \/ custody'.holders = {}
    BY <1>5, <1>c DEF SettleHeld, CustodyRec
  <2>3. pool' = pool \/ pool' = pool \cup {SettleTx(Custodians)}
    BY <1>5 DEF SettleHeld, Sends
  <2>4. SettleTx(Custodians).holders = custody.holders
    BY <1>c, SettleTxTypes DEF CustodyRec, Custodians
  <2>. QED  BY <2>1, <2>2, <2>3, <2>4 DEF CustodyInv
<1>7. ASSUME NEW n \in Nodes, Absorb(n) \/ AbsorbEarly(n) PROVE CustodyInv'
  <2>1. PICK i \in Unheard(n) : AbsorbEvent(n, i)  BY <1>7 DEF Absorb, AbsorbEarly
  <2>2. UNCHANGED <<chain, pool>> /\ (chain.status # "void" => held' = held)
    BY <2>1 DEF AbsorbEvent
  <2>3. /\ custody'.holders = custody.holders \/ custody'.holders = {}
        /\ custody'.state = custody.state \/ custody.state = "waiting"
    BY <2>1, <1>c DEF AbsorbEvent, CustodyRec
  <2>. QED  BY <2>2, <2>3 DEF CustodyInv
<1>8. ASSUME NEW n \in Nodes, Restart(n) PROVE CustodyInv'
  BY <1>8, <1>c DEF Restart, CustodyInv, CustodyRec
<1>9. ASSUME NEW s \in Seats, TakeLedger(s) PROVE CustodyInv'
  BY <1>9 DEF TakeLedger, CustodyInv
<1>10. ASSUME NEW s \in Seats, SendReceipt(s) PROVE CustodyInv'
  BY <1>10, <1>c DEF SendReceipt, CustodyInv, CustodyRec
<1>11. ASSUME NEW s \in Seats, Witness(s) PROVE CustodyInv'
  <2>1. chain'.status = chain.status /\ chain'.custodians = chain.custodians
    BY <1>11, <1>c DEF Witness, ChainRec
  <2>. QED  BY <1>11, <2>1 DEF Witness, CustodyInv
<1>12. ASSUME NEW n \in Nodes, NEW what \in Driven, Drive(n, what) PROVE CustodyInv'
  BY <1>12 DEF Drive, Sends, Tx, CustodyInv
<1>13. CASE UNCHANGED dutyVars  BY <1>13 DEF dutyVars, CustodyInv
<1>. QED  BY <1>1, <1>2, <1>3, <1>4, <1>5, <1>7, <1>8, <1>9, <1>10, <1>11, <1>12, <1>13
          DEF DutyNext

(* Whom a held settle names as a custodian of an open match has its ledger: the
   seats that told the host before the settle went out (matchbook.js:279-330),
   for every panel and whatever is lost or restarted.  Only a settle sent at
   once (matchbook.js:272) names seats that hold nothing. *)
THEOREM CustodiansHold == DutySpec => []NamedCustodiansHold
<1>1. DutyInit => DutyTypes /\ CustodyInv  BY TypesStart, CustodyStarts
<1>2. DutyTypes /\ CustodyInv /\ [DutyNext]_dutyVars => (DutyTypes /\ CustodyInv)'
  BY TypesKeep, CustodyKeeps
<1>3. DutyTypes /\ CustodyInv => NamedCustodiansHold
  BY DEF CustodyInv, NamedCustodiansHold, Open
<1>. QED  BY <1>1, <1>2, <1>3, PTL DEF DutySpec

-----------------------------------------------------------------------------
(* The duty across a restart *)

LEMMA SurvivalKeeps ==
    DutyTypes /\ DutySurvives /\ [DutyNext]_dutyVars => DutySurvives'
<1>. SUFFICES ASSUME DutyTypes, DutySurvives, [DutyNext]_dutyVars,
                     NEW m \in Nodes, Heard(m, "Committed")', ~Heard(m, "Finalized")'
              PROVE  duty'[m] # "none"
  BY DEF DutySurvives
<1>k. ASSUME UNCHANGED heard, UNCHANGED duty, UNCHANGED log \/ Grew PROVE duty'[m] # "none"
  <2>1. \A i \in heard[m] : log'[i] = log[i]  BY <1>k, GrewKeeps DEF DutyTypes
  <2>2. Heard(m, "Committed") /\ ~Heard(m, "Finalized")
    BY <1>k, <2>1 DEF Heard
  <2>. QED  BY <1>k, <2>2 DEF DutySurvives
<1>s. ASSUME UNCHANGED <<heard, log>>, Settled(Host) \/ UNCHANGED duty PROVE duty'[m] # "none"
  <2>1. Heard(m, "Committed") /\ ~Heard(m, "Finalized")  BY <1>s DEF Heard
  <2>. QED  BY <1>s, <2>1, SettledTypes DEF DutySurvives
<1>1. ASSUME NEW t \in pool, Mine(t) PROVE duty'[m] # "none"
  BY <1>1, <1>k, MineDoes DEF Mine, Refused
<1>2. CASE PlayedOut  BY <1>2, <1>s DEF PlayedOut, SettleAtOnce
<1>3. CASE SettleHeld  BY <1>3, <1>s DEF SettleHeld
<1>4. ASSUME NEW n \in Nodes, Absorb(n) \/ AbsorbEarly(n) PROVE duty'[m] # "none"
  <2>1. PICK i \in Unheard(n) : AbsorbEvent(n, i)  BY <1>4 DEF Absorb, AbsorbEarly
  <2>2. /\ heard' = [heard EXCEPT ![n] = @ \cup {i}] /\ log' = log
        /\ duty' = [duty EXCEPT ![n] = StatusAfter(duty[n], log[i])]
    BY <2>1 DEF AbsorbEvent
  <2>3. i \in DOMAIN log /\ log[i] \in Events  BY <2>1 DEF Unheard, DutyTypes
  <2>4. CASE m # n
    <3>1. heard'[m] = heard[m] /\ duty'[m] = duty[m]  BY <2>2, <2>4 DEF DutyTypes
    <3>2. Heard(m, "Committed") /\ ~Heard(m, "Finalized")  BY <2>2, <3>1 DEF Heard
    <3>. QED  BY <3>1, <3>2 DEF DutySurvives
  <2>5. CASE m = n
    <3>1. heard'[m] = heard[m] \cup {i} /\ duty'[m] = StatusAfter(duty[m], log[i])
      BY <2>2, <2>5 DEF DutyTypes
    <3>2. log[i] # "Finalized" /\ ~Heard(m, "Finalized")  BY <2>2, <3>1 DEF Heard
    <3>3. CASE log[i] = "Committed"  BY <3>1, <3>3 DEF StatusAfter
    <3>4. CASE log[i] # "Committed"
      <4>1. Heard(m, "Committed")  BY <2>2, <3>1, <3>4 DEF Heard
      <4>2. duty[m] # "none"  BY <3>2, <4>1 DEF DutySurvives
      <4>. QED  BY <2>3, <3>1, <3>2, <3>4, <4>2 DEF StatusAfter, Events
    <3>. QED  BY <3>3, <3>4
  <2>. QED  BY <2>4, <2>5
<1>5. ASSUME NEW n \in Nodes, Restart(n) PROVE duty'[m] # "none"
  <2>1. PICK torn \in SUBSET Unheard(n) :
           /\ heard' = [heard EXCEPT ![n] = @ \cup torn]
           /\ duty' = [duty EXCEPT ![n] = Replayed(n, heard'[n])]
    BY <1>5 DEF Restart
  <2>2. log' = log  BY <1>5 DEF Restart
  <2>3. CASE m # n
    <3>1. heard'[m] = heard[m] /\ duty'[m] = duty[m]  BY <2>1, <2>3 DEF DutyTypes
    <3>2. Heard(m, "Committed") /\ ~Heard(m, "Finalized")  BY <2>2, <3>1 DEF Heard
    <3>. QED  BY <3>1, <3>2 DEF DutySurvives
  <2>4. CASE m = n
    <3>1. duty'[m] = Replayed(m, heard'[m])  BY <2>1, <2>4 DEF DutyTypes
    <3>2. /\ \E i \in heard'[m] : log[i] = "Committed"
          /\ ~\E i \in heard'[m] : log[i] = "Finalized"
      BY <2>2 DEF Heard
    <3>. QED  BY <3>1, <3>2 DEF Replayed
  <2>. QED  BY <2>3, <2>4
<1>6. ASSUME \/ \E t \in pool : LoseTx(t)
             \/ Age
             \/ \E s \in Seats : TakeLedger(s) \/ SendReceipt(s) \/ Witness(s)
             \/ \E n \in Nodes, what \in Driven : Drive(n, what)
             \/ UNCHANGED dutyVars
      PROVE  duty'[m] # "none"
  BY <1>6, <1>k DEF LoseTx, Age, TakeLedger, SendReceipt, Witness, Drive, dutyVars
<1>. QED  BY <1>1, <1>2, <1>3, <1>4, <1>5, <1>6 DEF DutyNext

(* A node that has read a match's Committed and not its Finalized has a duty
   for it: the replay of the event file and the duty file laid over it make up
   for each other (matchbook.js:430-460), whichever was written last. *)
THEOREM DutiesSurvive == DutySpec => []DutySurvives
<1>1. DutyInit => DutyTypes /\ DutySurvives
  BY TypesStart DEF DutyInit, DutySurvives, Heard
<1>2. DutyTypes /\ DutySurvives /\ [DutyNext]_dutyVars => (DutyTypes /\ DutySurvives)'
  BY TypesKeep, SurvivalKeeps
<1>. QED  BY <1>1, <1>2, PTL DEF DutySpec

-----------------------------------------------------------------------------
(* The held settle against its window *)

(* While the match is committed and nothing has gone wrong, the log is all
   Committed, so nothing but the held settle itself moves the host's duty on or
   ends the hold; a hold that has ended has its settle on its way, and the
   window has not lapsed over it. *)
Undisturbed ==
    /\ \A i \in DOMAIN log : log[i] = "Committed"
    /\ duty[Host] \in {"none", "committed"} \/ custody.state \in {"closed", "direct"}
    /\ chain.age = 2 => custody.state \in {"unplayed", "late"}
    /\ custody.state \in {"unplayed", "waiting"} => custody.tries = 0
    /\ custody.state \in {"closed", "direct"} => \E t \in pool : t.step = "settle"
    /\ custody.state # "given up"

HoldInv ==
    /\ chain.unsettled => chain.status \in Over
    /\ faults = 0 =>
         /\ custody.committed /\ custody.state # "skipped"
         /\ chain.unsettled => custody.state \in {"unplayed", "late"}
         /\ chain.status = "committed" => Undisturbed

LEMMA HoldStarts == DutyInit => HoldInv
<1>. SUFFICES ASSUME DutyInit PROVE HoldInv  OBVIOUS
<1>1. Host \in Nodes  BY DEF Nodes
<1>. QED  BY <1>1 DEF DutyInit, HoldInv, Undisturbed

LEMMA HoldKeeps ==
    DutyTypes /\ HoldInv /\ [DutyNext]_dutyVars => HoldInv'
<1>. SUFFICES ASSUME DutyTypes, HoldInv, [DutyNext]_dutyVars PROVE HoldInv'
  OBVIOUS
<1>c. /\ chain \in ChainRec /\ custody \in CustodyRec /\ faults \in Nat
      /\ Host \in Nodes /\ Seats \subseteq Nodes
  BY DEF DutyTypes, Nodes
<1>f. Fault => faults' # 0  BY <1>c DEF Fault
<1>x. ASSUME faults' # 0, chain'.unsettled = chain.unsettled, chain'.status = chain.status
      PROVE  HoldInv'
  BY <1>x DEF HoldInv
<1>1. ASSUME NEW t \in pool, Mine(t) PROVE HoldInv'
  <2>1. /\ pool' = {u \in pool \ {t} : u.step \in StillPossible(chain'.status)}
        /\ UNCHANGED <<duty, custody, faults>>
    BY <1>1 DEF Mine
  <2>2. CASE ~Accepts(t) /\ Refused
    <3>1. chain' = chain /\ log' = log  BY <2>2 DEF Refused
    <3>2. ASSUME faults = 0, chain.status = "committed" PROVE Undisturbed'
      <4>1. Undisturbed  BY <3>2 DEF HoldInv
      <4>2. ASSUME custody.state \in {"closed", "direct"} PROVE \E u \in pool' : u.step = "settle"
        <5>1. PICK u \in pool : u.step = "settle"  BY <4>1, <4>2 DEF Undisturbed
        <5>2. chain.age < 2
          <6>1. chain.age # 2  BY <4>1, <4>2 DEF Undisturbed
          <6>2. chain.age \in 0..2  BY <1>c DEF ChainRec
          <6>. QED  BY <6>1, <6>2
        <5>3. Accepts(u)  BY <3>2, <5>1, <5>2 DEF Accepts
        <5>4. u \in pool'  BY <2>1, <2>2, <3>1, <3>2, <5>1, <5>3 DEF StillPossible, Steps
        <5>. QED  BY <5>1, <5>4
      <4>. QED  BY <2>1, <3>1, <4>1, <4>2 DEF Undisturbed
    <3>. QED  BY <2>1, <3>1, <3>2 DEF HoldInv
  <2>3. CASE SettledBy(t)  BY <2>1, <2>3 DEF SettledBy, HoldInv, Over
  <2>4. CASE MovedOn  BY <2>1, <2>4 DEF MovedOn, HoldInv, Open, Over
  <2>5. CASE Expired
    <3>1. faults = 0 => custody.state \in {"unplayed", "late"} /\ custody.committed
      BY <2>5 DEF Expired, HoldInv, Undisturbed
    <3>. QED  BY <2>1, <2>5, <3>1 DEF Expired, HoldInv, Over
  <2>. QED  BY <1>1, MineDoes, <2>2, <2>3, <2>4, <2>5
<1>2. ASSUME NEW t \in pool, LoseTx(t) PROVE HoldInv'
  BY <1>2, <1>f, <1>x DEF LoseTx
<1>3. CASE Age
  <2>1. /\ chain'.status = chain.status /\ chain'.unsettled = chain.unsettled
        /\ UNCHANGED <<log, pool, duty, custody, faults>>
    BY <1>3, <1>c DEF Age, ChainRec
  <2>2. ASSUME faults = 0, chain.status = "committed" PROVE Undisturbed'
    <3>1. Undisturbed  BY <2>2 DEF HoldInv
    <3>2. ASSUME chain'.age = 2 PROVE custody.state \in {"unplayed", "late"}
      <4>1. chain' = [chain EXCEPT !.age = @ + 1]  BY <1>3, <2>2 DEF Age
      <4>2. chain.age = 1  BY <1>c, <3>2, <4>1 DEF ChainRec
      <4>3. ~SettleUnderWay  BY <1>3, <2>2, <4>2 DEF Age
      <4>4. custody.state \notin {"closed", "direct"}  BY <3>1, <4>3 DEF Undisturbed, SettleUnderWay
      <4>5. custody.state # "waiting"
        <5>1. SUFFICES ASSUME custody.state = "waiting" PROVE HeldDue
          BY <4>3 DEF SettleUnderWay
        <5>2. custody.tries = 0  BY <3>1, <5>1 DEF Undisturbed
        <5>3. 0 < MaxTries  BY DutyAssumption
        <5>4. chain.age > 0 /\ custody.tries < MaxTries  BY <4>2, <5>2, <5>3
        <5>. QED  BY <5>4 DEF HeldDue
      <4>6. custody.state \in {"unplayed", "waiting", "closed", "direct", "late", "skipped", "given up"}
        BY <1>c DEF CustodyRec
      <4>7. custody.state # "skipped" /\ custody.state # "given up"
        BY <2>2, <3>1 DEF HoldInv, Undisturbed
      <4>. QED  BY <4>4, <4>5, <4>6, <4>7
    <3>. QED  BY <2>1, <3>1, <3>2 DEF Undisturbed
  <2>. QED  BY <2>1, <2>2 DEF HoldInv
<1>4. CASE PlayedOut
  <2>0. /\ custody.state = "unplayed" /\ chain.status \notin Over
        /\ UNCHANGED <<chain, log>>
    BY <1>4 DEF PlayedOut
  <2>1. ~chain.unsettled  BY <2>0 DEF HoldInv
  <2>f. faults' = 0 => faults = 0  BY <1>4, <1>f DEF PlayedOut, SettleAtOnce
  <2>2. ASSUME faults = 0 PROVE custody'.committed /\ custody'.state # "skipped"
    <3>1. custody.committed  BY <2>2 DEF HoldInv
    <3>. QED  BY <1>4, <1>c, <3>1 DEF PlayedOut, SettleAtOnce, CustodyRec
  <2>3. ASSUME faults' = 0, faults = 0, chain.status = "committed" PROVE Undisturbed'
    <3>1. Undisturbed /\ custody.committed  BY <2>3 DEF HoldInv
    <3>2. duty[Host] \in {"none", "committed"}  BY <2>0, <3>1 DEF Undisturbed
    <3>3. ASSUME NEW need \in 0..Need, chain.age = 0, UNCHANGED <<pool, duty>>,
                 custody' = [custody EXCEPT !.state = "waiting", !.need = need]
          PROVE  Undisturbed'
      <4>1. custody'.state = "waiting" /\ custody'.tries = custody.tries
        BY <1>c, <3>3 DEF CustodyRec
      <4>2. custody.tries = 0  BY <2>0, <2>3, <3>1 DEF Undisturbed
      <4>. QED  BY <2>0, <3>1, <3>2, <3>3, <4>1, <4>2 DEF Undisturbed
    <3>4. CASE Sends(SettleTx(Seats)) /\ custody' = [custody EXCEPT !.state = "direct"]
      <4>1. custody'.state = "direct"  BY <1>c, <3>4 DEF CustodyRec
      <4>2. SettleTx(Seats) \in pool' /\ SettleTx(Seats).step = "settle"
        BY <3>4, SettleTxTypes DEF Sends
      <4>3. chain.age # 2
        <5>1. Accepts(SettleTx(Seats))  BY <3>4 DEF Sends
        <5>2. chain.age < 2  BY <4>2, <5>1 DEF Accepts
        <5>. QED  BY <5>2
      <4>. QED  BY <2>0, <3>1, <4>1, <4>2, <4>3 DEF Undisturbed
    <3>5. CASE custody' = [custody EXCEPT !.state = "late"] /\ UNCHANGED <<pool, duty>>
      <4>1. custody'.state = "late"  BY <1>c, <3>5 DEF CustodyRec
      <4>. QED  BY <2>0, <3>1, <3>2, <3>5, <4>1 DEF Undisturbed
    <3>6. CASE SettleAtOnce  BY <3>4, <3>5, <3>6 DEF SettleAtOnce
    <3>. QED  BY <1>4, <3>1, <3>3, <3>6 DEF PlayedOut
  <2>. QED  BY <2>0, <2>1, <2>f, <2>2, <2>3 DEF HoldInv
<1>5. CASE SettleHeld
  <2>0. custody.state = "waiting" /\ UNCHANGED <<chain, log>>  BY <1>5 DEF SettleHeld
  <2>1. custody'.committed = custody.committed /\ custody'.state # "skipped"
    BY <1>5, <1>c, <2>0 DEF SettleHeld, CustodyRec
  <2>2. faults' = 0 => faults = 0  BY <1>5, <1>f, <1>c DEF SettleHeld
  <2>3. ASSUME faults = 0 PROVE ~chain.unsettled  BY <2>0, <2>3 DEF HoldInv
  <2>4. ASSUME faults' = 0, faults = 0, chain.status = "committed" PROVE Undisturbed'
    <3>1. Undisturbed  BY <2>4 DEF HoldInv
    <3>2. /\ chain.age # 2 /\ custody.tries = 0
          /\ duty[Host] = "none" \/ duty[Host] = "committed"
      BY <2>0, <3>1 DEF Undisturbed
    <3>3. CASE /\ Sends(SettleTx(Custodians))
               /\ custody' = [custody EXCEPT !.state = "closed", !.holders = {}]
      <4>1. custody'.state = "closed"  BY <1>c, <3>3 DEF CustodyRec
      <4>2. SettleTx(Custodians) \in pool' /\ SettleTx(Custodians).step = "settle"
        BY <1>c, <3>3, SettleTxTypes DEF Sends, CustodyRec, Custodians
      <4>. QED  BY <2>0, <3>1, <3>2, <4>1, <4>2 DEF Undisturbed
    <3>4. ~(IF Accepts(SettleTx({})) THEN Fault ELSE UNCHANGED faults)
      <4>1. Accepts(SettleTx({}))
        <5>1. SettleTx({}).step = "settle"  BY SettleTxTypes
        <5>2. chain.age \in 0..2  BY <1>c DEF ChainRec
        <5>3. chain.age < 2  BY <3>2, <5>2
        <5>. QED  BY <2>4, <5>1, <5>3 DEF Accepts
      <4>. QED  BY <1>f, <2>4, <4>1
    <3>5. ~(custody.tries >= MaxTries \/ duty[Host] \in {"settled", "escalating", "escalated"})
      BY <3>2, DutyAssumption
    <3>. QED  BY <1>5, <3>3, <3>4, <3>5 DEF SettleHeld
  <2>. QED  BY <2>0, <2>1, <2>2, <2>3, <2>4 DEF HoldInv
<1>6. ASSUME NEW n \in Nodes, AbsorbEarly(n) \/ Restart(n) PROVE HoldInv'
  BY <1>6, <1>f, <1>x DEF AbsorbEarly, AbsorbEvent, Restart
<1>7. ASSUME NEW n \in Nodes, Absorb(n) PROVE HoldInv'
  <2>0. PICK i \in Unheard(n) : AbsorbEvent(n, i)  BY <1>7 DEF Absorb
  <2>1. UNCHANGED <<chain, log, pool, faults>>  BY <1>7, <2>0 DEF Absorb, AbsorbEvent
  <2>2. /\ custody'.committed = custody.committed /\ custody'.tries = custody.tries
        /\ \/ custody'.state = custody.state
           \/ /\ custody.state = "waiting" /\ custody'.state = "closed"
              /\ log[i] \in {"Settled", "Finalized"}
    <3>1. CASE /\ custody.state = "waiting" /\ log[i] \in {"Settled", "Finalized"}
               /\ custody' = [custody EXCEPT !.state = "closed", !.holders = {}]
      <4>1. custody' = [[custody EXCEPT !.state = "closed"] EXCEPT !.holders = {}]
        BY <1>c, <3>1 DEF CustodyRec
      <4>2. /\ custody'.state = "closed" /\ custody'.committed = custody.committed
            /\ custody'.tries = custody.tries
        BY <1>c, <4>1 DEF CustodyRec
      <4>. QED  BY <3>1, <4>2
    <3>2. CASE custody' = custody  BY <3>2
    <3>. QED  BY <2>0, <3>1, <3>2 DEF AbsorbEvent
  <2>3. ASSUME faults = 0, chain.status = "committed" PROVE Undisturbed'
    <3>1. Undisturbed  BY <2>3 DEF HoldInv
    <3>2. log[i] = "Committed"  BY <2>0, <3>1 DEF Undisturbed, Unheard
    <3>3. custody'.state = custody.state  BY <2>2, <3>2
    <3>4. duty' = [duty EXCEPT ![n] = StatusAfter(duty[n], log[i])]
      BY <2>0 DEF AbsorbEvent
    <3>5. duty[Host] \in {"none", "committed"} => duty'[Host] \in {"none", "committed"}
      BY <1>c, <3>2, <3>4 DEF StatusAfter, DutyTypes
    <3>. QED  BY <2>1, <2>2, <3>1, <3>3, <3>5 DEF Undisturbed
  <2>. QED  BY <2>1, <2>2, <2>3 DEF HoldInv
<1>9. ASSUME NEW s \in Seats, TakeLedger(s) \/ SendReceipt(s) PROVE HoldInv'
  <2>1. /\ custody'.committed = custody.committed /\ custody'.tries = custody.tries
        /\ custody'.state = custody.state /\ UNCHANGED <<chain, log, pool, duty, faults>>
    BY <1>9, <1>c DEF TakeLedger, SendReceipt, CustodyRec
  <2>. QED  BY <2>1 DEF HoldInv, Undisturbed
<1>10. ASSUME NEW s \in Seats, Witness(s) PROVE HoldInv'
  <2>1. /\ chain'.status = chain.status /\ chain'.unsettled = chain.unsettled
        /\ chain'.age = chain.age /\ UNCHANGED <<log, pool, duty, custody, faults>>
    BY <1>10, <1>c DEF Witness, ChainRec
  <2>. QED  BY <2>1 DEF HoldInv, Undisturbed
<1>11. ASSUME NEW n \in Nodes, NEW what \in Driven, Drive(n, what) PROVE HoldInv'
  <2>1. pool \subseteq pool' /\ UNCHANGED <<chain, log, duty, custody, faults>>
    BY <1>11 DEF Drive, Sends
  <2>. QED  BY <2>1 DEF HoldInv, Undisturbed
<1>12. CASE UNCHANGED dutyVars  BY <1>12 DEF dutyVars, HoldInv, Undisturbed
<1>. QED  BY <1>1, <1>2, <1>3, <1>4, <1>5, <1>6, <1>7, <1>9, <1>10, <1>11, <1>12 DEF DutyNext

(* When nothing is lost, fails, stops or is reordered, waiting for the seats'
   receipts never costs the match its settle window (matchbook.js:286-330),
   for every number of seats, receipts and tries. *)
THEOREM HoldBeatsExpiry == DutySpec => []HeldSettleBeatsExpiry
<1>1. DutyInit => DutyTypes /\ HoldInv  BY TypesStart, HoldStarts
<1>2. DutyTypes /\ HoldInv /\ [DutyNext]_dutyVars => (DutyTypes /\ HoldInv)'
  BY TypesKeep, HoldKeeps
<1>3. DutyTypes /\ HoldInv => HeldSettleBeatsExpiry
  BY DEF HoldInv, HeldSettleBeatsExpiry
<1>. QED  BY <1>1, <1>2, <1>3, PTL DEF DutySpec

-----------------------------------------------------------------------------
(* The match servers of a host: a room is given with a run and taken with it. *)
RoomsInv ==
    /\ DOMAIN rooms = Matches /\ DOMAIN active = Matches
    /\ RoomsFollowActive

LEMMA RoomsStepKeep == RoomsInv /\ [GauntletNext]_gauntletVars => RoomsInv'
<1> SUFFICES ASSUME RoomsInv, [GauntletNext]_gauntletVars PROVE RoomsInv'
  OBVIOUS
<1> USE DEF RoomsInv, RoomsFollowActive
<1>1. CASE UNCHANGED <<active, rooms>>
  BY <1>1
<1>2. ASSUME NEW m, rooms' = [rooms EXCEPT ![m] = NoRun],
             UNCHANGED active \/ active' = [active EXCEPT ![m] = NoRun]
      PROVE  RoomsInv'
  BY <1>2
<1>3. ASSUME NEW m \in Matches, StartCourt(m) PROVE RoomsInv'
  <2>1. PICK r \in Runs : active' = [active EXCEPT ![m] = r]
                          /\ rooms' \in {[rooms EXCEPT ![m] = NoRun], [rooms EXCEPT ![m] = r]}
    BY <1>3 DEF StartCourt
  <2> QED BY <2>1
<1>4. ASSUME NEW m, NEW R, StopMatch(m, R) PROVE RoomsInv'
  BY <1>1, <1>2, <1>4 DEF StopMatch, RoomsAfterStop
<1>5. ASSUME NEW r, NEW R, Collapse(r, R) PROVE RoomsInv'
  BY <1>2, <1>5 DEF Collapse
<1>6. ASSUME NEW r \in Runs, Probe(r) \/ Wait(r) \/ Confirm(r) PROVE RoomsInv'
  BY <1>1, <1>5, <1>6 DEF Probe, Wait, Confirm
<1>7. ASSUME NEW r \in Runs, Ttl(r) \/ GraceOver(r) PROVE RoomsInv'
  BY <1>4, <1>7 DEF Ttl, GraceOver
<1>8. ASSUME NEW r \in Runs, Listen(r) \/ Die(r) \/ SpawnFails(r) PROVE RoomsInv'
  BY <1>1, <1>8 DEF Listen, Die, SpawnFails
<1>9. ASSUME NEW r \in Runs, Exit(r) PROVE RoomsInv'
  BY <1>2, <1>9 DEF Exit
<1>10. ASSUME NEW m \in Matches, StopCourt(m) \/ SettledHere(m) PROVE RoomsInv'
  BY <1>1, <1>4, <1>10 DEF StopCourt, SettledHere
<1> QED BY <1>1, <1>3, <1>6, <1>7, <1>8, <1>9, <1>10 DEF GauntletNext, gauntletVars

(* gauntlet.js: whatever a stop, a failed start or the exit of an earlier
   process overtakes, the gateway sends nobody to a run the node has given up. *)
THEOREM RoomsAreKept == GauntletSpec => []RoomsFollowActive
<1>1. GauntletInit => RoomsInv
  BY DEF GauntletInit, RoomsInv, RoomsFollowActive
<1>2. RoomsInv => RoomsFollowActive
  BY DEF RoomsInv
<1> QED BY <1>1, <1>2, RoomsStepKeep, PTL DEF GauntletSpec
=============================================================================
