----------------------------- MODULE MatchDuty -----------------------------
(* The nodes that carry one committed match to its end: the host that settles
   it and the seats of its first panel, each with the duty it keeps on disk,
   the events of the contract it has absorbed, the steps it has tried and the
   custody copies of the ledger (node/matchbook.js), against the contract's
   match (contracts/MatchBook.sol) and a transaction pool that may lose what
   was sent.  Clocks are abstracted to the age of the match's present window:
   0 it runs, 1 a settle is no longer held (the margin before its end, or the
   end of the hold itself), 2 it has lapsed.  Every step a node
   sends is estimated first, so a call the contract would refuse sends
   nothing. *)
EXTENDS Naturals, Sequences, FiniteSets, Functions

CONSTANTS MaxLag,       \* bound: events a node has not read yet
          Host, Seats,  \* the host's key and the keys of the first panel
          Need,         \* seats that must hold the ledger before it settles, if
                        \* so many take custody at all
          Agreeing,     \* answers that make a result final
          MaxTries,     \* times a held settle is sent
          MaxFaults     \* bound: losses, crashes, failed sends, reorderings

ASSUME DutyAssumption ==
    /\ Host \notin Seats /\ IsFiniteSet(Seats)
    /\ {Need, Agreeing, MaxFaults} \subseteq Nat /\ MaxTries \in Nat \ {0}

Nodes == {Host} \cup Seats

VARIABLES
  chain,     \* the match in the contract
  log,       \* the events it emitted, in order
  pool,      \* transactions sent and not yet mined
  heard,     \* heard[n]: indices of log in n's event file (and memory)
  duty,      \* duty[n]: the status n's duty shows, "none" without a duty
  saved,     \* saved[n]: the duty in n's duty file
  tried,     \* tried[n]: steps n has sent for the present status
  attested,  \* seats that remember having answered, while answers count
  held,      \* seats with a verified copy of the ledger on disk
  custody,   \* the host's held settle
  faults

dutyVars == <<chain, log, pool, heard, duty, saved, tried, attested, held, custody, faults>>

Open == {"committed", "settled", "escalating", "escalated"}
Over == {"final", "void"}
DutyStatus == {"none"} \cup Open
Steps == {"settle", "finalize", "escalate", "expire", "resolve"}
Events == {"Committed", "Settled", "Extended", "Escalating", "Escalated", "Finalized"}

(* The result is known to the host (it committed the match itself) from the
   start; "played" is whether the players' ledger has arrived. *)
DutyInit ==
    /\ chain = [status |-> "committed", age |-> 0, yes |-> {}, no |-> {},
                extended |-> FALSE, custodians |-> {}, unsettled |-> FALSE]
    /\ log = <<"Committed">>
    /\ pool = {}
    /\ heard = [n \in Nodes |-> {}]
    /\ duty = [n \in Nodes |-> "none"]
    /\ saved = duty
    /\ tried = [n \in Nodes |-> {}]
    /\ attested = {} /\ held = {}
    /\ custody = [state |-> "unplayed", committed |-> TRUE, need |-> 0, holders |-> {}, tries |-> 0]
    /\ faults = 0

Heard(n, e) == \E i \in heard[n] : log[i] = e
Fault == faults < MaxFaults /\ faults' = faults + 1

-----------------------------------------------------------------------------
(* The contract *)

Emit(e) == /\ log' = Append(log, e)
           /\ \A n \in Nodes : Cardinality(DOMAIN log \ heard[n]) < MaxLag
(* The match enters a status; answers count in the attest window only. *)
Now(status) == [chain EXCEPT !.status = status, !.age = 0, !.yes = {}, !.no = {}]

(* The steps the contract may still accept of a match in this status: what is
   left of a transaction that came too late for good reverts and is forgotten. *)
StillPossible(status) ==
    CASE status = "committed"  -> Steps
      [] status = "settled"    -> Steps \ {"settle"}
      [] status = "escalating" -> {"escalate", "expire", "resolve"}
      [] status = "escalated"  -> {"resolve"}
      [] OTHER                 -> {}

(* What the contract accepts of a transaction, now. *)
Accepts(t) ==
    CASE t.step = "settle"   -> chain.status = "committed" /\ chain.age < 2
      [] t.step = "finalize" -> chain.status = "settled"
                                /\ (chain.age = 2 \/ chain.yes \cup chain.no = Seats)
      [] t.step = "escalate" -> chain.status = "escalating" /\ chain.age = 1
      [] t.step = "expire"   -> chain.status \in {"committed", "escalating"} /\ chain.age = 2
      [] t.step = "resolve"  -> chain.status = "escalated" /\ chain.age = 2

Ended(status) ==
    /\ chain' = [Now(status) EXCEPT !.custodians = {}, !.unsettled = chain.status = "committed"]
    /\ Emit("Finalized")

Decided ==
    \/ /\ chain.no = {} /\ Cardinality(chain.yes) >= Agreeing
       /\ Ended("final")
    \/ /\ chain.no = {} /\ Cardinality(chain.yes) < Agreeing /\ ~chain.extended
       /\ chain' = [Now("settled") EXCEPT !.extended = TRUE, !.yes = chain.yes] /\ Emit("Extended")
    \/ /\ chain.no # {} \/ (Cardinality(chain.yes) < Agreeing /\ chain.extended)
       /\ chain' = Now("escalating") /\ Emit("Escalating")

Executes(t) ==
    CASE t.step = "settle" ->
           /\ chain' = [Now("settled") EXCEPT !.custodians = t.holders]
           /\ Emit("Settled")
      [] t.step = "finalize" -> Decided
      [] t.step = "escalate" -> \/ chain' = Now("escalated") /\ Emit("Escalated")
                                \/ Ended("void")   \* too few candidates for nine seats
      [] t.step = "expire"   -> Ended("void")
      [] t.step = "resolve"  -> \E s \in Over : Ended(s)

Mine(t) ==
    /\ t \in pool
    /\ IF Accepts(t) THEN Executes(t) ELSE UNCHANGED <<chain, log>>
    /\ pool' = {u \in pool \ {t} : u.step \in StillPossible(chain'.status)}
    /\ attested' = IF chain'.status = "settled" THEN attested ELSE {}
    /\ UNCHANGED <<heard, duty, saved, tried, held, custody, faults>>

LoseTx(t) ==
    /\ t \in pool /\ Fault
    /\ pool' = pool \ {t}
    /\ UNCHANGED <<chain, log, heard, duty, saved, tried, attested, held, custody>>

(* The settle margin (30 s) is long against the host's poll (2 s) and a block:
   a held settle that can still go out does so before the window lapses. *)
EnoughHold == Cardinality(custody.holders) >= custody.need
HeldDue_NoDeadline == EnoughHold /\ custody.tries < MaxTries
HeldDue == (EnoughHold \/ chain.age > 0) /\ custody.tries < MaxTries
SettleUnderWay == \/ custody.state = "waiting" /\ HeldDue
                  \/ \E t \in pool : t.step = "settle"
Age ==
    /\ chain.status \notin Over /\ chain.age < 2
    /\ \/ chain.status \in {"committed", "escalating"} /\ chain' = [chain EXCEPT !.age = @ + 1]
       \/ chain.status \notin {"committed", "escalating"} /\ chain' = [chain EXCEPT !.age = 2]
    /\ chain.status = "committed" /\ chain.age = 1 => ~SettleUnderWay
    /\ UNCHANGED <<log, pool, heard, duty, saved, tried, attested, held, custody, faults>>

-----------------------------------------------------------------------------
(* Sending *)

(* A call that would revert is refused at its estimate and leaves no mark. *)
Sends(t) == Accepts(t) /\ pool' = pool \cup {t}
Tx(n, s) == [from |-> n, step |-> s, holders |-> {}]

-----------------------------------------------------------------------------
(* Absorbing events *)

StatusAfter(d, e) ==
    IF d = "none" THEN IF e = "Committed" THEN "committed" ELSE "none"
    ELSE CASE e = "Committed"  -> d
           [] e \in {"Settled", "Extended"} -> "settled"
           [] e = "Escalating" -> "escalating"
           [] e = "Escalated"  -> "escalated"
           [] e = "Finalized"  -> "none"

TriedAfter(n, e) == IF e = "Committed" THEN tried[n] ELSE {}

(* A Committed never goes behind the duty it finds; every other event drops
   what was tried, a Settled and a Finalized also end the held settle. *)
AbsorbEvent(n, i) ==
    LET d == StatusAfter(duty[n], log[i]) IN
    /\ heard' = [heard EXCEPT ![n] = @ \cup {i}]
    /\ duty' = [duty EXCEPT ![n] = d]
    /\ saved' = [saved EXCEPT ![n] = d]
    /\ tried' = [tried EXCEPT ![n] = TriedAfter(n, log[i])]
    /\ custody' = IF n = Host /\ log[i] \in {"Settled", "Finalized"} /\ custody.state = "waiting"
                  THEN [custody EXCEPT !.state = "closed", !.holders = {}] ELSE custody
    /\ held' = IF log[i] = "Finalized" /\ chain.status = "void" THEN held \ {n} ELSE held
    /\ UNCHANGED <<chain, log, pool, attested>>

Unheard(n) == DOMAIN log \ heard[n]

Absorb(n) ==
    /\ \E i \in Unheard(n) : (\A j \in Unheard(n) : i <= j) /\ AbsorbEvent(n, i)
    /\ UNCHANGED faults
AbsorbEarly(n) ==
    /\ \E i \in Unheard(n) : (\E j \in Unheard(n) : j < i) /\ AbsorbEvent(n, i)
    /\ Fault

(* A node stops and starts again: it replays its event file, then lays its
   duty file over what came out, then drops the duty of a match whose
   Finalized it has.  A stop between the two writes of one event leaves a
   duty file older than the event file. *)
Replayed_FileOnly(n, known) == saved[n]
Replayed(n, known) ==
    IF \E i \in known : log[i] = "Finalized" THEN "none"
    ELSE IF saved[n] # "none" THEN saved[n]
    ELSE IF \E i \in known : log[i] = "Committed" THEN "committed" ELSE "none"

Restart(n) ==
    /\ \E torn \in SUBSET Unheard(n) :
         /\ Cardinality(torn) <= 1
         /\ heard' = [heard EXCEPT ![n] = @ \cup torn]
         /\ duty' = [duty EXCEPT ![n] = Replayed(n, heard'[n])]
    /\ tried' = [tried EXCEPT ![n] = {}]
    /\ attested' = attested \ {n}
    /\ custody' = IF n = Host THEN [custody EXCEPT !.committed = FALSE] ELSE custody
    /\ Fault
    /\ UNCHANGED <<chain, log, pool, saved, held>>

-----------------------------------------------------------------------------
(* The host: settle, once its seats hold the ledger *)

SettleTx(H) == [from |-> Host, step |-> "settle", holders |-> H]
Settled(n) == duty' = [duty EXCEPT ![n] = "settled"] /\ saved' = [saved EXCEPT ![n] = "settled"]

(* A settle that is not held names the whole panel, whatever it holds. *)
SettleAtOnce ==
    \/ /\ Sends(SettleTx(Seats)) /\ Settled(Host)
       /\ custody' = [custody EXCEPT !.state = "direct"]
       /\ UNCHANGED faults
    \/ /\ custody' = [custody EXCEPT !.state = "late"]
       /\ IF Accepts(SettleTx(Seats)) THEN Fault ELSE UNCHANGED faults
       /\ UNCHANGED <<pool, duty, saved>>

(* settle(): nothing on chain for a match this host does not know committed;
   held for custody while the window has room and some seat's heartbeat says
   it takes custody, sent at once otherwise. *)
PlayedOut ==
    /\ custody.state = "unplayed" /\ chain.status \notin Over
    /\ IF custody.committed \/ Heard(Host, "Committed")
       THEN \E need \in 0..Need :
              IF need > 0 /\ chain.age = 0
              THEN /\ custody' = [custody EXCEPT !.state = "waiting", !.need = need]
                   /\ saved' = [saved EXCEPT ![Host] = duty[Host]]
                   /\ UNCHANGED <<pool, duty, faults>>
              ELSE SettleAtOnce
       ELSE /\ custody' = [custody EXCEPT !.state = "skipped"]
            /\ UNCHANGED <<pool, duty, saved, faults>>
    /\ UNCHANGED <<chain, log, heard, tried, attested, held>>

(* takeCustody: a seat of the match fetches, checks and keeps the ledger... *)
TakeLedger(s) ==
    /\ custody.state = "waiting" /\ Heard(s, "Committed") /\ s \notin held
    /\ held' = held \cup {s}
    /\ UNCHANGED <<chain, log, pool, heard, duty, saved, tried, attested, custody, faults>>

(* ... and then tells the host, which counts each seat once. *)
SendReceipt(s) ==
    /\ custody.state = "waiting" /\ s \in held /\ s \notin custody.holders
    /\ custody' = [custody EXCEPT !.holders = @ \cup {s}]
    /\ UNCHANGED <<chain, log, pool, heard, duty, saved, tried, attested, held, faults>>

(* The custodians of a held settle: the seats whose receipts came. *)
Custodians_Panel == Seats
Custodians == custody.holders

SettleHeld ==
    /\ custody.state = "waiting"
    /\ \/ /\ HeldDue
          /\ \/ Sends(SettleTx(Custodians)) /\ Settled(Host)
                /\ custody' = [custody EXCEPT !.state = "closed", !.holders = {}] /\ UNCHANGED faults
             \/ /\ UNCHANGED <<pool, duty, saved>>
                /\ custody' = [custody EXCEPT !.tries = @ + 1]
                /\ IF Accepts(SettleTx({})) THEN Fault ELSE UNCHANGED faults
       \/ /\ custody.tries >= MaxTries \/ duty[Host] \in {"settled", "escalating", "escalated"}
          /\ custody' = [custody EXCEPT !.state = IF custody.tries >= MaxTries THEN "given up" ELSE "closed",
                                     !.holders = {}]
          /\ UNCHANGED <<pool, duty, saved, faults>>
    /\ UNCHANGED <<chain, log, heard, tried, attested, held>>

-----------------------------------------------------------------------------
(* The seats: replay and answer, once *)

(* The seat remembers that it answered before it knows whether the answer got
   through: one that is refused, dropped or mined too late is never repeated. *)
Witness(s) ==
    /\ Heard(s, "Settled") /\ Heard(s, "Committed") /\ s \notin attested
    /\ chain.status = "settled" /\ chain.age < 2
    /\ attested' = attested \cup {s}
    /\ held' = held \cup {s}
    /\ \/ UNCHANGED chain
       \/ /\ s \notin chain.yes \cup chain.no
          /\ \/ chain' = [chain EXCEPT !.yes = @ \cup {s}]
             \/ chain' = [chain EXCEPT !.no = @ \cup {s}]
    /\ UNCHANGED <<log, pool, heard, duty, saved, tried, custody, faults>>

-----------------------------------------------------------------------------
(* The ladder every node drives *)

HasLedger(n) == n \in held \/ (n = Host /\ custody.state # "unplayed")

Wants_OwnEscalation(n, what) ==
    CASE what = "expire"   -> duty[n] = "escalating"
      [] what = "finalize" -> duty[n] = "settled"
      [] what = "escalate" -> duty[n] = "escalating" /\ HasLedger(n)
      [] what = "resolve"  -> duty[n] = "escalated"

Wants(n, what) ==
    CASE what = "expire"   -> \/ duty[n] = "committed" /\ n \in Seats
                              \/ duty[n] = "escalating"
      [] what = "finalize" -> duty[n] = "settled"
      [] what = "escalate" -> duty[n] = "escalating" /\ HasLedger(n)
      [] what = "resolve"  -> duty[n] = "escalated"

Drive(n, what) ==
    /\ Wants(n, what) /\ what \notin tried[n]
    /\ Sends(Tx(n, what))
    /\ tried' = [tried EXCEPT ![n] = @ \cup {what}]
    /\ UNCHANGED <<chain, log, heard, duty, saved, attested, held, custody, faults>>

Driven == {"expire", "finalize", "escalate", "resolve"}

DutyNext ==
    \/ \E t \in pool : Mine(t) \/ LoseTx(t)
    \/ Age \/ PlayedOut \/ SettleHeld
    \/ \E n \in Nodes : Absorb(n) \/ AbsorbEarly(n) \/ Restart(n)
    \/ \E s \in Seats : TakeLedger(s) \/ SendReceipt(s) \/ Witness(s)
    \/ \E n \in Nodes, what \in Driven : Drive(n, what)

(* Polls repeat every few seconds, blocks are mined and clocks run on. *)
DutyFairness ==
    /\ WF_dutyVars(\E t \in pool : Mine(t)) /\ WF_dutyVars(Age)
    /\ WF_dutyVars(SettleHeld)
    /\ \A n \in Nodes : WF_dutyVars(Absorb(n))
    /\ \A n \in Nodes : WF_dutyVars(\E what \in Driven : Drive(n, what))

DutySpec == DutyInit /\ [][DutyNext]_dutyVars /\ DutyFairness

-----------------------------------------------------------------------------
(* Properties *)

DutyTypeOK ==
    /\ chain.status \in Open \cup Over /\ chain.age \in 0..2
    /\ chain.yes \cup chain.no \subseteq Seats
    /\ Range(log) \subseteq Events
    /\ heard \in [Nodes -> SUBSET DOMAIN log]
    /\ duty \in [Nodes -> DutyStatus] /\ saved \in [Nodes -> DutyStatus]
    /\ tried \in [Nodes -> SUBSET Steps]
    /\ attested \cup held \cup custody.holders \subseteq Seats
    /\ faults \in 0..MaxFaults

(* A seat the Settled event names as a custodian of a settle that was held has
   the ledger on its own disk, until the match is void: the host may disappear
   after it settled without taking the only copy along. *)
NamedCustodiansHold ==
    chain.status \in Open /\ custody.state # "direct" => chain.custodians \subseteq held

(* The same of every settle, as settleHeld's comment has it: "the custodians on
   chain are the host and the seats that said they hold it - no longer every
   seat, whatever it holds".  A settle that is sent at once names every seat. *)
EveryNamedSeatHolds == chain.status \in Open => chain.custodians \subseteq held

(* A node that has read a match's Committed and not its Finalized has a duty
   for it, whatever was restarted in between and whichever of its two files
   was written last. *)
DutySurvives ==
    \A n \in Nodes : Heard(n, "Committed") /\ ~Heard(n, "Finalized") => duty[n] # "none"

(* When nothing is lost, fails, stops or is reordered, holding the settle for
   custody never costs the match its settle window: a match whose ledger came
   in while the window had room is not expired as unsettled. *)
HeldSettleBeatsExpiry ==
    faults = 0 /\ chain.unsettled => custody.state \in {"unplayed", "late"}

(* Whatever single transaction is lost, send fails, node stops or event comes
   early, the remaining nodes carry the match to its end. *)
MatchIsCarried == <>(chain.status \in Over)

=============================================================================
