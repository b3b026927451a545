------------------------------ MODULE Verifier ------------------------------
(* A witness re-runs an attested result before it co-signs (node/verifier.js).
   Several results are checked at once and overlap at every await; the runs
   themselves go one at a time, in the order they were asked for, under a budget
   per UTC day.  Time is in units of the budget, charged when a run ends to the
   day it ends on. *)
EXTENDS Integers, Sequences

CONSTANTS Checks,      \* results a witness is asked to check
          BundleOf,    \* BundleOf[c]: the verifier bundle the result names
          Broken,      \* bundles whose own bytes are refused
          Own,         \* bundles of the operator's own files, trusted regardless
          Budget,      \* units of one day
          Deadline,    \* the longest run
          LastDay,     \* bound: the last day
          MaxRegistry, \* bound: how often the registry lists or revokes
          DiskMayFail  \* whether a write of budget.json may fail

VerifierBundles == {BundleOf[c] : c \in Checks}

ASSUME VerifierAssumption ==
    /\ Broken \subseteq VerifierBundles /\ Own \subseteq VerifierBundles \ Broken
    /\ Budget \in Nat /\ Deadline \in Nat \ {0} /\ LastDay \in Nat /\ MaxRegistry \in Nat
    /\ DiskMayFail \in BOOLEAN

VARIABLES
  today,     \* the UTC day
  budget,    \* the units used, of which day: in memory
  saved,     \* the same in budget.json
  bundles,   \* the bundles held, in memory and on disk
  barred,    \* barred[b]: "no", "a minute" or "for good"
  listed,    \* the bundles whose title's publisher has them registered
  moves,     \* how often listed changed
  check,     \* check[c]: where the check of a result stands
  line,      \* the runs asked for, the one under way first
  foundBroken, \* history: the bundles barred for good since the node started
  charged    \* history: the units of the runs that ended today

verifierVars == <<today, budget, saved, bundles, barred, listed, moves, check, line, foundBroken, charged>>

Unused(d) == [day |-> d, units |-> 0]

VerifierInit ==
    /\ today = 0 /\ budget = Unused(0) /\ saved = Unused(0) /\ charged = 0
    /\ bundles = Own /\ barred = [b \in VerifierBundles |-> "no"] /\ foundBroken = {}
    /\ listed = VerifierBundles /\ moves = 0
    /\ check = [c \in Checks |-> "new"] /\ line = <<>>

To(c, at) == check' = [check EXCEPT ![c] = at]

(* used: the first look on a new day starts it at nothing. *)
Used == IF budget.day = today THEN budget ELSE Unused(today)

-----------------------------------------------------------------------------
(* A check, up to its place in the line *)

(* Over budget nothing is checked; a log nobody serves ends it too. *)
BeginCheck(c) ==
    /\ check[c] = "new"
    /\ budget' = Used
    /\ \/ Used.units >= Budget /\ To(c, "skipped")
       \/ Used.units < Budget /\ \E at \in {"log held", "skipped"} : To(c, at)
    /\ UNCHANGED <<today, saved, bundles, barred, listed, moves, line, foundBroken, charged>>

(* ensure: held already, refused not long ago, or asked of the registry. *)
Ensure(c) ==
    LET b == BundleOf[c] IN
    /\ check[c] = "log held"
    /\ To(c, IF b \in bundles THEN "bundle held"
             ELSE IF barred[b] # "no" THEN "skipped" ELSE "asking")
    /\ UNCHANGED <<today, budget, saved, bundles, barred, listed, moves, line, foundBroken, charged>>

Bar(b, how) == barred' = [barred EXCEPT ![b] = how]

(* The registry's answer; the refusal is written over whatever stands there. *)
RegistryAnswers(c) ==
    LET b == BundleOf[c] IN
    /\ check[c] = "asking"
    /\ \/ b \in listed /\ To(c, "fetching") /\ UNCHANGED barred
       \/ b \notin listed /\ To(c, "skipped") /\ Bar(b, "a minute")
    /\ UNCHANGED <<today, budget, saved, bundles, listed, moves, line, foundBroken, charged>>

(* A peer served the bundle. *)
Install(c) ==
    LET b == BundleOf[c] IN
    /\ check[c] = "fetching" /\ b \notin Broken
    /\ bundles' = bundles \cup {b} /\ Bar(b, "no") /\ To(c, "bundle held")
    /\ UNCHANGED <<today, budget, saved, listed, moves, line, foundBroken, charged>>

(* Its bytes are the bundle's own fault. *)
FindBroken(c) ==
    LET b == BundleOf[c] IN
    /\ check[c] = "fetching" /\ b \in Broken
    /\ Bar(b, "for good") /\ foundBroken' = foundBroken \cup {b} /\ To(c, "skipped")
    /\ UNCHANGED <<today, budget, saved, bundles, listed, moves, line, charged>>

(* Nobody serves it; or a peer does not answer, which bars it for a minute without asking the next. *)
FetchFails(c) ==
    /\ check[c] = "fetching"
    /\ barred' = barred \/ Bar(BundleOf[c], "a minute")
    /\ To(c, "skipped")
    /\ UNCHANGED <<today, budget, saved, bundles, listed, moves, line, foundBroken, charged>>

(* trusted, and the run is asked for at once. *)
AskToRun(c) ==
    /\ check[c] = "bundle held"
    /\ \/ BundleOf[c] \in Own \cup listed /\ To(c, "in line") /\ line' = Append(line, c)
       \/ BundleOf[c] \notin Own \cup listed /\ To(c, "skipped") /\ UNCHANGED line
    /\ UNCHANGED <<today, budget, saved, bundles, barred, listed, moves, foundBroken, charged>>

-----------------------------------------------------------------------------
(* The line *)

(* The child process starts once the one before it has ended, however it ended. *)
Spawn(c) ==
    /\ line # <<>> /\ Head(line) = c /\ check[c] = "in line"
    /\ To(c, "running")
    /\ UNCHANGED <<today, budget, saved, bundles, barred, listed, moves, line, foundBroken, charged>>

(* spend *)
Charge_Unsaved(u) == budget' = [Used EXCEPT !.units = @ + u] /\ saved' = saved
Charge(u) ==
    /\ budget' = [Used EXCEPT !.units = @ + u]
    /\ saved' = budget' \/ (DiskMayFail /\ saved' = saved)

(* It agrees, refuses the log, or the runner failed: the deadline, the memory, no
   answer.  One that could not be started takes no time. *)
EndRun(c) ==
    /\ check[c] = "running"
    /\ \E at \in {"agrees", "disagrees", "failed"} : To(c, at)
    /\ \E u \in 0..Deadline : Charge(u) /\ charged' = charged + u
    /\ line' = Tail(line)
    /\ UNCHANGED <<today, bundles, barred, listed, moves, foundBroken>>

-----------------------------------------------------------------------------
(* Around them *)

MinutePasses(b) ==
    /\ barred[b] = "a minute" /\ Bar(b, "no")
    /\ UNCHANGED <<today, budget, saved, bundles, listed, moves, check, line, foundBroken, charged>>

RegisterOrRevoke(b) ==
    /\ moves < MaxRegistry /\ moves' = moves + 1
    /\ listed' = IF b \in listed THEN listed \ {b} ELSE listed \cup {b}
    /\ UNCHANGED <<today, budget, saved, bundles, barred, check, line, foundBroken, charged>>

Midnight ==
    /\ today < LastDay /\ today' = today + 1 /\ charged' = 0
    /\ UNCHANGED <<budget, saved, bundles, barred, listed, moves, check, line, foundBroken>>

(* What was written of today's budget counts again. *)
Loaded == IF saved.day = today THEN saved ELSE Unused(today)

Unfinished(c) == check[c] \notin {"new", "skipped", "agrees", "disagrees", "failed"}

(* The node restarts: its bundles are on disk, its checks begin anew. *)
RestartWitness ==
    /\ budget' = Loaded /\ line' = <<>>
    /\ barred' = [b \in VerifierBundles |-> "no"] /\ foundBroken' = {}
    /\ check' = [c \in Checks |-> IF Unfinished(c) THEN "new" ELSE check[c]]
    /\ UNCHANGED <<today, saved, bundles, listed, moves, charged>>

VerifierNext ==
    \/ \E c \in Checks : \/ BeginCheck(c) \/ Ensure(c) \/ RegistryAnswers(c) \/ Install(c)
                         \/ FindBroken(c) \/ FetchFails(c) \/ AskToRun(c) \/ Spawn(c) \/ EndRun(c)
    \/ \E b \in VerifierBundles : MinutePasses(b) \/ RegisterOrRevoke(b)
    \/ Midnight \/ RestartWitness

VerifierSpec == VerifierInit /\ [][VerifierNext]_verifierVars

-----------------------------------------------------------------------------
(* Properties *)

(* What the node remembers, holds and waits for has the shape verifier.js gives it. *)
VerifierTypeOK ==
    /\ {budget, saved} \subseteq [day : 0..LastDay, units : Nat]
    /\ bundles \subseteq VerifierBundles \ Broken /\ listed \subseteq VerifierBundles
    /\ barred \in [VerifierBundles -> {"no", "a minute", "for good"}]
    /\ check \in [Checks -> {"new", "log held", "asking", "fetching", "bundle held", "in line",
                             "running", "skipped", "agrees", "disagrees", "failed"}]
    /\ line \in Seq(Checks)

(* "persisted: a restart is not a reset" (verifier.js:80): what counts against
   the day is what its runs took, across restarts and midnights, as long as the
   disk takes the writes. *)
TheDaysBudgetStands == Used.units = charged

(* "One run at a time" (verifier.js:22), though every check asks for its own. *)
OneRunAtATime == \A c, d \in Checks : check[c] = "running" /\ check[d] = "running" => c = d

(* "at most VERIFY_BUDGET_MIN minutes of runs per UTC day" (verifier.js:22), but
   for the end of the run that uses the budget up.  Does not hold: the budget is
   read before the wait in line and not again. *)
OneOverrun == charged < Budget + Deadline

(* "a revoked verifier stops being run at once" (verifier.js:17).  Does not hold:
   trust is read before the wait in line. *)
RevokedStopsAtOnce ==
    [][\A c \in Checks : Spawn(c) => BundleOf[c] \in Own \cup listed]_verifierVars

(* "bytes that are the bundle's own fault are never asked for again"
   (verifier.js:127), while the node runs.  Does not hold: a check that was past the refusal when it was
   written writes a shorter one over it. *)
BrokenStaysBarred == \A b \in foundBroken : barred[b] = "for good"
=============================================================================
