------------------------------ MODULE Gauntlet ------------------------------
(* The match servers a node starts, one process per match it hosts, behind one
   gateway (node/gauntlet.js).  A start is asynchronous: it probes for a free
   port, spawns the process and waits for it to listen, and between any two of
   these steps the match may be stopped, settle or be started again, and the
   process may die.  A run is one such start; `active` and `rooms` hold, per
   match, the run that stands for it. *)
EXTENDS Naturals, FiniteSets

CONSTANTS Matches,   \* match ids; a room is named after its match
          Ports,     \* the title's portRange
          Direct,    \* those a publisher formed itself (startDirect)
          MaxDirect, \* the cap on direct matches at once
          MaxRuns    \* bound: starts

ASSUME GauntletAssumption ==
    /\ Direct \subseteq Matches
    /\ IsFiniteSet(Ports) /\ Ports \subseteq Nat \ {0}
    /\ {MaxDirect, MaxRuns} \subseteq Nat

Runs == 1..MaxRuns

NoRun == 0
NoPort == 0

VARIABLES
  run,     \* run[r]: what is known of the r-th start
  active,  \* active[m]: the run the node keeps for m
  rooms,   \* rooms[m]: the run the gateway sends m's players to
  used     \* ports taken

gauntletVars == <<run, active, rooms, used>>

RunStates == {"starting", "up", "stopped", "failed", "exited"}

(* A process is "dead" from its end until the node handles its exit event. *)
RunType == [match: Matches, state: RunStates,
            at: {"unused", "probing", "waiting", "confirming", "done"},
            port: Ports \cup {NoPort}, trying: Ports \cup {NoPort},
            proc: {"none", "booting", "listening", "dead"},
            killed: BOOLEAN, timer: BOOLEAN, ending: BOOLEAN]

GauntletTypeOK ==
    /\ run \in [Runs -> RunType]
    /\ active \in [Matches -> Runs \cup {NoRun}]
    /\ rooms \in [Matches -> Runs \cup {NoRun}]
    /\ used \subseteq Ports

GauntletInit ==
    /\ run = [r \in Runs |-> [match |-> CHOOSE m \in Matches : TRUE, state |-> "stopped",
                    at |-> "unused", port |-> NoPort, trying |-> NoPort, proc |-> "none",
                    killed |-> FALSE, timer |-> FALSE, ending |-> FALSE]]
    /\ active = [m \in Matches |-> NoRun]
    /\ rooms = [m \in Matches |-> NoRun]
    /\ used = {}

Live(r) == run[r].state \in {"starting", "up"}

ListensOn(p) == \E r \in Runs : run[r].proc = "listening" /\ run[r].port = p

(* allocPort asks about the free ports in order; what was taken is skipped. *)
Untried(after) == {p \in Ports \ used : p > after}
Lowest(S) == CHOOSE p \in S : \A q \in S : p <= q

(* The catch of start: the room goes, whichever run holds it by now. *)
Collapsed(r, R) == [R EXCEPT !.state = "failed", !.at = "done", !.trying = NoPort]
CollapsedPorts(r) == used \ {run[r].port}

Collapse(r, R) ==
    /\ run' = [run EXCEPT ![r] = Collapsed(r, R)]
    /\ used' = CollapsedPorts(r)
    /\ rooms' = [rooms EXCEPT ![R.match] = NoRun]
    /\ UNCHANGED active

DirectRuns == {r \in Runs : /\ active[run[r].match] = r
                            /\ run[r].match \in Direct /\ Live(r)}
HasSlot == Cardinality(DirectRuns) < MaxDirect

(* start: idempotent while the match is kept, whatever became of its run.
   The first probe begins at once; with every port taken the start fails. *)
StartCourt(m) ==
    /\ active[m] = NoRun
    /\ m \in Direct => HasSlot
    /\ \E r \in Runs :
         /\ run[r].at = "unused"
         /\ \A q \in Runs : q < r => run[q].at # "unused"
         /\ active' = [active EXCEPT ![m] = r]
         /\ LET R == [run[r] EXCEPT !.match = m, !.state = "starting"]
            IN  IF Untried(NoPort) = {}
                THEN /\ run' = [run EXCEPT ![r] = Collapsed(r, R)]
                     /\ rooms' = [rooms EXCEPT ![m] = NoRun]
                ELSE /\ run' = [run EXCEPT ![r] = [R EXCEPT !.at = "probing",
                                                     !.trying = Lowest(Untried(NoPort))]]
                     /\ rooms' = [rooms EXCEPT ![m] = r]
         /\ UNCHANGED used

(* portFree answers.  It binds the port for a moment: a process on it, or a
   probe of the same port under way, makes it busy.  A free port is taken
   without looking at `used` again, and the process is spawned on it in the
   same turn, unless the secrets policy refuses it. *)
Probe(r) ==
    LET p == run[r].trying
    IN
    /\ run[r].at = "probing"
    /\ \/ /\ ListensOn(p) \/ \E q \in Runs \ {r} : run[q].trying = p
          /\ IF Untried(p) = {} THEN Collapse(r, run[r])
             ELSE /\ run' = [run EXCEPT ![r].trying = Lowest(Untried(p))]
                  /\ UNCHANGED <<active, rooms, used>>
       \/ /\ ~ListensOn(p)
          /\ run' = [run EXCEPT ![r].at = "waiting", ![r].trying = NoPort,
                                ![r].port = p, ![r].proc = "booting"]
          /\ used' = used \cup {p}
          /\ UNCHANGED <<active, rooms>>
       \/ /\ ~ListensOn(p)
          /\ Collapse(r, run[r])

(* The wait for the process to listen ends: it listens, readyMs has passed or
   the run is no longer starting. *)
Wait(r) ==
    /\ run[r].at = "waiting"
    /\ IF run[r].state = "starting"
       THEN /\ run' = [run EXCEPT ![r].at = "confirming"]
            /\ UNCHANGED <<active, rooms, used>>
       ELSE Collapse(r, run[r])

(* The last connection answers for the port, not for the process; the state
   is not looked at again. *)
Confirm(r) ==
    /\ run[r].at = "confirming"
    /\ IF ListensOn(run[r].port)
       THEN /\ run' = [run EXCEPT ![r].at = "done", ![r].state = "up", ![r].timer = TRUE]
            /\ UNCHANGED <<active, rooms, used>>
       ELSE Collapse(r, [run[r] EXCEPT !.killed = run[r].proc # "none"])

(* stop(matchId): the match's present run. *)
Stopped(R) == [R EXCEPT !.timer = FALSE,
                        !.state = IF @ \in {"starting", "up"} THEN "stopped" ELSE @,
                        !.killed = @ \/ (R.state \in {"starting", "up"} /\ R.proc # "none")]

RoomsAfterStop(m) == [rooms EXCEPT ![m] = NoRun]

StopMatch(m, R) ==
    IF active[m] = NoRun
    THEN run' = R /\ UNCHANGED <<active, rooms, used>>
    ELSE LET r == active[m]
         IN /\ run' = [R EXCEPT ![r] = Stopped(R[r])]
            /\ used' = used \ {R[r].port}
            /\ rooms' = RoomsAfterStop(m)
            /\ active' = [active EXCEPT ![m] = NoRun]

StopCourt(m) == active[m] # NoRun /\ StopMatch(m, run)

Ttl(r) == run[r].timer /\ StopMatch(run[r].match, [run EXCEPT ![r].timer = FALSE])

(* onSettled: the stop follows after a grace, by match again. *)
SettledHere(m) ==
    /\ active[m] # NoRun /\ ~run[active[m]].ending
    /\ run' = [run EXCEPT ![active[m]].ending = TRUE]
    /\ UNCHANGED <<active, rooms, used>>

GraceOver(r) == /\ run[r].ending
                /\ StopMatch(run[r].match, [run EXCEPT ![r].ending = FALSE])

---------------------------------------------------------------------------
(* The process, and what its events do. *)

Listen(r) ==
    /\ run[r].proc = "booting" /\ ~run[r].killed /\ ~ListensOn(run[r].port)
    /\ run' = [run EXCEPT ![r].proc = "listening"]
    /\ UNCHANGED <<active, rooms, used>>

Die(r) ==
    /\ run[r].proc \in {"booting", "listening"}
    /\ run' = [run EXCEPT ![r].proc = "dead"]
    /\ UNCHANGED <<active, rooms, used>>

(* It could not be spawned at all: an error and no exit. *)
SpawnFails(r) ==
    /\ run[r].proc = "booting"
    /\ run' = [run EXCEPT ![r].proc = "none", ![r].killed = FALSE,
                            ![r].state = "failed"]
    /\ UNCHANGED <<active, rooms, used>>

(* Mutation: the exit handler forgets the port. *)
ExitedPorts_Kept(r) == used
ExitedPorts(r) == used \ {run[r].port}

Exit(r) ==
    /\ run[r].proc = "dead"
    /\ \E s \in {"exited", "failed"} :
         run' = [run EXCEPT ![r].proc = "none", ![r].killed = FALSE, ![r].timer = FALSE,
                            ![r].state = IF @ = "stopped" THEN @ ELSE s]
    /\ used' = ExitedPorts(r)
    /\ rooms' = [rooms EXCEPT ![run[r].match] = NoRun]
    /\ UNCHANGED active

GauntletNext ==
    \/ \E m \in Matches : StartCourt(m) \/ StopCourt(m) \/ SettledHere(m)
    \/ \E r \in Runs : Probe(r) \/ Wait(r) \/ Confirm(r) \/ Ttl(r) \/ GraceOver(r)
    \/ \E r \in Runs : Listen(r) \/ Die(r) \/ SpawnFails(r) \/ Exit(r)

(* Promises settle, timers fire, a killed or refused process ends and its exit
   is handled.  Nobody has to stop a match, and no process has to listen. *)
Starting(r) == Probe(r) \/ Wait(r) \/ Confirm(r)
Ending(r) == (run[r].killed /\ Die(r)) \/ Exit(r)
GauntletFairness == \A r \in Runs :
    WF_gauntletVars(Starting(r)) /\ WF_gauntletVars(Ttl(r)) /\ WF_gauntletVars(Ending(r))

GauntletSpec == GauntletInit /\ [][GauntletNext]_gauntletVars /\ GauntletFairness

---------------------------------------------------------------------------
(* Properties. *)

(* The gateway never sends players to a run the node no longer keeps for the
   match: a stop, a failed start and the late exit of an earlier process take
   the room with them, and the next start of the match gives it a new one. *)
RoomsFollowActive == \A m \in Matches : rooms[m] # NoRun => rooms[m] = active[m]

(* No port is lost: however starts fail, processes die and matches stop or are
   started again, a port that was taken is free again at some later time. *)
PortsComeBack == \A p \in Ports : (p \in used) ~> (p \notin used)

(* "a court that exited ... must not hold a slot": a publisher never has more
   matches running at once than the title allows it. *)
DirectCapped == Cardinality(DirectRuns) <= MaxDirect
=============================================================================
