------------------------------ MODULE Services ------------------------------
(* One publisher service a node keeps running (node/publisher-services.js): it
   is launched, probed until it listens, relaunched after a backoff when it
   exits, restarted when the node's public address moves and stopped with the
   node.  The supervisor remembers one child; launches, restarts and the exits
   of earlier processes overlap freely. *)
EXTENDS Naturals, FiniteSets

CONSTANTS Procs,       \* bound: processes and launches there are at once
          MaxMoves     \* bound: changes of the public address

ASSUME ServicesAssumption == IsFiniteSet(Procs) /\ MaxMoves \in Nat

VARIABLES
  svc,      \* the supervisor: its state, its child ({} for none), its backoff timers
  proc,     \* proc[p]: a process, and the launch that waits for it
  address,  \* the node's public address
  seen      \* the address the watch compared last

servicesVars == <<svc, proc, address, seen>>

NotLaunched == [os |-> "none", wait |-> "none", killed |-> FALSE, again |-> 0, names |-> 0]

(* os: "dead" until the exit event is handled; wait: what launch() awaits;
   again: listeners a restart left for the exit; names: the address in the
   process's environment. *)
ProcType == [os: {"none", "booting", "listening", "dead"},
             wait: {"none", "waiting", "confirming"},
             killed: BOOLEAN, again: 0..MaxMoves, names: 0..MaxMoves]

ServicesTypeOK ==
    /\ svc \in [state: {"off", "starting", "up", "stopping", "restarting"},
                child: SUBSET Procs, timers: 0..(Cardinality(Procs) + 1),
                stopped: BOOLEAN]
    /\ proc \in [Procs -> ProcType]
    /\ {address, seen} \subseteq 0..MaxMoves

ServicesInit ==
    /\ svc = [state |-> "off", child |-> {}, timers |-> 1, stopped |-> FALSE]
    /\ proc = [p \in Procs |-> NotLaunched]
    /\ address = 0 /\ seen = 0

(* Mutation: launch forgets that the node is stopping. *)
MayLaunch_Always(s) == TRUE
MayLaunch(s) == ~s.stopped

(* launch() called n times in one turn on supervisor s and processes P: every
   call spawns a process and the last one is the child. *)
Launch(n, s, P) ==
    IF n = 0 \/ ~MayLaunch(s) THEN svc' = s /\ proc' = P
    ELSE \E new \in SUBSET {p \in Procs : P[p].os = "none" /\ P[p].wait = "none"} :
           /\ Cardinality(new) = n
           /\ \E p \in new : svc' = [s EXCEPT !.state = "starting", !.child = {p}]
           /\ proc' = [p \in Procs |->
                IF p \in new THEN [NotLaunched EXCEPT !.os = "booting", !.wait = "waiting",
                                                      !.names = address]
                ELSE P[p]]

Relaunch ==
    /\ svc.timers > 0
    /\ Launch(1, [svc EXCEPT !.timers = @ - 1], proc)
    /\ UNCHANGED <<address, seen>>

ServiceListens == \E p \in Procs : proc[p].os = "listening"

(* The launch stops waiting: its process is no longer the child, the port
   answers or readyMs has passed. *)
Waited(p) ==
    /\ proc[p].wait = "waiting"
    /\ proc' = [proc EXCEPT ![p].wait = IF svc.child = {p} THEN "confirming" ELSE "none"]
    /\ UNCHANGED <<svc, address, seen>>

(* The last connection decides, and nothing is read again after it. *)
Confirmed(p) ==
    /\ proc[p].wait = "confirming"
    /\ IF ServiceListens
       THEN /\ svc' = [svc EXCEPT !.state = "up"]
            /\ proc' = [proc EXCEPT ![p].wait = "none"]
       ELSE /\ proc' = [proc EXCEPT ![p].wait = "none",
                                    ![p].killed = proc[p].os = "booting"]
            /\ UNCHANGED svc
    /\ UNCHANGED <<address, seen>>

Bind(p) ==
    /\ proc[p].os = "booting" /\ ~ServiceListens /\ ~proc[p].killed
    /\ proc' = [proc EXCEPT ![p].os = "listening"]
    /\ UNCHANGED <<svc, address, seen>>

(* It was killed, crashed, or found its port taken. *)
End(p) ==
    /\ proc[p].os \in {"booting", "listening"}
    /\ proc' = [proc EXCEPT ![p].os = "dead"]
    /\ UNCHANGED <<svc, address, seen>>

(* The exit event, of whichever process: the supervisor's handler first, then
   the listeners restart left on it. *)
Exited(p) ==
    /\ proc[p].os = "dead"
    /\ LET wanted == svc.stopped \/ svc.state = "stopping"
           s == [svc EXCEPT !.child = {},
                            !.state = IF wanted THEN "off" ELSE "restarting",
                            !.timers = IF wanted THEN @ ELSE @ + 1]
       IN  /\ s.timers <= Cardinality(Procs) + 1
           /\ Launch(proc[p].again, s,
                     [proc EXCEPT ![p] = [NotLaunched EXCEPT !.wait = proc[p].wait]])
    /\ UNCHANGED <<address, seen>>

MoveAddress ==
    /\ address < MaxMoves /\ address' = address + 1
    /\ UNCHANGED <<svc, proc, seen>>

SeenNow == address

(* The watch, with restart(): a service whose environment names the address is
   killed, to be launched again when it exits. *)
Watch ==
    /\ ~svc.stopped /\ address # seen
    /\ seen' = SeenNow
    /\ IF svc.child = {} THEN UNCHANGED <<svc, proc>>
       ELSE /\ svc' = [svc EXCEPT !.state = "stopping"]
            /\ proc' = [p \in Procs |-> IF p \in svc.child
                                        THEN [proc[p] EXCEPT !.killed = TRUE, !.again = @ + 1]
                                        ELSE proc[p]]
    /\ UNCHANGED address

StopServices ==
    /\ ~svc.stopped
    /\ IF svc.child = {}
       THEN svc' = [svc EXCEPT !.stopped = TRUE] /\ UNCHANGED proc
       ELSE /\ svc' = [svc EXCEPT !.stopped = TRUE, !.state = "stopping"]
            /\ proc' = [p \in Procs |-> IF p \in svc.child THEN [proc[p] EXCEPT !.killed = TRUE]
                                        ELSE proc[p]]
    /\ UNCHANGED <<address, seen>>

ServicesNext ==
    \/ Relaunch \/ MoveAddress \/ Watch \/ StopServices
    \/ \E p \in Procs : Waited(p) \/ Confirmed(p) \/ Bind(p) \/ End(p) \/ Exited(p)

(* Timers fire, promises settle, the watch runs every few seconds, and a killed
   process ends and its exit is handled. *)
ServicesFairness ==
    /\ WF_servicesVars(Relaunch) /\ WF_servicesVars(Watch)
    /\ \A p \in Procs :
         /\ WF_servicesVars(Waited(p)) /\ WF_servicesVars(Confirmed(p))
         /\ WF_servicesVars(proc[p].killed /\ End(p)) /\ WF_servicesVars(Exited(p))

ServicesSpec == ServicesInit /\ [][ServicesNext]_servicesVars /\ ServicesFairness

---------------------------------------------------------------------------
(* Properties. *)

(* Once the node stops its services no process of one starts, whatever backoff,
   restart or exit is still under way. *)
NothingAfterStop ==
    [][svc.stopped => \A p \in Procs : proc[p].os = "none" => proc'[p].os = "none"]_servicesVars
=============================================================================
