--------------------------- MODULE GatewayOwnership --------------------------
(***************************************************************************)
(* The Gateway as the Manager controls it: requests that inspect, start,   *)
(* stop and restart it through OpenClaw's command line or enrol and remove *)
(* its logon task, the uninstaller's own removal of that task, and the     *)
(* supervisor of a Manager started at logon.  A step is one command, one   *)
(* query or one access to the ownership flag, so what was observed may be  *)
(* out of date when it is used.  actionMu is held by every operation but   *)
(* status (and by no other process).                                       *)
(***************************************************************************)
EXTENDS Naturals, FiniteSets

CONSTANTS
  Requests,   \* slots for concurrent requests
  Ops,        \* the operations each of them may ask for
  Attempts,   \* supervised runs after one start of the Manager (code: 3)
  Faults,     \* a subset of FaultKinds
  World       \* what others do, a subset of WorldKinds

Control == {"start", "stop", "restart"}
AllOps  == Control \cup {"status", "enroll", "remove", "task-status", "uninstall"}

(* cli: an OpenClaw command fails or cannot be understood; discovery: the  *)
(* openclaw command is not found; task: the Task Scheduler does not answer.*)
FaultKinds == {"cli", "discovery", "task"}

(* die: the Gateway ends; launch: a user starts one; task: a user deletes  *)
(* or replaces the logon task; quit: the Manager ends and starts again.    *)
WorldKinds == {"die", "launch", "task", "quit"}

ASSUME OpsAssumption == Ops \in [Requests -> SUBSET AllOps]
ASSUME AttemptsAssumption == Attempts \in Nat \ {0}
ASSUME FaultsAssumption == Faults \subseteq FaultKinds
ASSUME WorldAssumption == World \subseteq WorldKinds

VARIABLES
  gateway,     \* "down", or how the running Gateway was launched
  managed,     \* GatewayManager.managed
  task,        \* the task with the fixed name
  job,         \* what each request is doing
  supervisor,  \* the supervisor of a Manager started at logon
  met,         \* history: requests whose goal has held since they came
  disturbed    \* history: requests with an observation made void by others

world == <<gateway, task>>
vars  == <<world, managed, job, supervisor, met, disturbed>>

Gateways == {"down", "supervised", "separate"}
Tasks    == {"absent", "longhub", "foreign"}
Sights   == {"none", "absent", "unclear", "stopped", "running"}

Locations ==
  {"idle", "wait", "look", "judge", "probe", "decide", "act", "flag",
   "prove", "register", "verify", "delete", "view", "ok"}

(* seen: GatewayObservation; owner: why the Gateway counts as managed;     *)
(* after: the second inspection of an action.                              *)
Jobs ==
  [op : AllOps \cup {"none"}, pc : Locations, confirm : BOOLEAN,
   after : BOOLEAN, seen : Sights, owner : {"none", "flag", "probe"}]

Idle ==
  [op |-> "none", pc |-> "idle", confirm |-> FALSE, after |-> FALSE,
   seen |-> "none", owner |-> "none"]

(* off: not running, or ended.                                             *)
Supervisors ==
  [pc : {"off", "look", "judge", "resolve", "launch", "attached", "rest"}, attempt : 1 .. Attempts]

TypeOK ==
  /\ gateway \in Gateways /\ managed \in BOOLEAN /\ task \in Tasks
  /\ job \in [Requests -> Jobs]
  /\ supervisor \in Supervisors
  /\ met \subseteq Requests /\ disturbed \subseteq Requests

Off     == [pc |-> "off", attempt |-> 1]
Started == [pc |-> "look", attempt |-> 1]

Init ==
  /\ gateway \in {"down", "separate"} /\ task \in Tasks
  /\ managed = FALSE
  /\ job = [r \in Requests |-> Idle]
  /\ supervisor \in {Off} \cup (IF task = "longhub" THEN {Started} ELSE {})
  /\ met = {} /\ disturbed = {}

-----------------------------------------------------------------------------
Fault(kind) == kind \in Faults

LockedOps == AllOps \ {"status", "uninstall"}

Holds(r) == job[r].op \in LockedOps /\ job[r].pc \notin {"idle", "wait", "ok"}

(* What a request is for.                                                  *)
Goal(op, g, t) ==
  CASE op \in {"start", "restart"}     -> g # "down"
    [] op = "stop"                     -> g = "down"
    [] op = "enroll"                   -> t = "longhub"
    [] op \in {"remove", "uninstall"}  -> t = "absent"
    [] OTHER                           -> TRUE

Live(jobs) == {r \in Requests : jobs[r].pc # "idle"}

Met(jobs, g, t) == {r \in Live(jobs) : r \in met \/ Goal(jobs[r].op, g, t)}

(* Requests between an observation and the action that rests on it.        *)
Relying(jobs) ==
  {r \in Requests : jobs[r].pc \in {"judge", "probe", "decide", "act", "register", "delete"}}

(* Who may change the task at any time: the uninstaller is a process of    *)
(* its own, which actionMu does not keep out, nor does it keep out others. *)
Unlocked(r, q) == "uninstall" \in {job[r].op, job[q].op}

(* A step of request r, which carries j from then on.                      *)
Step(r, j, g, t) ==
  /\ job' = [job EXCEPT ![r] = j]
  /\ gateway' = g /\ task' = t
  /\ met' = Met(job', g, t)
  /\ disturbed' = Relying(job') \cap
       ((disturbed \ (IF job[r].pc \in {"look", "prove"} THEN {r} ELSE {}))
          \cup {q \in Requests \ {r} : t # task /\ Unlocked(r, q)})
  /\ UNCHANGED supervisor

Go(r, from, j) ==
  /\ job[r].pc = from
  /\ Step(r, j, gateway, task)

At(r, pc) == [job[r] EXCEPT !.pc = pc]

(* An error, a refusal, or a client that has its answer.                   *)
Fail(r, from) == Go(r, from, Idle) /\ UNCHANGED managed

(* The second inspection, whose result is the answer; the uninstaller      *)
(* needs none.                                                             *)
Finished(r) ==
  IF job[r].op = "uninstall" THEN At(r, "ok")
  ELSE [job[r] EXCEPT !.pc = "look", !.after = TRUE, !.seen = "none", !.owner = "none"]

Ask(r) ==
  /\ job[r].pc = "idle"
  /\ \E op \in Ops[r], confirm \in BOOLEAN :
       /\ op \in {"status", "task-status", "uninstall"} => confirm
       /\ Step(r, [Idle EXCEPT !.op = op, !.confirm = confirm,
                               !.pc = CASE op = "status"    -> "look"
                                        [] op = "uninstall" -> "prove"
                                        [] OTHER            -> "wait"], gateway, task)
  /\ UNCHANGED managed

(* Variant: actions do not take actionMu. *)
EnterAtOnce(r) ==
  /\ Go(r, "wait", At(r, IF job[r].op = "task-status" THEN "view" ELSE "look"))
  /\ UNCHANGED managed

(* Variant: the task page does not take actionMu. *)
EnterPageAtOnce(r) ==
  /\ \A q \in Requests : ~Holds(q) \/ job[r].op = "task-status"
  /\ Go(r, "wait", At(r, IF job[r].op = "task-status" THEN "view" ELSE "look"))
  /\ UNCHANGED managed

Enter(r) ==
  /\ \A q \in Requests : ~Holds(q)
  /\ Go(r, "wait", At(r, IF job[r].op = "task-status" THEN "view" ELSE "look"))
  /\ UNCHANGED managed

Close(r) == Fail(r, "ok")

-----------------------------------------------------------------------------
(* inspect.                                                                *)

(* OpenClawGatewayController.Inspect: --version and gateway status.        *)
Observed ==
  {IF gateway = "down" THEN "stopped" ELSE "running"}
    \cup (IF Fault("discovery") THEN {"absent"} ELSE {})
    \cup (IF Fault("cli") THEN {"unclear"} ELSE {})

Look(r) ==
  /\ \E o \in Observed : Go(r, "look", [At(r, "judge") EXCEPT !.seen = o])
  /\ UNCHANGED managed

LookFails(r) == Fault("cli") /\ Fail(r, "look")

(* The answers to operations other than control are not told apart.        *)
Answered(r, owner) ==
  IF job[r].op \in Control THEN [At(r, "ok") EXCEPT !.owner = owner]
  ELSE [At(r, "ok") EXCEPT !.seen = "none", !.owner = "none"]

Inspected(r, owner) ==
  IF job[r].after \/ job[r].op = "status" THEN Answered(r, owner)
  ELSE [At(r, "decide") EXCEPT !.owner = owner]

(* The flag is read, and cleared when the Gateway was not seen running.    *)
Judge(r) ==
  \/ /\ job[r].seen # "running"
     /\ Go(r, "judge", Inspected(r, "none"))
     /\ managed' = FALSE
  \/ /\ job[r].seen = "running" /\ managed
     /\ Go(r, "judge", Inspected(r, "flag"))
     /\ UNCHANGED managed
  \/ /\ job[r].seen = "running" /\ ~managed
     /\ Go(r, "judge", At(r, "probe"))
     /\ UNCHANGED managed

(* InspectOwnership, and its answer when the Task Scheduler gives none.    *)
Owner == {task} \cup (IF Fault("task") THEN {"unproven"} ELSE {})

Probe(r) ==
  /\ \E o \in Owner :
       Go(r, "probe", Inspected(r, IF o = "longhub" THEN "probe" ELSE "none"))
  /\ UNCHANGED managed

-----------------------------------------------------------------------------
(* control.                                                                *)

(* The answer of an action that has nothing to do.                         *)
Done(r) ==
  \/ job[r].op = "start" /\ job[r].seen = "running"
  \/ job[r].op = "stop" /\ job[r].seen # "running"

(* Variant: an unknown state is not told from a stopped Gateway. *)
RefusedUnlessKnown(r) ==
  \/ ~Done(r) /\ ~job[r].confirm
  \/ job[r].op \in {"start", "restart", "enroll"} /\ job[r].seen = "absent"

Refused(r) ==
  \/ job[r].op \in Control /\ job[r].seen = "unclear"
  \/ ~Done(r) /\ ~job[r].confirm
  \/ job[r].op \in {"start", "restart", "enroll"} /\ job[r].seen = "absent"

Decide(r) ==
  \/ Refused(r) /\ Fail(r, "decide")
  \/ /\ ~Refused(r)
     /\ Go(r, "decide", At(r, IF Done(r) THEN "ok"
                              ELSE IF job[r].op \in Control THEN "act" ELSE "prove"))
     /\ UNCHANGED managed

(* The Gateway after the command has had its effect: start leaves a        *)
(* running one alone, restart replaces it by a process of its own.         *)
Effect(op) ==
  CASE op = "stop"    -> "down"
    [] op = "restart" -> "separate"
    [] op = "start"   -> IF gateway = "down" THEN "separate" ELSE gateway

Act(r) ==
  /\ job[r].pc = "act"
  /\ Step(r, At(r, "flag"), Effect(job[r].op), task)
  /\ UNCHANGED managed

(* It failed, or its time or its client ran out, before or after it had    *)
(* an effect.                                                              *)
ActFails(r) ==
  /\ Fault("cli") \/ Fault("discovery")
  /\ job[r].pc = "act"
  /\ \E g \in {gateway} \cup (IF Fault("cli") THEN {Effect(job[r].op)} ELSE {}) :
       Step(r, Idle, g, task)
  /\ UNCHANGED managed

SetFlag(r) ==
  /\ Go(r, "flag", Finished(r))
  /\ managed' = CASE job[r].op = "start"   -> TRUE
                  [] job[r].op = "stop"    -> FALSE
                  [] job[r].op = "restart" -> job[r].owner # "none" \/ job[r].seen # "running"

-----------------------------------------------------------------------------
(* EnsureScheduledTask, RemoveScheduledTask and ScheduledTaskStatus.       *)

(* Variant: no answer of the Task Scheduler counts as no task. *)
ProveOpenly(r) ==
  /\ \E o \in Owner :
       \/ o = "longhub" /\ Go(r, "prove", IF job[r].op = "enroll" THEN Finished(r) ELSE At(r, "delete"))
       \/ o \in {"absent", "unproven"} /\ Go(r, "prove", IF job[r].op = "enroll" THEN At(r, "register") ELSE Finished(r))
       \/ o = "foreign" /\ Go(r, "prove", Idle)
  /\ UNCHANGED managed

(* What a proven or missing task means to each operation.                  *)
Prove(r) ==
  /\ \E o \in Owner :
       \/ o = "longhub" /\ Go(r, "prove", IF job[r].op = "enroll" THEN Finished(r) ELSE At(r, "delete"))
       \/ o = "absent" /\ Go(r, "prove", IF job[r].op = "enroll" THEN At(r, "register") ELSE Finished(r))
       \/ o \in {"foreign", "unproven"} /\ Go(r, "prove", Idle)
  /\ UNCHANGED managed

(* schtasks /Create without /F.                                            *)
Register(r) ==
  /\ job[r].pc = "register"
  /\ task = "absent"
  /\ Step(r, At(r, "verify"), gateway, "longhub")
  /\ UNCHANGED managed

RegisterFails(r) ==
  /\ job[r].pc = "register"
  /\ \/ task # "absent" /\ Step(r, Idle, gateway, task)
     \/ task = "absent" /\ Fault("task") /\ \E t \in {task, "longhub"} : Step(r, Idle, gateway, t)
  /\ UNCHANGED managed

Verify(r) ==
  /\ \E o \in Owner : Go(r, "verify", IF o = "longhub" THEN Finished(r) ELSE Idle)
  /\ UNCHANGED managed

(* schtasks /Delete /F: by name, whatever bears it by now.                 *)
Delete(r) ==
  /\ job[r].pc = "delete"
  /\ task # "absent"
  /\ Step(r, Finished(r), gateway, "absent")
  /\ UNCHANGED managed

DeleteFails(r) ==
  /\ job[r].pc = "delete"
  /\ \/ task = "absent" /\ Step(r, Idle, gateway, task)
     \/ task # "absent" /\ Fault("task") /\ \E t \in {task, "absent"} : Step(r, Idle, gateway, t)
  /\ UNCHANGED managed

View(r) ==
  /\ Go(r, "view", At(r, "ok"))
  /\ UNCHANGED managed

-----------------------------------------------------------------------------
(* superviseAutostartGateway.  Its inspection is that of a status request; *)
(* a proof of ownership makes no difference to it.                         *)

(* A step of someone who is no request.                                    *)
Outside(g, t) ==
  /\ gateway' = g /\ task' = t
  /\ met' = Met(job, g, t)
  /\ disturbed' = IF <<g, t>> = world THEN disturbed ELSE Relying(job)

Supervise(from, s, g) ==
  /\ supervisor.pc = from
  /\ supervisor' = s
  /\ Outside(g, task)
  /\ UNCHANGED job

SupervisorLooks ==
  /\ \E o \in Observed :
       Supervise("look", IF o = "running" THEN Off ELSE [supervisor EXCEPT !.pc = "judge"], gateway)
  /\ UNCHANGED managed

(* An inspection that fails counts as "not running".                       *)
SupervisorLooksInVain ==
  /\ Fault("cli")
  /\ Supervise("look", [supervisor EXCEPT !.pc = "resolve"], gateway)
  /\ UNCHANGED managed

SupervisorJudges ==
  /\ Supervise("judge", [supervisor EXCEPT !.pc = "resolve"], gateway)
  /\ managed' = FALSE

SupervisorResolves ==
  /\ \E s \in {[supervisor EXCEPT !.pc = "launch"]} \cup (IF Fault("discovery") THEN {Off} ELSE {}) :
       Supervise("resolve", s, gateway)
  /\ UNCHANGED managed

(* gateway run, in the foreground; another Gateway makes it end at once.   *)
SupervisorLaunches ==
  /\ \/ gateway = "down" /\ Supervise("launch", [supervisor EXCEPT !.pc = "attached"], "supervised")
     \/ gateway # "down" /\ Supervise("launch", [supervisor EXCEPT !.pc = "rest"], gateway)
  /\ UNCHANGED managed

(* The Gateway it ran has ended, with or without an error.                 *)
SupervisedEnds ==
  /\ gateway # "supervised"
  /\ \E s \in {Off, [supervisor EXCEPT !.pc = "rest"]} : Supervise("attached", s, gateway)
  /\ UNCHANGED managed

SupervisorRests ==
  /\ Supervise("rest", IF supervisor.attempt = Attempts THEN Off
                       ELSE [pc |-> "launch", attempt |-> supervisor.attempt + 1], gateway)
  /\ UNCHANGED managed

Supervisor ==
  \/ SupervisorLooks \/ SupervisorLooksInVain \/ SupervisorJudges \/ SupervisorResolves
  \/ SupervisorLaunches \/ SupervisedEnds \/ SupervisorRests

-----------------------------------------------------------------------------
(* Others.                                                                 *)

Die ==
  /\ "die" \in World /\ gateway # "down"
  /\ Outside("down", task)
  /\ UNCHANGED <<managed, job, supervisor>>

LaunchedByUser ==
  /\ "launch" \in World /\ gateway = "down"
  /\ Outside("separate", task)
  /\ UNCHANGED <<managed, job, supervisor>>

TaskChanges ==
  /\ "task" \in World
  /\ \E t \in Tasks \ {task} : Outside(gateway, t)
  /\ UNCHANGED <<managed, job, supervisor>>

(* The Manager ends; the Gateway its supervisor runs may end with it.      *)
Quit ==
  /\ "quit" \in World
  /\ managed' = FALSE
  /\ job' = [r \in Requests |-> IF job[r].op = "uninstall" THEN job[r] ELSE Idle]
  /\ met' = met \cap Live(job') /\ disturbed' = disturbed \cap Live(job')
  /\ supervisor' \in {Off} \cup (IF task = "longhub" THEN {Started} ELSE {})
  /\ gateway' \in {gateway} \cup
       (IF supervisor.pc = "attached" /\ gateway = "supervised" THEN {"down"} ELSE {})
  /\ UNCHANGED task

Works(r) ==
  \/ Look(r) \/ LookFails(r) \/ Judge(r) \/ Probe(r) \/ Decide(r)
  \/ Act(r) \/ ActFails(r) \/ SetFlag(r)
  \/ Prove(r) \/ Register(r) \/ RegisterFails(r) \/ Verify(r) \/ Delete(r) \/ DeleteFails(r)
  \/ View(r)

Next ==
  \/ \E r \in Requests : Ask(r) \/ Enter(r) \/ Works(r) \/ Close(r)
  \/ Supervisor
  \/ Die \/ LaunchedByUser \/ TaskChanges \/ Quit

Spec == Init /\ [][Next]_vars

-----------------------------------------------------------------------------
(* Properties                                                              *)

(* A success is reported only if what was asked for has been the case at   *)
(* some moment of the request, whatever fails and whoever interferes.  (A  *)
(* stop that finds no openclaw command answers "not installed".)           *)
ReportIsTrue ==
  \A r \in Requests :
    job[r].pc = "ok" => \/ r \in met
                        \/ job[r].op = "stop" /\ job[r].seen = "absent"

(* An action that is about to be taken still rests on what its request     *)
(* observed, unless someone who does not take actionMu has interfered.     *)
ActsOnWhatItSaw ==
  \A r \in Requests \ disturbed :
    /\ job[r].pc = "act" => (job[r].seen = "running" <=> gateway # "down")
    /\ job[r].pc = "delete" => task = "longhub"
    /\ job[r].pc = "register" => task = "absent"

(* The page never sees the task halfway through a registration or removal  *)
(* of this Manager (the comment of ScheduledTaskStatus).                   *)
PageSeesWholeTransactions ==
  \A r, q \in Requests :
    /\ job[r].pc = "view"
    /\ job[q].pc \in {"register", "verify", "delete"}
    => job[q].op = "uninstall"

(* A confirmed start marks the Gateway it started as the Manager's.        *)
StartMarksOwnership ==
  \A r \in Requests :
    job[r].pc = "ok" /\ job[r].op = "start" /\ job[r].after /\ job[r].seen = "running"
      => job[r].owner # "none"

-----------------------------------------------------------------------------
(* The inductive invariant.                                                *)

OneHolder == \A r, q \in Requests : Holds(r) /\ Holds(q) => r = q

(* Which operation can be where.                                           *)
InOrder(j) ==
  /\ j.op = "none" <=> j.pc = "idle"
  /\ j.op = "status" => j.pc \in {"look", "judge", "probe", "ok"}
  /\ j.op = "uninstall" => j.pc \in {"prove", "delete", "ok"}
  /\ j.op = "task-status" => j.pc \in {"wait", "view", "ok"}
  /\ j.pc = "view" => j.op = "task-status"
  /\ j.pc \in {"register", "verify"} => j.op = "enroll"
  /\ j.pc = "prove" => j.op \in {"enroll", "remove", "uninstall"}
  /\ j.pc = "delete" => j.op \in {"remove", "uninstall"}
  /\ j.pc \in {"act", "flag"} => j.op \in Control /\ j.seen \in {"stopped", "running"}
  /\ j.pc \in {"judge", "probe", "decide"} => j.seen # "none"
  /\ j.after => j.op \in Control \cup {"enroll", "remove"} /\ j.pc \in {"look", "judge", "probe", "ok"}

(* A request that is about to succeed must have met its goal.              *)
Promises(j) ==
  \/ j.op \in {"status", "task-status"}
  \/ j.pc \in {"flag", "verify"} \/ j.after
  \/ j.pc \in {"judge", "probe", "decide"} /\ j.op = "start" /\ j.seen = "running"
  \/ j.pc \in {"judge", "probe", "decide"} /\ j.op = "stop" /\ j.seen = "stopped"
  \/ j.pc = "ok" /\ ~(j.op = "stop" /\ j.seen = "absent")

(* What an observation said is still so.                                   *)
StillSo(j, g, t) ==
  /\ j.op \in Control /\ j.pc \in {"judge", "probe", "decide", "act"} =>
       /\ j.seen = "running" => g # "down"
       /\ j.seen = "stopped" => g = "down"
  /\ j.pc = "delete" => t = "longhub"
  /\ j.pc = "register" => t = "absent"

IInv ==
  /\ TypeOK
  /\ OneHolder
  /\ \A r \in Requests :
       /\ InOrder(job[r])
       /\ Promises(job[r]) => r \in met
       /\ r \in disturbed \/ StillSo(job[r], gateway, task)
=============================================================================
