----------------------- MODULE GatewayOwnershipProofs ------------------------
(***************************************************************************)
(* Proofs about GatewayOwnership, for any requests, operations, faults and *)
(* interference.                                                           *)
(***************************************************************************)
EXTENDS GatewayOwnership, TLAPS

HoldsAs(j) == j.op \in LockedOps /\ j.pc \notin {"idle", "wait", "ok"}

(* What a step of a request must respect, for the invariant to be kept.    *)
Respects(r, j, g, t) ==
  /\ InOrder(j)
  /\ HoldsAs(j) => Holds(r) \/ \A q \in Requests : ~Holds(q)
  /\ Promises(j) => r \in met \/ Goal(j.op, g, t)
  /\ r \in disturbed' \/ StillSo(j, g, t)
  /\ g # gateway => Holds(r)
  /\ t # task => Holds(r) \/ job[r].op = "uninstall"

-----------------------------------------------------------------------------
(* A step of one request that respects these conditions keeps the          *)
(* invariant: for itself by the conditions, for a request in the same      *)
(* critical section because there is none, for the others because what     *)
(* they rely on has not changed or they are marked.                        *)
LEMMA StepKeeps ==
  ASSUME IInv, NEW r \in Requests, NEW j \in Jobs, NEW g \in Gateways, NEW t \in Tasks,
         Step(r, j, g, t), Respects(r, j, g, t), managed' \in BOOLEAN
  PROVE  IInv'
<1>1. /\ job' = [job EXCEPT ![r] = j] /\ gateway' = g /\ task' = t
      /\ supervisor' = supervisor
      /\ job \in [Requests -> Jobs]
  BY DEF Step, IInv, TypeOK
<1>2. job'[r] = j /\ \A q \in Requests \ {r} : job'[q] = job[q]
  BY <1>1
<1>3. TypeOK'
  <2>1. job' \in [Requests -> Jobs]
    BY <1>1
  <2>2. met' \subseteq Requests /\ disturbed' \subseteq Requests
    BY DEF Step, Met, Live, Relying
  <2>3. supervisor' \in Supervisors
    BY <1>1 DEF IInv, TypeOK
  <2> QED BY <1>1, <2>1, <2>2, <2>3 DEF TypeOK
<1>4. OneHolder'
  <2> SUFFICES ASSUME NEW p \in Requests, NEW q \in Requests, Holds(p)', Holds(q)'
               PROVE  p = q
    BY DEF OneHolder
  <2>1. \A s \in Requests : Holds(s)' => Holds(s) \/ (s = r /\ \A u \in Requests : ~Holds(u))
    BY <1>2 DEF Holds, HoldsAs, Respects
  <2> QED BY <2>1 DEF IInv, OneHolder
<1>5. ASSUME NEW q \in Requests
      PROVE  /\ InOrder(job'[q])
             /\ Promises(job'[q]) => q \in met'
             /\ q \in disturbed' \/ StillSo(job'[q], g, t)
  <2>1. CASE q = r
    <3>1. InOrder(j)
      BY DEF Respects
    <3>2. Promises(j) => j.pc # "idle"
      BY <3>1 DEF Promises, InOrder, Jobs
    <3>3. Promises(j) => r \in met'
      BY <1>1, <1>2, <3>2 DEF Respects, Step, Met, Live
    <3> QED BY <1>2, <2>1, <3>1, <3>3 DEF Respects
  <2>2. CASE q # r
    <3>1. job'[q] = job[q]
      BY <1>2, <2>2
    <3>2. InOrder(job[q]) /\ (Promises(job[q]) => q \in met) /\ (q \in disturbed \/ StillSo(job[q], gateway, task))
      BY DEF IInv
    <3>3. Promises(job[q]) => job[q].pc # "idle"
      BY <3>2 DEF Promises, InOrder, Jobs
    <3>4. Promises(job[q]) => q \in met'
      BY <1>1, <3>1, <3>2, <3>3 DEF Step, Met, Live
    <3>5. q \in disturbed' \/ StillSo(job[q], g, t)
      <4>1. CASE q \notin Relying(job')
        BY <3>1, <4>1 DEF Relying, StillSo
      <4>2. CASE q \in Relying(job') /\ q \in disturbed
        BY <2>2, <4>2, <3>1 DEF Step, Relying
      <4>3. CASE q \in Relying(job') /\ q \notin disturbed
        <5>1. job[q].op \in Control /\ job[q].pc \in {"judge", "probe", "decide", "act"} => g = gateway
          <6> SUFFICES ASSUME job[q].op \in Control, job[q].pc \in {"judge", "probe", "decide", "act"}
                       PROVE  g = gateway
            OBVIOUS
          <6>1. Holds(q)
            BY DEF Holds, LockedOps, AllOps, Control
          <6> QED BY <6>1, <2>2 DEF Respects, IInv, OneHolder
        <5>2. job[q].pc \in {"delete", "register"} => t = task \/ q \in disturbed'
          <6> SUFFICES ASSUME job[q].pc \in {"delete", "register"}, t # task
                       PROVE  q \in disturbed'
            OBVIOUS
          <6>1. CASE "uninstall" \in {job[r].op, job[q].op}
            BY <6>1, <2>2, <4>3, <1>1 DEF Step, Unlocked
          <6>2. CASE "uninstall" \notin {job[r].op, job[q].op}
            <7>1. Holds(q)
              BY <6>2, <3>2 DEF Holds, LockedOps, AllOps, Control, InOrder
            <7>2. Holds(r)
              BY <6>2 DEF Respects
            <7> QED BY <7>1, <7>2, <2>2 DEF IInv, OneHolder
          <6> QED BY <6>1, <6>2
        <5> QED BY <3>2, <4>3, <5>1, <5>2 DEF StillSo
      <4> QED BY <4>1, <4>2, <4>3
    <3> QED BY <3>1, <3>2, <3>4, <3>5
  <2> QED BY <2>1, <2>2
<1> QED BY <1>1, <1>3, <1>4, <1>5 DEF IInv
-----------------------------------------------------------------------------
(* A step that changes neither the Gateway nor the task.                   *)
LEMMA GoKeeps ==
  ASSUME IInv, NEW r \in Requests, NEW from, NEW j \in Jobs, Go(r, from, j), managed' \in BOOLEAN,
         InOrder(j),
         HoldsAs(j) => Holds(r) \/ \A q \in Requests : ~Holds(q),
         Promises(j) => r \in met \/ Goal(j.op, gateway, task),
         r \in disturbed' \/ StillSo(j, gateway, task)
  PROVE  IInv'
<1>1. Step(r, j, gateway, task) /\ Respects(r, j, gateway, task)
  BY DEF Go, Respects
<1>2. gateway \in Gateways /\ task \in Tasks
  BY DEF IInv, TypeOK
<1> QED
  BY <1>1, <1>2, StepKeeps

LEMMA IdleIsFine ==
  /\ Idle \in Jobs /\ InOrder(Idle) /\ ~Promises(Idle) /\ ~HoldsAs(Idle)
  /\ \A g, t : StillSo(Idle, g, t)
BY DEF Idle, Jobs, Locations, Sights, InOrder, Promises, HoldsAs, StillSo, Control

LEMMA FailKeeps ==
  ASSUME IInv, NEW r \in Requests, NEW from, Fail(r, from)
  PROVE  IInv'
<1>1. Go(r, from, Idle) /\ managed' \in BOOLEAN
  BY DEF Fail, IInv, TypeOK
<1> QED
  BY <1>1, IdleIsFine, GoKeeps

(* What every request has at hand.                                         *)
LEMMA Known ==
  ASSUME IInv, NEW r \in Requests
  PROVE  /\ job[r] \in Jobs /\ InOrder(job[r]) /\ managed \in BOOLEAN
         /\ Promises(job[r]) => r \in met
         /\ r \in disturbed \/ StillSo(job[r], gateway, task)
         /\ gateway \in Gateways /\ task \in Tasks
         /\ Holds(r) <=> HoldsAs(job[r])
BY DEF IInv, TypeOK, Holds, HoldsAs

(* A marked request stays marked while it relies on what it saw.           *)
LEMMA MarkStays ==
  ASSUME NEW r \in Requests, NEW j, NEW g, NEW t, Step(r, j, g, t), IInv,
         r \in disturbed, job[r].pc \notin {"look", "prove"},
         j.pc \in {"judge", "probe", "decide", "act", "register", "delete"}
  PROVE  r \in disturbed'
<1>1. job'[r] = j
  BY DEF Step, IInv, TypeOK
<1> QED
  BY <1>1 DEF Step, Relying

(* The second inspection, or the uninstaller's success.                    *)
LEMMA FinishedIsFine ==
  ASSUME IInv, NEW r \in Requests, job[r].op \in Control \cup {"enroll", "remove", "uninstall"}
  PROVE  /\ Finished(r) \in Jobs /\ InOrder(Finished(r))
         /\ Finished(r).op = job[r].op
         /\ HoldsAs(Finished(r)) => job[r].op \in LockedOps
         /\ \A g, t : StillSo(Finished(r), g, t)
<1>1. job[r] \in Jobs
  BY Known
<1>2. CASE job[r].op = "uninstall"
  BY <1>1, <1>2, Known DEF Finished, At, Jobs, Locations, InOrder, HoldsAs, StillSo, Control
<1>3. CASE job[r].op # "uninstall"
  <2> DEFINE j == [job[r] EXCEPT !.pc = "look", !.after = TRUE, !.seen = "none", !.owner = "none"]
  <2>1. /\ j \in Jobs /\ j.op = job[r].op /\ j.pc = "look" /\ j.seen = "none" /\ j.after
        /\ Finished(r) = j
    BY <1>1, <1>3 DEF Finished, Jobs, Locations, Sights
  <2> HIDE DEF j
  <2>2. InOrder(j) /\ HoldsAs(j) /\ \A g, t : StillSo(j, g, t)
    BY <2>1, <1>3 DEF InOrder, HoldsAs, StillSo, Control, LockedOps, AllOps
  <2> QED
    BY <1>3, <2>1, <2>2 DEF LockedOps, AllOps, Control
<1> QED
  BY <1>2, <1>3

-----------------------------------------------------------------------------
(* The actions of a request.                                               *)
LEMMA AskKeeps ==
  ASSUME IInv, NEW r \in Requests, Ask(r)
  PROVE  IInv'
<1>1. PICK op \in Ops[r], confirm \in BOOLEAN :
        Step(r, [Idle EXCEPT !.op = op, !.confirm = confirm,
                             !.pc = CASE op = "status"    -> "look"
                                      [] op = "uninstall" -> "prove"
                                      [] OTHER            -> "wait"], gateway, task)
  BY DEF Ask
<1> DEFINE p == CASE op = "status" -> "look" [] op = "uninstall" -> "prove" [] OTHER -> "wait"
           j == [Idle EXCEPT !.op = op, !.confirm = confirm, !.pc = p]
<1>2. op \in AllOps
  BY OpsAssumption
<1>3. p \in {"look", "prove", "wait"} /\ (op = "status" => p = "look")
      /\ (op = "uninstall" => p = "prove") /\ (op \notin {"status", "uninstall"} => p = "wait")
  OBVIOUS
<1>4. /\ j.op = op /\ j.pc = p /\ j.seen = "none" /\ j.after = FALSE /\ j.owner = "none"
      /\ j.confirm = confirm /\ j \in Jobs
  BY <1>2, <1>3 DEF Idle, Jobs, Locations, Sights
<1> HIDE DEF p, j
<1>5. InOrder(j) /\ ~HoldsAs(j) /\ StillSo(j, gateway, task)
  BY <1>2, <1>3, <1>4 DEF InOrder, HoldsAs, StillSo, AllOps, Control, LockedOps
<1>6. Promises(j) => Goal(j.op, gateway, task)
  BY <1>2, <1>3, <1>4 DEF Promises, Goal
<1>7. Step(r, j, gateway, task) /\ managed' \in BOOLEAN
  BY <1>1, Known DEF Ask, j, p
<1>8. Respects(r, j, gateway, task)
  BY <1>5, <1>6 DEF Respects
<1> QED
  BY <1>4, <1>7, <1>8, Known, StepKeeps

LEMMA EnterKeeps ==
  ASSUME IInv, NEW r \in Requests, Enter(r)
  PROVE  IInv'
<1> DEFINE j == At(r, IF job[r].op = "task-status" THEN "view" ELSE "look")
<1>1. Go(r, "wait", j) /\ managed' \in BOOLEAN /\ \A q \in Requests : ~Holds(q)
  BY Known DEF Enter
<1>2. j \in Jobs /\ InOrder(j) /\ StillSo(j, gateway, task)
  BY <1>1, Known DEF Go, At, Jobs, Locations, InOrder, StillSo
<1>3. Promises(j) => j.op = "task-status"
  BY <1>1, Known DEF Go, At, Jobs, Promises, InOrder
<1>4. Promises(j) => Goal(j.op, gateway, task)
  BY <1>3 DEF Goal
<1> QED
  BY <1>1, <1>2, <1>4, GoKeeps

LEMMA LookKeeps ==
  ASSUME IInv, NEW r \in Requests, Look(r)
  PROVE  IInv'
<1>1. PICK o \in Observed : Go(r, "look", [At(r, "judge") EXCEPT !.seen = o])
  BY DEF Look
<1> DEFINE j == [At(r, "judge") EXCEPT !.seen = o]
<1>2. /\ o \in Sights /\ o # "none" /\ (o = "running" => gateway # "down")
      /\ (o = "stopped" => gateway = "down")
  BY DEF Observed, Sights
<1>3. /\ j \in Jobs /\ j.op = job[r].op /\ j.pc = "judge" /\ j.seen = o
      /\ j.after = job[r].after
  BY <1>1, <1>2, Known DEF At, Jobs, Locations
<1>4. job[r].pc = "look" /\ managed' \in BOOLEAN
  BY <1>1, Known DEF Go, Look
<1>5. Go(r, "look", j)
  BY <1>1
<1> HIDE DEF j
<1>6. InOrder(j) /\ StillSo(j, gateway, task) /\ (HoldsAs(j) => Holds(r))
  BY <1>2, <1>3, <1>4, Known DEF InOrder, StillSo, HoldsAs
<1>7. Promises(j) => r \in met \/ Goal(j.op, gateway, task)
  BY <1>2, <1>3, <1>4, Known DEF Promises, Goal
<1> QED
  BY <1>3, <1>4, <1>5, <1>6, <1>7, GoKeeps

(* The end of an inspection.                                               *)
LEMMA InspectedIsFine ==
  ASSUME IInv, NEW r \in Requests, job[r].pc \in {"judge", "probe"},
         NEW owner \in {"none", "flag", "probe"}
  PROVE  /\ Inspected(r, owner) \in Jobs /\ InOrder(Inspected(r, owner))
         /\ HoldsAs(Inspected(r, owner)) => Holds(r)
         /\ Promises(Inspected(r, owner)) => r \in met \/ Goal(Inspected(r, owner).op, gateway, task)
         /\ Inspected(r, owner).pc \in {"decide", "ok"}
         /\ StillSo(job[r], gateway, task) => StillSo(Inspected(r, owner), gateway, task)
<1>1. job[r] \in Jobs /\ InOrder(job[r]) /\ (Promises(job[r]) => r \in met)
      /\ (Holds(r) <=> HoldsAs(job[r]))
  BY Known
<1>2. CASE job[r].after \/ job[r].op = "status"
  <2> DEFINE j == Inspected(r, owner)
  <2>1. j \in Jobs /\ j.op = job[r].op /\ j.pc = "ok" /\ j.after = job[r].after
    <3>1. CASE job[r].op \in Control
      <4>1. j = [At(r, "ok") EXCEPT !.owner = owner]
        BY <1>2, <3>1 DEF Inspected, Answered
      <4> QED
        BY <1>1, <4>1 DEF At, Jobs, Locations
    <3>2. CASE job[r].op \notin Control
      <4>1. j = [At(r, "ok") EXCEPT !.seen = "none", !.owner = "none"]
        BY <1>2, <3>2 DEF Inspected, Answered
      <4> QED
        BY <1>1, <4>1 DEF At, Jobs, Locations, Sights
    <3> QED
      BY <3>1, <3>2
  <2> HIDE DEF j
  <2>2. InOrder(j) /\ ~HoldsAs(j) /\ StillSo(j, gateway, task)
    BY <1>1, <2>1 DEF InOrder, HoldsAs, StillSo
  <2>3. r \in met \/ Goal(j.op, gateway, task)
    BY <1>1, <1>2, <2>1 DEF Promises, Goal
  <2> QED
    BY <2>1, <2>2, <2>3 DEF j
<1>3. CASE ~(job[r].after \/ job[r].op = "status")
  <2> DEFINE j == [At(r, "decide") EXCEPT !.owner = owner]
  <2>1. /\ j \in Jobs /\ j.op = job[r].op /\ j.pc = "decide" /\ j.after = job[r].after
        /\ j.seen = job[r].seen /\ Inspected(r, owner) = j
    BY <1>1, <1>3 DEF At, Jobs, Locations, Inspected
  <2> HIDE DEF j
  <2>2. InOrder(j) /\ (HoldsAs(j) => Holds(r)) /\ (Promises(j) => r \in met)
    BY <1>1, <1>3, <2>1 DEF InOrder, HoldsAs, Promises
  <2>3. StillSo(job[r], gateway, task) => StillSo(j, gateway, task)
    BY <2>1 DEF StillSo
  <2> QED
    BY <2>1, <2>2, <2>3
<1> QED
  BY <1>2, <1>3

LEMMA InspectedKeeps ==
  ASSUME IInv, NEW r \in Requests, NEW owner \in {"none", "flag", "probe"},
         NEW from \in {"judge", "probe"}, Go(r, from, Inspected(r, owner)), managed' \in BOOLEAN
  PROVE  IInv'
<1>1. job[r].pc \in {"judge", "probe"} /\ Step(r, Inspected(r, owner), gateway, task)
  BY DEF Go
<1>2. CASE Inspected(r, owner).pc = "decide" /\ r \in disturbed
  BY <1>1, <1>2, MarkStays, InspectedIsFine, GoKeeps
<1>3. CASE r \notin disturbed
  BY <1>1, <1>3, Known, InspectedIsFine, GoKeeps
<1>4. CASE Inspected(r, owner).pc = "ok"
  <2>1. StillSo(Inspected(r, owner), gateway, task)
    BY <1>4 DEF StillSo
  <2> QED
    BY <1>1, <2>1, InspectedIsFine, GoKeeps
<1> QED
  BY <1>1, <1>2, <1>3, <1>4, InspectedIsFine

LEMMA JudgeKeeps ==
  ASSUME IInv, NEW r \in Requests, Judge(r)
  PROVE  IInv'
<1>1. CASE Go(r, "judge", Inspected(r, "none")) /\ managed' = FALSE
  BY <1>1, InspectedKeeps
<1>2. CASE Go(r, "judge", Inspected(r, "flag")) /\ UNCHANGED managed
  BY <1>2, Known, InspectedKeeps
<1>3. CASE job[r].seen = "running" /\ Go(r, "judge", At(r, "probe")) /\ UNCHANGED managed
  <2> DEFINE j == At(r, "probe")
  <2>1. /\ j \in Jobs /\ j.op = job[r].op /\ j.pc = "probe" /\ j.after = job[r].after
        /\ j.seen = job[r].seen /\ job[r].pc = "judge"
    BY <1>3, Known DEF At, Jobs, Locations, Go
  <2>2. Go(r, "judge", j) /\ Step(r, j, gateway, task)
    BY <1>3 DEF Go
  <2> HIDE DEF j
  <2>3. InOrder(j) /\ (HoldsAs(j) => Holds(r)) /\ (Promises(j) => r \in met)
        /\ (StillSo(job[r], gateway, task) => StillSo(j, gateway, task))
    BY <2>1, Known DEF InOrder, HoldsAs, Promises, StillSo
  <2>4. r \in disturbed' \/ StillSo(j, gateway, task)
    BY <2>1, <2>2, <2>3, Known, MarkStays
  <2> QED
    BY <1>3, <2>1, <2>2, <2>3, <2>4, Known, GoKeeps
<1> QED
  BY <1>1, <1>2, <1>3 DEF Judge

LEMMA ProbeKeeps ==
  ASSUME IInv, NEW r \in Requests, Probe(r)
  PROVE  IInv'
<1>1. PICK o \in Owner :
        Go(r, "probe", Inspected(r, IF o = "longhub" THEN "probe" ELSE "none"))
  BY DEF Probe
<1> QED
  BY <1>1, Known, InspectedKeeps DEF Probe

LEMMA DecideKeeps ==
  ASSUME IInv, NEW r \in Requests, Decide(r)
  PROVE  IInv'
<1>1. CASE Fail(r, "decide")
  BY <1>1, FailKeeps
<1>2. CASE /\ ~Refused(r)
           /\ Go(r, "decide", At(r, IF Done(r) THEN "ok"
                                    ELSE IF job[r].op \in Control THEN "act" ELSE "prove"))
           /\ UNCHANGED managed
  <2> DEFINE p == IF Done(r) THEN "ok" ELSE IF job[r].op \in Control THEN "act" ELSE "prove"
             j == At(r, p)
  <2>1. /\ job[r].pc = "decide" /\ Step(r, j, gateway, task) /\ Go(r, "decide", j)
    BY <1>2 DEF Go
  <2>2. /\ j \in Jobs /\ j.op = job[r].op /\ j.pc = p /\ j.after = job[r].after
        /\ j.seen = job[r].seen
    BY Known DEF At, Jobs, Locations
  <2>3. InOrder(j)
    <3>1. job[r].op \in Control \cup {"enroll", "remove"} /\ ~job[r].after /\ job[r].seen # "none"
      BY <2>1, Known DEF InOrder, Jobs, AllOps, Control
    <3>2. job[r].op \in Control /\ ~Done(r) => job[r].seen \in {"stopped", "running"}
      BY <1>2, <3>1, Known DEF Refused, Done, Control, Jobs, Sights
    <3> HIDE DEF j
    <3> QED
      BY <2>2, <3>1, <3>2 DEF InOrder, Control
  <2>4. Promises(j) => r \in met
    BY <1>2, <2>1, <2>2, Known DEF InOrder, Refused, Done, Promises, Jobs, Sights, Control
  <2>5. StillSo(job[r], gateway, task) => StillSo(j, gateway, task)
    BY <2>1, <2>2 DEF StillSo
  <2>6. HoldsAs(j) => Holds(r)
    BY <2>1, <2>2, Known DEF HoldsAs
  <2>7. r \in disturbed' \/ StillSo(j, gateway, task)
    <3>1. CASE p = "act" /\ r \in disturbed
      BY <2>1, <2>2, <3>1, MarkStays
    <3>2. CASE r \notin disturbed
      BY <3>2, <2>5, Known
    <3>3. CASE p # "act"
      BY <3>3, <2>2 DEF StillSo
    <3> QED
      BY <3>1, <3>2, <3>3
  <2> QED
    BY <1>2, <2>1, <2>2, <2>3, <2>4, <2>6, <2>7, Known, GoKeeps
<1> QED
  BY <1>1, <1>2 DEF Decide

(* A step that ends the request with an error, whatever the command did.   *)
LEMMA GivesUpKeeps ==
  ASSUME IInv, NEW r \in Requests, NEW g \in Gateways, NEW t \in Tasks, Step(r, Idle, g, t),
         g # gateway => Holds(r), t # task => Holds(r) \/ job[r].op = "uninstall",
         UNCHANGED managed
  PROVE  IInv'
<1>1. Respects(r, Idle, g, t)
  BY IdleIsFine DEF Respects
<1> QED
  BY <1>1, IdleIsFine, Known, StepKeeps

(* Where the lock is held, or the uninstaller is at work.                  *)
LEMMA AtWork ==
  ASSUME IInv, NEW r \in Requests
  PROVE  /\ job[r].pc \in {"act", "flag", "view", "register", "verify"} => Holds(r)
         /\ job[r].pc \in {"prove", "delete"} => Holds(r) \/ job[r].op = "uninstall"
         /\ Effect(job[r].op) \in Gateways \/ job[r].op \notin Control
BY Known DEF InOrder, Holds, LockedOps, AllOps, Control, Effect, Gateways

LEMMA ActKeeps ==
  ASSUME IInv, NEW r \in Requests, Act(r)
  PROVE  IInv'
<1> DEFINE j == At(r, "flag")
           g == Effect(job[r].op)
<1>1. job[r].pc = "act" /\ Step(r, j, g, task) /\ managed' \in BOOLEAN
  BY Known DEF Act
<1>2. /\ j \in Jobs /\ j.op = job[r].op /\ j.pc = "flag" /\ j.after = job[r].after
      /\ j.seen = job[r].seen
  BY <1>1, Known DEF At, Jobs, Locations
<1>3. job[r].op \in Control /\ g \in Gateways
  BY <1>1, Known, AtWork DEF InOrder
<1> HIDE DEF j
<1>4. InOrder(j) /\ StillSo(j, g, task)
  BY <1>1, <1>2, Known DEF InOrder, StillSo
<1>5. Goal(j.op, g, task)
  BY <1>2, <1>3, Known DEF Goal, Effect, Control, Gateways
<1>6. Respects(r, j, g, task)
  BY <1>1, <1>4, <1>5, AtWork DEF Respects
<1> QED
  BY <1>1, <1>2, <1>3, <1>6, Known, StepKeeps

LEMMA ActFailsKeeps ==
  ASSUME IInv, NEW r \in Requests, ActFails(r)
  PROVE  IInv'
<1>1. PICK g \in {gateway, Effect(job[r].op)} : Step(r, Idle, g, task)
  BY DEF ActFails
<1>2. job[r].pc = "act" /\ job[r].op \in Control /\ UNCHANGED managed
  BY Known DEF ActFails, InOrder
<1>3. g \in Gateways /\ Holds(r) /\ task \in Tasks
  BY <1>1, <1>2, Known, AtWork
<1> QED
  BY <1>1, <1>2, <1>3, GivesUpKeeps

(* The step into the second inspection, once the goal has been met.        *)
LEMMA FinishKeeps ==
  ASSUME IInv, NEW r \in Requests, NEW from \in {"flag", "prove", "verify"},
         Go(r, from, Finished(r)), managed' \in BOOLEAN,
         r \in met \/ Goal(job[r].op, gateway, task)
  PROVE  IInv'
<1>1. job[r].op \in Control \cup {"enroll", "remove", "uninstall"}
  BY Known DEF Go, InOrder
<1>2. HoldsAs(Finished(r)) => Holds(r)
  BY <1>1, FinishedIsFine DEF Go, Holds
<1> QED
  BY <1>1, <1>2, FinishedIsFine, GoKeeps

LEMMA SetFlagKeeps ==
  ASSUME IInv, NEW r \in Requests, SetFlag(r)
  PROVE  IInv'
<1>1. job[r].pc = "flag" /\ job[r].op \in Control /\ Go(r, "flag", Finished(r))
  BY Known DEF SetFlag, Go, InOrder
<1>2. managed' \in BOOLEAN
  BY <1>1 DEF SetFlag, Control
<1>3. r \in met
  BY <1>1, Known DEF Promises
<1> QED
  BY <1>1, <1>2, <1>3, FinishKeeps

LEMMA ProveKeeps ==
  ASSUME IInv, NEW r \in Requests, Prove(r)
  PROVE  IInv'
<1>1. /\ job[r].pc = "prove" /\ UNCHANGED managed /\ managed' \in BOOLEAN
      /\ job[r].op \in {"enroll", "remove", "uninstall"}
  BY Known DEF Prove, Go, InOrder
<1>2. CASE \/ task = "longhub" /\ job[r].op = "enroll" /\ Go(r, "prove", Finished(r))
           \/ task = "absent" /\ job[r].op # "enroll" /\ Go(r, "prove", Finished(r))
  <2>1. Goal(job[r].op, gateway, task)
    BY <1>1, <1>2 DEF Goal
  <2> QED
    BY <1>1, <1>2, <2>1, FinishKeeps
<1>3. CASE task = "longhub" /\ job[r].op # "enroll" /\ Go(r, "prove", At(r, "delete"))
  <2> DEFINE j == At(r, "delete")
  <2>1. /\ j \in Jobs /\ j.op = job[r].op /\ j.pc = "delete" /\ j.after = job[r].after
    BY <1>1, Known DEF At, Jobs, Locations
  <2>2. Go(r, "prove", j)
    BY <1>3
  <2> HIDE DEF j
  <2>3. InOrder(j) /\ StillSo(j, gateway, task) /\ (HoldsAs(j) => Holds(r)) /\ ~Promises(j)
    BY <1>1, <1>3, <2>1, Known DEF InOrder, StillSo, HoldsAs, Promises
  <2> QED
    BY <1>1, <2>1, <2>2, <2>3, GoKeeps
<1>4. CASE task = "absent" /\ job[r].op = "enroll" /\ Go(r, "prove", At(r, "register"))
  <2> DEFINE j == At(r, "register")
  <2>1. /\ j \in Jobs /\ j.op = job[r].op /\ j.pc = "register" /\ j.after = job[r].after
    BY <1>1, Known DEF At, Jobs, Locations
  <2>2. Go(r, "prove", j)
    BY <1>4
  <2> HIDE DEF j
  <2>3. InOrder(j) /\ StillSo(j, gateway, task) /\ (HoldsAs(j) => Holds(r)) /\ ~Promises(j)
    BY <1>1, <1>4, <2>1, Known DEF InOrder, StillSo, HoldsAs, Promises
  <2> QED
    BY <1>1, <2>1, <2>2, <2>3, GoKeeps
<1>5. CASE Go(r, "prove", Idle)
  BY <1>1, <1>5, IdleIsFine, GoKeeps
<1>6. Owner \subseteq {task, "unproven"}
  BY DEF Owner
<1> QED
  BY <1>2, <1>3, <1>4, <1>5, <1>6 DEF Prove, Tasks

LEMMA RegisterKeeps ==
  ASSUME IInv, NEW r \in Requests, Register(r)
  PROVE  IInv'
<1> DEFINE j == At(r, "verify")
<1>1. /\ job[r].pc = "register" /\ Step(r, j, gateway, "longhub") /\ managed' \in BOOLEAN
      /\ job[r].op = "enroll"
  BY Known DEF Register, InOrder
<1>2. j \in Jobs /\ j.op = job[r].op /\ j.pc = "verify" /\ j.after = job[r].after
  BY <1>1, Known DEF At, Jobs, Locations
<1> HIDE DEF j
<1>3. InOrder(j) /\ StillSo(j, gateway, "longhub")
  BY <1>1, <1>2, Known DEF InOrder, StillSo
<1>4. Goal(j.op, gateway, "longhub")
  BY <1>1, <1>2 DEF Goal
<1>5. Respects(r, j, gateway, "longhub")
  BY <1>1, <1>3, <1>4, AtWork DEF Respects
<1> QED
  BY <1>1, <1>2, <1>5, Known, StepKeeps DEF Tasks

LEMMA RegisterFailsKeeps ==
  ASSUME IInv, NEW r \in Requests, RegisterFails(r)
  PROVE  IInv'
<1>1. PICK t \in {task, "longhub"} : Step(r, Idle, gateway, t)
  BY DEF RegisterFails
<1>2. Holds(r) /\ UNCHANGED managed
  BY AtWork DEF RegisterFails
<1> QED
  BY <1>1, <1>2, Known, GivesUpKeeps DEF Tasks

LEMMA VerifyKeeps ==
  ASSUME IInv, NEW r \in Requests, Verify(r)
  PROVE  IInv'
<1>1. managed' \in BOOLEAN /\ job[r].pc = "verify" /\ UNCHANGED managed
  BY Known DEF Verify, Go
<1>2. CASE Go(r, "verify", Finished(r))
  <2>1. r \in met
    BY <1>1, Known DEF Promises
  <2> QED
    BY <1>1, <1>2, <2>1, FinishKeeps
<1>3. CASE Go(r, "verify", Idle)
  BY <1>1, <1>3, IdleIsFine, GoKeeps
<1> QED
  BY <1>2, <1>3 DEF Verify

LEMMA DeleteKeeps ==
  ASSUME IInv, NEW r \in Requests, Delete(r)
  PROVE  IInv'
<1>1. /\ job[r].pc = "delete" /\ Step(r, Finished(r), gateway, "absent") /\ managed' \in BOOLEAN
  BY Known DEF Delete
<1>2. job[r].op \in {"remove", "uninstall"}
  BY <1>1, Known DEF InOrder
<1>3. Goal(job[r].op, gateway, "absent")
  BY <1>2 DEF Goal
<1>4. Respects(r, Finished(r), gateway, "absent")
  BY <1>1, <1>2, <1>3, FinishedIsFine, AtWork DEF Respects, Holds
<1> QED
  BY <1>1, <1>2, <1>4, FinishedIsFine, Known, StepKeeps DEF Tasks

LEMMA DeleteFailsKeeps ==
  ASSUME IInv, NEW r \in Requests, DeleteFails(r)
  PROVE  IInv'
<1>1. PICK t \in {task, "absent"} : Step(r, Idle, gateway, t)
  BY DEF DeleteFails
<1>2. UNCHANGED managed /\ (Holds(r) \/ job[r].op = "uninstall")
  BY AtWork DEF DeleteFails
<1> QED
  BY <1>1, <1>2, Known, GivesUpKeeps DEF Tasks

LEMMA ViewKeeps ==
  ASSUME IInv, NEW r \in Requests, View(r)
  PROVE  IInv'
<1> DEFINE j == At(r, "ok")
<1>1. Go(r, "view", j) /\ managed' \in BOOLEAN /\ job[r].pc = "view" /\ job[r].op = "task-status"
  BY Known DEF View, Go, InOrder
<1>2. j \in Jobs /\ j.op = job[r].op /\ j.pc = "ok" /\ j.after = job[r].after
  BY Known DEF At, Jobs, Locations
<1> HIDE DEF j
<1>3. InOrder(j) /\ ~HoldsAs(j) /\ StillSo(j, gateway, task) /\ Goal(j.op, gateway, task)
  BY <1>1, <1>2, Known DEF InOrder, HoldsAs, StillSo, Goal
<1> QED
  BY <1>1, <1>2, <1>3, GoKeeps

-----------------------------------------------------------------------------
(* A step of someone who is no request: it takes nothing that a request    *)
(* had met away, and marks whoever relies on what it changes.              *)
LEMMA OutsideKeeps ==
  ASSUME IInv, NEW g \in Gateways, NEW t \in Tasks, Outside(g, t), UNCHANGED job,
         managed' \in BOOLEAN, supervisor' \in Supervisors
  PROVE  IInv'
<1>1. job' = job /\ gateway' = g /\ task' = t
  BY DEF Outside
<1>2. met' \subseteq Requests /\ disturbed' \subseteq Requests
  BY DEF Outside, Met, Live, Relying, IInv, TypeOK
<1>3. TypeOK'
  BY <1>1, <1>2 DEF IInv, TypeOK
<1>4. OneHolder'
  BY <1>1 DEF IInv, OneHolder, Holds
<1>5. ASSUME NEW q \in Requests
      PROVE  /\ InOrder(job[q])
             /\ Promises(job[q]) => q \in met'
             /\ q \in disturbed' \/ StillSo(job[q], g, t)
  <2>1. InOrder(job[q]) /\ (Promises(job[q]) => q \in met)
        /\ (q \in disturbed \/ StillSo(job[q], gateway, task))
    BY DEF IInv
  <2>2. Promises(job[q]) => job[q].pc # "idle"
    BY <2>1 DEF Promises, InOrder, Jobs
  <2>3. Promises(job[q]) => q \in met'
    BY <2>1, <2>2 DEF Outside, Met, Live
  <2>4. CASE <<g, t>> = world
    BY <2>1, <2>3, <2>4 DEF Outside, world
  <2>5. CASE <<g, t>> # world
    <3>1. q \in disturbed' \/ q \notin Relying(job)
      BY <2>5 DEF Outside
    <3>2. q \notin Relying(job) => StillSo(job[q], g, t)
      BY DEF Relying, StillSo
    <3> QED
      BY <2>1, <2>3, <3>1, <3>2
  <2> QED
    BY <2>4, <2>5
<1> QED
  BY <1>1, <1>3, <1>4, <1>5 DEF IInv

LEMMA SuperviseKeeps ==
  ASSUME IInv, NEW from, NEW s \in Supervisors, NEW g \in Gateways, Supervise(from, s, g),
         managed' \in BOOLEAN
  PROVE  IInv'
BY Known, OutsideKeeps DEF Supervise, IInv, TypeOK

(* The supervisor counts its attempts to the limit and no further.         *)
LEMMA SupervisorSteps ==
  ASSUME IInv
  PROVE  /\ Off \in Supervisors /\ Started \in Supervisors
         /\ \A p \in {"off", "look", "judge", "resolve", "launch", "attached", "rest"} :
              [supervisor EXCEPT !.pc = p] \in Supervisors
         /\ supervisor.attempt # Attempts
              => [pc |-> "launch", attempt |-> supervisor.attempt + 1] \in Supervisors
         /\ managed \in BOOLEAN /\ gateway \in Gateways
<1>1. supervisor.attempt \in 1 .. Attempts /\ supervisor \in Supervisors
  BY DEF IInv, TypeOK, Supervisors
<1>2. supervisor.attempt # Attempts => supervisor.attempt + 1 \in 1 .. Attempts
  BY <1>1, AttemptsAssumption
<1>3. 1 \in 1 .. Attempts
  BY AttemptsAssumption
<1> QED
  BY <1>1, <1>2, <1>3 DEF Off, Started, Supervisors, IInv, TypeOK

LEMMA SupervisorKeeps ==
  ASSUME IInv, Supervisor
  PROVE  IInv'
<1>1. CASE SupervisorLooks
  <2>1. PICK o \in Observed :
          Supervise("look", IF o = "running" THEN Off ELSE [supervisor EXCEPT !.pc = "judge"], gateway)
    BY <1>1 DEF SupervisorLooks
  <2> QED
    BY <1>1, <2>1, SupervisorSteps, SuperviseKeeps DEF SupervisorLooks
<1>2. CASE SupervisorLooksInVain
  BY <1>2, SupervisorSteps, SuperviseKeeps DEF SupervisorLooksInVain
<1>3. CASE SupervisorJudges
  BY <1>3, SupervisorSteps, SuperviseKeeps DEF SupervisorJudges
<1>4. CASE SupervisorResolves
  <2>1. PICK s \in {[supervisor EXCEPT !.pc = "launch"], Off} : Supervise("resolve", s, gateway)
    BY <1>4 DEF SupervisorResolves
  <2>2. UNCHANGED managed /\ s \in Supervisors
    BY <1>4, SupervisorSteps DEF SupervisorResolves
  <2> QED
    BY <2>1, <2>2, SupervisorSteps, SuperviseKeeps
<1>5. CASE SupervisorLaunches
  BY <1>5, SupervisorSteps, SuperviseKeeps DEF SupervisorLaunches, Gateways
<1>6. CASE SupervisedEnds
  <2>1. PICK s \in {Off, [supervisor EXCEPT !.pc = "rest"]} : Supervise("attached", s, gateway)
    BY <1>6 DEF SupervisedEnds
  <2>2. UNCHANGED managed /\ s \in Supervisors
    BY <1>6, SupervisorSteps DEF SupervisedEnds
  <2> QED
    BY <2>1, <2>2, SupervisorSteps, SuperviseKeeps
<1>7. CASE SupervisorRests
  BY <1>7, SupervisorSteps, SuperviseKeeps DEF SupervisorRests
<1> QED
  BY <1>1, <1>2, <1>3, <1>4, <1>5, <1>6, <1>7 DEF Supervisor

LEMMA OthersKeep ==
  ASSUME IInv, Die \/ LaunchedByUser \/ TaskChanges
  PROVE  IInv'
<1>1. PICK g \in Gateways, t \in Tasks : Outside(g, t)
  BY DEF Die, LaunchedByUser, TaskChanges, IInv, TypeOK, Gateways
<1>2. UNCHANGED <<managed, job, supervisor>>
  BY DEF Die, LaunchedByUser, TaskChanges
<1> QED
  BY <1>1, <1>2, OutsideKeeps DEF IInv, TypeOK

(* Only the uninstaller outlives the Manager.                              *)
LEMMA QuitKeeps ==
  ASSUME IInv, Quit
  PROVE  IInv'
<1>1. \A r \in Requests : job'[r] = IF job[r].op = "uninstall" THEN job[r] ELSE Idle
  BY DEF Quit
<1>2. TypeOK'
  <2>1. job' \in [Requests -> Jobs]
    BY IdleIsFine DEF Quit, IInv, TypeOK
  <2>2. supervisor' \in Supervisors /\ gateway' \in Gateways
    BY SupervisorSteps DEF Quit, Gateways
  <2> QED
    BY <2>1, <2>2 DEF Quit, IInv, TypeOK
<1>3. OneHolder'
  BY <1>1 DEF OneHolder, Holds, LockedOps, Idle
<1>4. ASSUME NEW r \in Requests
      PROVE  /\ InOrder(job'[r])
             /\ Promises(job'[r]) => r \in met'
             /\ r \in disturbed' \/ StillSo(job'[r], gateway', task')
  <2>1. CASE job[r].op = "uninstall"
    <3>1. job'[r] = job[r] /\ job[r].pc # "idle"
      BY <1>1, <2>1, Known DEF InOrder
    <3>2. r \in met => r \in met'
      BY <3>1 DEF Quit, Live
    <3>3. r \in disturbed => r \in disturbed'
      BY <3>1 DEF Quit, Live
    <3>4. StillSo(job[r], gateway, task) => StillSo(job[r], gateway', task')
      BY <2>1 DEF StillSo, Control, Quit
    <3> QED
      BY <3>1, <3>2, <3>3, <3>4, Known
  <2>2. CASE job[r].op # "uninstall"
    BY <1>1, <2>2, IdleIsFine
  <2> QED
    BY <2>1, <2>2
<1> QED
  BY <1>2, <1>3, <1>4 DEF IInv

-----------------------------------------------------------------------------
LEMMA InitEstablishes == Init => IInv
<1> SUFFICES ASSUME Init PROVE IInv
  OBVIOUS
<1>1. Off \in Supervisors /\ Started \in Supervisors
  BY AttemptsAssumption DEF Off, Started, Supervisors
<1>2. TypeOK
  BY <1>1, IdleIsFine DEF Init, TypeOK, Gateways
<1>3. \A r \in Requests : job[r] = Idle
  BY DEF Init
<1>4. OneHolder
  BY <1>3 DEF OneHolder, Holds, Idle
<1> QED
  BY <1>2, <1>3, <1>4, IdleIsFine DEF IInv

LEMMA StutterKeeps == ASSUME IInv, UNCHANGED vars PROVE IInv'
<1>1. /\ job' = job /\ gateway' = gateway /\ task' = task /\ managed' = managed
      /\ supervisor' = supervisor /\ met' = met /\ disturbed' = disturbed
  BY DEF vars, world
<1>2. TypeOK' /\ OneHolder'
  BY <1>1 DEF IInv, TypeOK, OneHolder, Holds
<1> QED
  BY <1>1, <1>2 DEF IInv

LEMMA NextKeeps == IInv /\ [Next]_vars => IInv'
<1> SUFFICES ASSUME IInv, [Next]_vars PROVE IInv'
  OBVIOUS
<1>1. ASSUME NEW r \in Requests, Ask(r) \/ Enter(r) \/ Works(r) \/ Close(r)
      PROVE  IInv'
  <2>1. CASE Ask(r) \/ Enter(r) \/ Close(r)
    BY <2>1, AskKeeps, EnterKeeps, FailKeeps DEF Close
  <2>2. CASE Look(r) \/ LookFails(r) \/ Judge(r) \/ Probe(r) \/ Decide(r)
    BY <2>2, LookKeeps, FailKeeps, JudgeKeeps, ProbeKeeps, DecideKeeps DEF LookFails
  <2>3. CASE Act(r) \/ ActFails(r) \/ SetFlag(r)
    BY <2>3, ActKeeps, ActFailsKeeps, SetFlagKeeps
  <2>4. CASE \/ Prove(r) \/ Register(r) \/ RegisterFails(r) \/ Verify(r)
             \/ Delete(r) \/ DeleteFails(r) \/ View(r)
    BY <2>4, ProveKeeps, RegisterKeeps, RegisterFailsKeeps, VerifyKeeps, DeleteKeeps,
       DeleteFailsKeeps, ViewKeeps
  <2> QED
    BY <1>1, <2>1, <2>2, <2>3, <2>4 DEF Works
<1> QED
  BY <1>1, SupervisorKeeps, OthersKeep, QuitKeeps, StutterKeeps DEF Next

(* The lock, what an operation has seen and what it was asked for hang     *)
(* together at every point of every operation: the inductive invariant.    *)
THEOREM Invariance == Spec => []IInv
BY InitEstablishes, NextKeeps, PTL DEF Spec

(* Every variable keeps its type; the supervisor's attempts stay bounded.  *)
THEOREM TypeCorrect == Spec => []TypeOK
<1>1. IInv => TypeOK
  BY DEF IInv
<1> QED
  BY <1>1, Invariance, PTL

(* Start, stop, restart, enrolment and removal report success only when    *)
(* what was asked for has been the case during the request.                *)
THEOREM ReportsAreTrue == Spec => []ReportIsTrue
<1>1. IInv => ReportIsTrue
  BY DEF IInv, ReportIsTrue, Promises
<1> QED
  BY <1>1, Invariance, PTL

(* Under actionMu an action is taken on an observation that still holds,   *)
(* unless someone outside of it has interfered.                            *)
THEOREM ActionsRestOnObservations == Spec => []ActsOnWhatItSaw
<1>1. IInv => ActsOnWhatItSaw
  <2> SUFFICES ASSUME IInv, NEW r \in Requests \ disturbed
               PROVE  /\ job[r].pc = "act" => (job[r].seen = "running" <=> gateway # "down")
                      /\ job[r].pc = "delete" => task = "longhub"
                      /\ job[r].pc = "register" => task = "absent"
    BY DEF ActsOnWhatItSaw
  <2>1. StillSo(job[r], gateway, task) /\ InOrder(job[r])
    BY DEF IInv
  <2> QED
    BY <2>1 DEF StillSo, InOrder
<1> QED
  BY <1>1, Invariance, PTL

(* The task page is never served between the steps of a registration or a  *)
(* removal by this Manager.                                                *)
THEOREM PageIsNotTorn == Spec => []PageSeesWholeTransactions
<1>1. IInv => PageSeesWholeTransactions
  <2> SUFFICES ASSUME IInv, NEW r \in Requests, NEW q \in Requests, job[r].pc = "view",
                      job[q].pc \in {"register", "verify", "delete"}
               PROVE  job[q].op = "uninstall"
    BY DEF PageSeesWholeTransactions
  <2>1. Holds(r)
    BY AtWork
  <2>2. Holds(q) \/ job[q].op = "uninstall"
    BY AtWork
  <2> QED
    BY <2>1, <2>2 DEF IInv, OneHolder
<1> QED
  BY <1>1, Invariance, PTL
=============================================================================
