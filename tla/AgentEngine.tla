---------------------------- MODULE AgentEngine ------------------------------
(***************************************************************************)
(* The Manager agent's engine: a map of in-memory sessions, and requests   *)
(* (one goroutine each) that run a turn, answer an approval or reset a     *)
(* session.  A request first finds its session under the map's mutex, then *)
(* takes the session's own mutex and keeps it until it returns; Reset,     *)
(* expiry and eviction take only the map's mutex, so they can remove a     *)
(* session that a request has found or holds.                              *)
(*                                                                         *)
(* A message is its role and its place: the number of calls an assistant   *)
(* message makes, the number of the call a tool message answers.           *)
(***************************************************************************)
EXTENDS Integers, Sequences, FiniteSets

CONSTANTS
  Sessions,      \* session identifiers, never reused
  Approvals,     \* approval identifiers, never reused
  Requests,      \* slots for concurrent HTTP requests
  Nil,
  MaxSessions,   \* maxSessions
  MaxMessages,   \* maxSessionMessages
  MaxRounds,     \* maxAgentRounds
  MaxCalls,      \* maxModelToolCalls
  MaxTurns       \* bound of the model: turns asked for in a behaviour

ASSUME BoundsAssumption ==
  /\ MaxSessions \in Nat \ {0} /\ MaxMessages \in Nat \ {0}
  /\ MaxRounds \in Nat \ {0} /\ MaxCalls \in Nat \ {0} /\ MaxTurns \in Nat

(* refused: an unknown tool, or arguments that are no JSON object.         *)
Kinds == {"read", "write", "refused"}

Calls == [id : 1 .. MaxCalls, kind : Kinds]

(* blank: a reply without text and without calls.                          *)
Messages == [role : {"user", "assistant", "tool", "blank"}, n : 0 .. MaxCalls]

PendingStates == [approval : Approvals, call : Calls, remaining : Seq(Calls)]

ASSUME NilAssumption ==
  Nil \notin Sessions /\ Nil \notin Approvals /\ Nil \notin PendingStates /\ Nil \notin Calls

VARIABLES
  sessions,    \* the keys of the session map
  older,       \* pairs of sessions, the less recently updated one first
  messages,    \* each session's transcript
  pending,     \* each session's pending approval, or Nil
  pc,          \* where each request is
  req,         \* what each request carries
  created,     \* history: identifiers drawn for sessions
  told,        \* history: sessions whose identifier a response carried
  turns,       \* history: turns asked for, up to MaxTurns
  writes,      \* history: writes the model called for, up to one per approval
  shown,       \* history: the call each approval showed to the user
  said,        \* history: the answers that reached the engine for each approval
  decided,     \* history: approvals whose answer was acted upon
  performed    \* history: the writes that ran, and under which approval

bounds == <<told, turns, writes>>
gate == <<shown, said, decided, performed>>
vars == <<sessions, older, messages, pending, pc, req, created, bounds, gate>>

(* turn, resolve: found a session and waits for its mutex.  The others     *)
(* hold it, but for idle.                                                  *)
Holding   == {"model", "calls", "write", "final", "failed"}
Locations == {"idle", "turn", "resolve"} \cup Holding

Answers == {"yes", "no"}

RequestStates ==
  [session : Sessions \cup {Nil}, fresh : BOOLEAN, round : 0 .. MaxRounds,
   queue : Seq(Calls), approval : Approvals \cup {Nil}, answer : Answers]

Request(s, fresh, a, answer) ==
  [session |-> s, fresh |-> fresh, round |-> 0, queue |-> <<>>, approval |-> a,
   answer |-> answer]

NoRequest == Request(Nil, FALSE, Nil, "no")

TypeOK ==
  /\ sessions \subseteq created /\ told \subseteq created /\ created \subseteq Sessions
  /\ older \subseteq Sessions \X Sessions
  /\ messages \in [Sessions -> Seq(Messages)]
  /\ pending \in [Sessions -> PendingStates \cup {Nil}]
  /\ pc \in [Requests -> Locations]
  /\ req \in [Requests -> RequestStates]
  /\ turns \in 0 .. MaxTurns
  /\ writes \in Nat
  /\ shown \in [Approvals -> Calls \cup {Nil}]
  /\ said \in [Approvals -> SUBSET Answers]
  /\ decided \subseteq Approvals
  /\ performed \in Seq([under : Approvals \cup {Nil}, call : Calls])

Init ==
  /\ sessions = {} /\ older = {}
  /\ messages = [s \in Sessions |-> <<>>]
  /\ pending = [s \in Sessions |-> Nil]
  /\ pc = [r \in Requests |-> "idle"]
  /\ req = [r \in Requests |-> NoRequest]
  /\ created = {} /\ told = {} /\ turns = 0 /\ writes = 0
  /\ shown = [a \in Approvals |-> Nil]
  /\ said = [a \in Approvals |-> {}]
  /\ decided = {} /\ performed = <<>>

-----------------------------------------------------------------------------
(* The session map.                                                        *)

(* pruneExpiredLocked: the sessions that can have expired are those        *)
(* updated before some moment.                                             *)
Expirable ==
  {gone \in SUBSET sessions :
     \A s \in gone, t \in sessions : <<t, s>> \in older => t \in gone}

(* Variant: lets the map reach the limit before it makes room. *)
KeptOneMore(keys) ==
  {s \in keys : Cardinality({t \in keys : <<s, t>> \in older}) < MaxSessions}

(* evictForNewSessionLocked: leave room for one more, oldest out first.    *)
Kept(keys) ==
  {s \in keys : Cardinality({t \in keys : <<s, t>> \in older}) < MaxSessions - 1}

Touched(keys, s) ==
  {p \in older : p[1] # s /\ p[1] \in keys /\ p[2] \in keys}
    \cup {<<t, s>> : t \in keys \ {s}}

Locked(s) == \E r \in Requests : req[r].session = s /\ pc[r] \in Holding

(* A lookup by identifier prunes first, then looks.                        *)
Find(s) ==
  \E gone \in Expirable : sessions' = sessions \ gone /\ s \in sessions'

FindNothing ==
  /\ \E s \in told, gone \in Expirable : s \notin sessions \ gone /\ sessions' = sessions \ gone
  /\ UNCHANGED <<older, messages, pending, pc, req, created, bounds, gate>>

(* Reset, called by the reset handler: only the map's mutex is taken.      *)
Reset(s) ==
  /\ s \in told
  /\ sessions' = sessions \ {s}
  /\ UNCHANGED <<older, messages, pending, pc, req, created, bounds, gate>>

-----------------------------------------------------------------------------
(* What a request does with the session it holds.                          *)

Say(r, role, n) ==
  messages' = [messages EXCEPT ![req[r].session] = Append(@, [role |-> role, n |-> n])]

Touch(r) == older' = Touched(sessions, req[r].session)

(* Variant: cuts wherever the limit falls. *)
CompactedAnywhere(ms) ==
  IF Len(ms) <= MaxMessages THEN ms ELSE SubSeq(ms, Len(ms) - MaxMessages + 1, Len(ms))

(* compactLocked: the last MaxMessages messages, from a user's on.         *)
Compacted(ms) ==
  LET users == {i \in 1 .. Len(ms) : i > Len(ms) - MaxMessages /\ ms[i].role = "user"}
  IN  IF Len(ms) <= MaxMessages \/ users = {}
      THEN ms
      ELSE SubSeq(ms, CHOOSE i \in users : \A j \in users : i <= j, Len(ms))

Go(r, from, to) ==
  /\ pc[r] = from
  /\ pc' = [pc EXCEPT ![r] = to]

End(r) == req' = [req EXCEPT ![r] = NoRequest]

(* The response carries the session's identifier.                          *)
Tell(r) == told' = told \cup {req[r].session}

-----------------------------------------------------------------------------
(* TurnWithEvents.                                                         *)

(* A turn without a session identifier draws one.                          *)
TurnOfNewSession(r) ==
  /\ Go(r, "idle", "turn")
  /\ turns < MaxTurns
  /\ \E s \in Sessions \ created, gone \in Expirable :
       LET keys == Kept(sessions \ gone) IN
       /\ sessions' = keys \cup {s}
       /\ older' = Touched(keys, s)
       /\ created' = created \cup {s}
       /\ req' = [req EXCEPT ![r] = Request(s, TRUE, Nil, "no")]
  /\ turns' = turns + 1
  /\ UNCHANGED <<messages, pending, told, writes, gate>>

TurnOfKnownSession(r) ==
  /\ Go(r, "idle", "turn")
  /\ turns < MaxTurns
  /\ \E s \in told :
       /\ Find(s)
       /\ req' = [req EXCEPT ![r] = Request(s, FALSE, Nil, "no")]
  /\ turns' = turns + 1
  /\ UNCHANGED <<older, messages, pending, created, told, writes, gate>>

(* Variant: does not look for a pending approval. *)
TurnBeginsAnyway(r) ==
  /\ Go(r, "turn", "model")
  /\ ~Locked(req[r].session)
  /\ Say(r, "user", 0)
  /\ Touch(r)
  /\ UNCHANGED <<sessions, pending, req, created, bounds, gate>>

TurnBegins(r) ==
  /\ Go(r, "turn", "model")
  /\ ~Locked(req[r].session)
  /\ pending[req[r].session] = Nil
  /\ Say(r, "user", 0)
  /\ Touch(r)
  /\ UNCHANGED <<sessions, pending, req, created, bounds, gate>>

TurnRejected(r) ==
  /\ Go(r, "turn", "idle")
  /\ ~Locked(req[r].session)
  /\ pending[req[r].session] # Nil
  /\ End(r)
  /\ UNCHANGED <<sessions, older, messages, pending, created, bounds, gate>>

-----------------------------------------------------------------------------
(* How a request returns.                                                  *)

(* A turn that fails leaves its messages as they are; one that drew its    *)
(* session removes it first.  An answered approval never fails: what went  *)
(* wrong afterwards becomes a fallback summary.  grown is the transcript   *)
(* the failure left.                                                       *)
Fails(r, from, grown) ==
  LET s == req[r].session IN
  \/ /\ req[r].approval = Nil /\ req[r].fresh
     /\ Go(r, from, "failed")
     /\ messages' = [messages EXCEPT ![s] = grown]
     /\ UNCHANGED <<req, told>>
  \/ /\ req[r].approval = Nil /\ ~req[r].fresh
     /\ Go(r, from, "idle")
     /\ messages' = [messages EXCEPT ![s] = grown]
     /\ End(r)
     /\ UNCHANGED told
  \/ /\ req[r].approval # Nil
     /\ Go(r, from, "idle")
     /\ messages' = [messages EXCEPT ![s] = Compacted(grown)]
     /\ End(r) /\ Tell(r)

(* Variant: Reset also takes the session's mutex. *)
DropFailedUnderLock(r) ==
  /\ Go(r, "failed", "idle")
  /\ ~Locked(req[r].session)
  /\ sessions' = sessions \ {req[r].session}
  /\ End(r)
  /\ UNCHANGED <<older, messages, pending, created, bounds, gate>>

(* Variant: the failed turn's session stays. *)
DropNothing(r) ==
  /\ Go(r, "failed", "idle")
  /\ End(r)
  /\ UNCHANGED <<sessions, older, messages, pending, created, bounds, gate>>

(* The Reset of a failed turn that drew its session, in TurnWithEvents.    *)
DropFailed(r) ==
  /\ Go(r, "failed", "idle")
  /\ sessions' = sessions \ {req[r].session}
  /\ End(r)
  /\ UNCHANGED <<older, messages, pending, created, bounds, gate>>

-----------------------------------------------------------------------------
(* continueLocked: one round is one call of the model.                     *)

(* No credentials, no connection, the request cancelled, a reply that is   *)
(* no valid assistant message.                                             *)
ModelFails(r) ==
  /\ Fails(r, "model", messages[req[r].session])
  /\ UNCHANGED <<sessions, older, pending, created, turns, writes, gate>>

(* A blank reply is an error, and stays in the transcript.                 *)
ModelSaysNothing(r) ==
  /\ Fails(r, "model", Append(messages[req[r].session], [role |-> "blank", n |-> 0]))
  /\ Touch(r)
  /\ UNCHANGED <<sessions, pending, created, turns, writes, gate>>

ModelAnswers(r, from) ==
  LET s == req[r].session IN
  /\ Go(r, from, "idle")
  /\ messages' = [messages EXCEPT ![s] =
                    Compacted(Append(@, [role |-> "assistant", n |-> 0]))]
  /\ Touch(r)
  /\ End(r) /\ Tell(r)
  /\ UNCHANGED <<sessions, pending, created, turns, writes, gate>>

(* Rounds are counted when the model has made its calls.                   *)
ModelCalls(r, kinds) ==
  LET needed == Cardinality({i \in DOMAIN kinds : kinds[i] = "write"}) IN
  /\ Go(r, "model", "calls")
  /\ writes + needed <= Cardinality(Approvals)
  /\ Say(r, "assistant", Len(kinds))
  /\ Touch(r)
  /\ req' = [req EXCEPT ![r].queue = [i \in DOMAIN kinds |-> [id |-> i, kind |-> kinds[i]]],
                        ![r].round = @ + 1]
  /\ writes' = writes + needed
  /\ UNCHANGED <<sessions, pending, created, told, turns, gate>>

(* The end of a round, or of the calls that waited behind an approval,     *)
(* which are followed by MaxRounds rounds of their own.                    *)
CallsDone(r) ==
  /\ Go(r, "calls", IF req[r].round < MaxRounds THEN "model" ELSE "final")
  /\ req[r].queue = <<>>
  /\ UNCHANGED <<sessions, older, messages, pending, req, created, bounds, gate>>

(* finalizeAtRoundLimit: one more call of the model, without tools; if it  *)
(* gives no answer, a summary made of the steps; an error only if the      *)
(* request was cancelled.                                                  *)
FinalFallback(r) ==
  /\ Go(r, "final", "idle")
  /\ messages' = [messages EXCEPT ![req[r].session] = Compacted(@)]
  /\ End(r) /\ Tell(r)
  /\ UNCHANGED <<sessions, older, pending, created, turns, writes, gate>>

FinalCancelled(r) ==
  /\ Fails(r, "final", messages[req[r].session])
  /\ UNCHANGED <<sessions, older, pending, created, turns, writes, gate>>

-----------------------------------------------------------------------------
(* processCallsLocked: the calls of a round in their order.                *)

RequiresApproval(call) == call.kind = "write"

(* executeTool, for what the gate can tell: which writes ran.              *)
Execute(call, approval) ==
  performed' = IF call.kind = "write"
               THEN Append(performed, [under |-> approval, call |-> call])
               ELSE performed

Answered(r) ==
  /\ Say(r, "tool", Head(req[r].queue).id)
  /\ req' = [req EXCEPT ![r].queue = Tail(@)]

CallRefused(r) ==
  /\ pc[r] = "calls" /\ req[r].queue # <<>>
  /\ Head(req[r].queue).kind = "refused"
  /\ Answered(r)
  /\ UNCHANGED <<sessions, older, pending, pc, created, bounds, gate>>

CallRuns(r) ==
  /\ pc[r] = "calls" /\ req[r].queue # <<>>
  /\ Head(req[r].queue).kind # "refused"
  /\ ~RequiresApproval(Head(req[r].queue))
  /\ Execute(Head(req[r].queue), Nil)
  /\ Answered(r)
  /\ UNCHANGED <<sessions, older, pending, pc, created, bounds, shown, said, decided>>

(* Variant: the calls behind the one that waits are forgotten. *)
CallWaitsAlone(r) ==
  LET s == req[r].session
      call == Head(req[r].queue)
  IN
  /\ Go(r, "calls", "idle")
  /\ req[r].queue # <<>>
  /\ call.kind # "refused"
  /\ RequiresApproval(call)
  /\ \E a \in Approvals :
       /\ shown[a] = Nil
       /\ pending' = [pending EXCEPT ![s] = [approval |-> a, call |-> call, remaining |-> <<>>]]
       /\ shown' = [shown EXCEPT ![a] = call]
  /\ End(r) /\ Tell(r)
  /\ UNCHANGED <<sessions, older, messages, created, turns, writes, said, decided, performed>>

CallWaits(r) ==
  LET s == req[r].session
      call == Head(req[r].queue)
  IN
  /\ Go(r, "calls", "idle")
  /\ req[r].queue # <<>>
  /\ call.kind # "refused"
  /\ RequiresApproval(call)
  /\ \E a \in Approvals :
       /\ shown[a] = Nil
       /\ pending' = [pending EXCEPT ![s] = [approval |-> a, call |-> call,
                                             remaining |-> Tail(req[r].queue)]]
       /\ shown' = [shown EXCEPT ![a] = call]
  /\ End(r) /\ Tell(r)
  /\ UNCHANGED <<sessions, older, messages, created, turns, writes, said, decided, performed>>

-----------------------------------------------------------------------------
(* ResolveApprovalWithEvents.                                              *)

AnswerArrives(r) ==
  /\ Go(r, "idle", "resolve")
  /\ \E s \in told, a \in Approvals, answer \in Answers :
       /\ shown[a] # Nil
       /\ Find(s)
       /\ req' = [req EXCEPT ![r] = Request(s, FALSE, a, answer)]
       /\ said' = [said EXCEPT ![a] = @ \cup {answer}]
  /\ UNCHANGED <<older, messages, pending, created, bounds, shown, decided, performed>>

(* Variant: any answer decides what is pending. *)
MatchesAny(r) == pending[req[r].session] # Nil

Matches(r) ==
  LET p == pending[req[r].session] IN p # Nil /\ p.approval = req[r].approval

AnswerRejected(r) ==
  /\ Go(r, "resolve", "idle")
  /\ ~Locked(req[r].session)
  /\ ~Matches(r)
  /\ End(r)
  /\ UNCHANGED <<sessions, older, messages, pending, created, bounds, gate>>

(* Variant: the approval stays pending while its tool runs. *)
ApprovedStillPending(r) ==
  LET p == pending[req[r].session] IN
  /\ Go(r, "resolve", "write")
  /\ ~Locked(req[r].session)
  /\ Matches(r)
  /\ req[r].answer = "yes"
  /\ req' = [req EXCEPT ![r].queue = <<p.call>> \o p.remaining]
  /\ decided' = decided \cup {p.approval}
  /\ Execute(p.call, p.approval)
  /\ UNCHANGED <<sessions, older, messages, pending, created, bounds, shown, said>>

(* The approved tool starts; the call stays at the queue's head until it   *)
(* has ended.                                                              *)
Approved(r) ==
  LET p == pending[req[r].session] IN
  /\ Go(r, "resolve", "write")
  /\ ~Locked(req[r].session)
  /\ Matches(r)
  /\ req[r].answer = "yes"
  /\ pending' = [pending EXCEPT ![req[r].session] = Nil]
  /\ req' = [req EXCEPT ![r].queue = <<p.call>> \o p.remaining]
  /\ decided' = decided \cup {p.approval}
  /\ Execute(p.call, p.approval)
  /\ UNCHANGED <<sessions, older, messages, created, bounds, shown, said>>

WriteEnds(r) ==
  /\ Go(r, "write", "calls")
  /\ Answered(r)
  /\ UNCHANGED <<sessions, older, pending, created, bounds, gate>>

Denied(r) ==
  LET p == pending[req[r].session] IN
  /\ Go(r, "resolve", "calls")
  /\ ~Locked(req[r].session)
  /\ Matches(r)
  /\ req[r].answer = "no"
  /\ pending' = [pending EXCEPT ![req[r].session] = Nil]
  /\ Say(r, "tool", p.call.id)
  /\ req' = [req EXCEPT ![r].queue = p.remaining]
  /\ decided' = decided \cup {p.approval}
  /\ UNCHANGED <<sessions, older, created, bounds, shown, said, performed>>

-----------------------------------------------------------------------------
KindLists == UNION {[1 .. n -> Kinds] : n \in 1 .. MaxCalls}

Arrivals(r) == TurnOfNewSession(r) \/ TurnOfKnownSession(r) \/ AnswerArrives(r)

Locks(r) == TurnBegins(r) \/ TurnRejected(r) \/ AnswerRejected(r) \/ Approved(r) \/ Denied(r)

Works(r) ==
  \/ ModelFails(r) \/ ModelSaysNothing(r)
  \/ ModelAnswers(r, "model") \/ ModelAnswers(r, "final")
  \/ \E kinds \in KindLists : ModelCalls(r, kinds)
  \/ CallsDone(r) \/ CallRefused(r) \/ CallRuns(r) \/ CallWaits(r) \/ WriteEnds(r)
  \/ FinalFallback(r) \/ FinalCancelled(r)
  \/ DropFailed(r)

Next ==
  \/ \E r \in Requests : Arrivals(r) \/ Locks(r) \/ Works(r)
  \/ \E s \in Sessions : Reset(s)
  \/ FindNothing

Spec == Init /\ [][Next]_vars

-----------------------------------------------------------------------------
(* Properties.                                                             *)

(* A write tool runs only as the call its approval showed, after a yes to  *)
(* that approval, once, and never after a no was acted upon; whatever      *)
(* other requests, resets, expiries and evictions do meanwhile.            *)
Gate == INSTANCE ApprovalGate
ImplementsGate == Gate!Spec

(* The transcript begins with a user's message, and the tool messages      *)
(* behind an assistant's answer its calls in their order.                  *)
AnswersInOrder(ms) ==
  /\ ms # <<>> => ms[1].role = "user"
  /\ \A i \in DOMAIN ms :
       /\ ms[i].role = "tool" =>
            ms[i].n < i /\ ms[i - ms[i].n].role = "assistant" /\ ms[i].n <= ms[i - ms[i].n].n
       /\ ms[i].role = "assistant" =>
            \A k \in 1 .. ms[i].n :
              i + k <= Len(ms) => ms[i + k] = [role |-> "tool", n |-> k]

(* The number of calls of the last assistant message without an answer;    *)
(* empty for none.                                                         *)
Unanswered(ms) ==
  {k \in 1 .. MaxCalls :
     \E i \in DOMAIN ms : ms[i].role = "assistant" /\ i + ms[i].n = Len(ms) + k}

(* The number of calls a session still has to answer: the pending one and  *)
(* those behind it, or the queue of the request that holds it.             *)
Owed(s) ==
  (IF pending[s] = Nil THEN {} ELSE {1 + Len(pending[s].remaining)})
    \cup {Len(req[r].queue) :
            r \in {q \in Requests : req[q].session = s /\ pc[q] \in Holding
                                      /\ req[q].queue # <<>>}}

(* The transcript and the control state agree: it begins with a user's     *)
(* message, each tool message answers its call in order, and the calls     *)
(* without an answer are those the engine still holds.  So what the model  *)
(* is sent, after failed turns, refusals, compaction and races, has an     *)
(* answer to every call.                                                   *)
TranscriptIsAccounted ==
  \A s \in Sessions : AnswersInOrder(messages[s]) /\ Unanswered(messages[s]) = Owed(s)

(* While an approval is pending its session takes no message, and only an  *)
(* answer the user gave to it ends it.                                     *)
PendingFreezesSession ==
  [][\A s \in Sessions :
       pending[s] # Nil =>
         IF pending'[s] = Nil
         THEN said[pending[s].approval] # {}
         ELSE pending'[s] = pending[s] /\ messages'[s] = messages[s]]_vars

(* The map never holds more sessions than its limit.                       *)
SessionsBounded == Cardinality(sessions) <= MaxSessions

(* Every session in the map can be reached: its identifier was sent in a   *)
(* response, or the request that drew it still runs.                       *)
NoSessionIsLost ==
  \A s \in sessions : s \in told \/ \E r \in Requests : req[r].session = s /\ req[r].fresh

(* A session is held by one request at a time, and none while it waits     *)
(* for an answer.                                                          *)
HeldByOne ==
  \A r, q \in Requests :
    /\ IF pc[r] = "idle" THEN ~req[r].fresh ELSE req[r].session \in created
    /\ pc[r] \in Holding => pending[req[r].session] = Nil
    /\ pc[r] \in Holding /\ pc[q] \in Holding /\ req[r].session = req[q].session => r = q

(* A request that is about to call the model has a round left, and one     *)
(* that runs an approved write has its call.                               *)
RequestsAreReady ==
  \A r \in Requests :
    /\ pc[r] = "turn" => req[r].round = 0
    /\ pc[r] = "model" => req[r].round < MaxRounds
    /\ pc[r] = "write" => req[r].queue # <<>>

(* What is pending is the undecided write its approval showed.             *)
PendingIsShown ==
  \A s \in Sessions : pending[s] # Nil =>
    /\ s \in told
    /\ pending[s].approval \notin decided
    /\ pending[s].call = shown[pending[s].approval]
    /\ RequiresApproval(pending[s].call)
    /\ \A t \in Sessions :
         pending[t] # Nil /\ pending[t].approval = pending[s].approval => s = t

(* An answer on its way to the engine is one the user gave.                *)
AnswersAreSaid ==
  /\ \A r \in Requests : req[r].approval # Nil =>
       req[r].answer \in said[req[r].approval] /\ ~req[r].fresh /\ req[r].session \in told
  /\ \A r \in Requests : pc[r] = "resolve" => req[r].approval # Nil
  /\ \A r \in Requests : pc[r] = "failed" => req[r].fresh
  /\ \A a \in Approvals : a \in decided \/ said[a] # {} => shown[a] # Nil

IInv ==
  /\ TypeOK /\ HeldByOne /\ RequestsAreReady /\ PendingIsShown /\ AnswersAreSaid
  /\ NoSessionIsLost

-----------------------------------------------------------------------------
(* Invariants behind SessionsBounded and TranscriptIsAccounted.            *)

(* Any two sessions in the map have an order of last use.                  *)
UseIsOrdered ==
  /\ IsFiniteSet(sessions)
  /\ \A s, t \in sessions : s # t => <<s, t>> \in older \/ <<t, s>> \in older
  /\ \A s \in sessions : <<s, s>> \notin older
  /\ \A s, t, u \in sessions : <<s, t>> \in older /\ <<t, u>> \in older => <<s, u>> \in older

(* The calls in rest are the last ones of the last reply, and the only     *)
(* ones without an answer.                                                 *)
HasToAnswer(ms, rest) ==
  /\ Unanswered(ms) = {Len(rest)} \ {0}
  /\ rest # <<>> => \E i \in DOMAIN ms :
       /\ ms[i].role = "assistant"
       /\ i + ms[i].n = Len(ms) + Len(rest)
       /\ \A k \in DOMAIN rest : rest[k].id = k + ms[i].n - Len(rest)

WaitingCalls(s) == <<pending[s].call>> \o pending[s].remaining

RequestsAnswer ==
  \A r \in Requests :
    /\ pc[r] \in Holding =>
         /\ messages[req[r].session] # <<>>
         /\ HasToAnswer(messages[req[r].session], req[r].queue)
    /\ pc[r] \notin {"calls", "write"} => req[r].queue = <<>>

SessionsAnswer ==
  \A s \in Sessions :
    /\ AnswersInOrder(messages[s])
    /\ pending[s] # Nil => HasToAnswer(messages[s], WaitingCalls(s))
    /\ pending[s] = Nil /\ ~Locked(s) => HasToAnswer(messages[s], <<>>)

TranscriptIInv == IInv /\ RequestsAnswer /\ SessionsAnswer
=============================================================================
