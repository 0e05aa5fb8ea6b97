------------------------- MODULE AgentEngineProofs --------------------------
(***************************************************************************)
(* Proofs about AgentEngine and AgentPage, for any sets of sessions,       *)
(* approvals and requests and any limits.                                  *)
(***************************************************************************)
EXTENDS AgentPage, SequenceTheorems, FiniteSetTheorems, WellFoundedInduction, TLAPS

-----------------------------------------------------------------------------
(* The operators the transitions are built from.                           *)

(* A set of naturals has a least element.                                  *)
LEMMA Least ==
  ASSUME NEW S \in SUBSET Nat, S # {}
  PROVE  \E i \in S : \A j \in S : i <= j
<1>1. PICK i \in S : \A j \in S : ~(<<j, i>> \in OpToRel(<, Nat))
  BY NatLessThanWellFounded, WFMin
<1>2. ASSUME NEW j \in S
      PROVE  i <= j
  <2>1. ~(<<j, i>> \in {p \in Nat \X Nat : p[1] < p[2]})
    BY <1>1 DEF OpToRel
  <2>2. j \in Nat /\ i \in Nat
    OBVIOUS
  <2>3. ~(j < i)
    BY <2>1, <2>2
  <2> QED
    BY <2>2, <2>3
<1> QED
  BY <1>2

(* Compaction keeps a part of the transcript.                              *)
LEMMA CompactedIsATranscript ==
  ASSUME NEW ms \in Seq(Messages)
  PROVE  Compacted(ms) \in Seq(Messages)
<1> DEFINE users == {i \in 1 .. Len(ms) : i > Len(ms) - MaxMessages /\ ms[i].role = "user"}
           first == CHOOSE i \in users : \A j \in users : i <= j
<1>1. CASE Len(ms) <= MaxMessages \/ users = {}
  BY <1>1 DEF Compacted
<1>2. CASE ~(Len(ms) <= MaxMessages \/ users = {})
  <2>1. users \in SUBSET Nat /\ users # {}
    BY <1>2
  <2>2. \E i \in users : \A j \in users : i <= j
    <3> HIDE DEF users
    <3> QED
      BY <2>1, Least
  <2>3. first \in users
    BY <2>2
  <2>4. first \in 1 .. Len(ms) /\ Len(ms) \in Nat
    BY <2>3
  <2>5. \A k \in first .. Len(ms) : ms[k] \in Messages
    BY <2>4
  <2>6. SubSeq(ms, first, Len(ms)) \in Seq(Messages)
    BY <2>4, <2>5, SubSeqProperties
  <2> QED
    BY <1>2, <2>6 DEF Compacted
<1> QED
  BY <1>1, <1>2

(* A transcript that grows by one message, or is compacted, is one.        *)
LEMMA TranscriptsGrow ==
  ASSUME TypeOK, NEW s \in Sessions, NEW role \in {"user", "assistant", "tool", "blank"},
         NEW n \in 0 .. MaxCalls
  PROVE  /\ Append(messages[s], [role |-> role, n |-> n]) \in Seq(Messages)
         /\ Compacted(messages[s]) \in Seq(Messages)
         /\ Compacted(Append(messages[s], [role |-> role, n |-> n])) \in Seq(Messages)
<1>1. [role |-> role, n |-> n] \in Messages
  BY DEF Messages
<1>2. messages[s] \in Seq(Messages)
  BY DEF TypeOK
<1>3. Append(messages[s], [role |-> role, n |-> n]) \in Seq(Messages)
  BY <1>1, <1>2
<1> QED
  BY <1>2, <1>3, CompactedIsATranscript

LEMMA TouchedIsAnOrder ==
  ASSUME TypeOK, NEW keys \in SUBSET Sessions, NEW s \in Sessions
  PROVE  Touched(keys, s) \subseteq Sessions \X Sessions
BY DEF TypeOK, Touched

(* What a request carries after it ends, and after its queue changes.      *)
LEMMA EndedRequests ==
  ASSUME TypeOK, NEW r \in Requests, End(r)
  PROVE  /\ req' \in [Requests -> RequestStates]
         /\ req'[r].approval = Nil /\ ~req'[r].fresh
         /\ \A q \in Requests \ {r} : req'[q] = req[q]
<1>1. NoRequest \in RequestStates
  BY BoundsAssumption, EmptySeq DEF NoRequest, Request, RequestStates, Answers
<1> QED
  BY <1>1 DEF TypeOK, End, NoRequest, Request

LEMMA QueuedRequests ==
  ASSUME TypeOK, NEW r \in Requests, NEW queue \in Seq(Calls), NEW round \in 0 .. MaxRounds,
         req' = [req EXCEPT ![r].queue = queue, ![r].round = round]
  PROVE  /\ req' \in [Requests -> RequestStates]
         /\ req'[r].session = req[r].session /\ req'[r].approval = req[r].approval
         /\ req'[r].fresh = req[r].fresh /\ req'[r].answer = req[r].answer /\ req'[r].round = round
         /\ \A q \in Requests \ {r} : req'[q] = req[q]
BY DEF TypeOK, RequestStates

(* An execution leaves a log of calls.                                     *)
LEMMA ExecutionIsLogged ==
  ASSUME TypeOK, NEW call \in Calls, NEW a \in Approvals \cup {Nil}, Execute(call, a)
  PROVE  performed' \in Seq([under : Approvals \cup {Nil}, call : Calls])
<1>1. [under |-> a, call |-> call] \in [under : Approvals \cup {Nil}, call : Calls]
  OBVIOUS
<1>2. performed \in Seq([under : Approvals \cup {Nil}, call : Calls])
  BY DEF TypeOK
<1>3. Append(performed, [under |-> a, call |-> call])
        \in Seq([under : Approvals \cup {Nil}, call : Calls])
  BY <1>1, <1>2, AppendProperties
<1> QED
  BY <1>2, <1>3 DEF Execute

-----------------------------------------------------------------------------
(* The inductive invariant.                                                *)

LEMMA InitIInv == Init => IInv
BY BoundsAssumption, NilAssumption, EmptySeq
DEF Init, IInv, TypeOK, HeldByOne, RequestsAreReady, PendingIsShown, AnswersAreSaid, NoSessionIsLost,
    RequestStates, NoRequest, Request, Locations, Holding, Answers

(* A request that returns.                                                 *)
LEMMA ReturnKeepsIInv ==
  ASSUME IInv, NEW r \in Requests, pc[r] # "idle", Go(r, pc[r], "idle"), End(r),
         UNCHANGED <<pending, created, turns, writes, shown, said, decided, performed>>,
         sessions' = sessions \/ sessions' = sessions \ {req[r].session},
         told' = told \/ told' = told \cup {req[r].session},
         req[r].fresh => req[r].session \in told' \/ req[r].session \notin sessions',
         messages' \in [Sessions -> Seq(Messages)],
         older' \subseteq Sessions \X Sessions
  PROVE  IInv'
<1>1. /\ req' \in [Requests -> RequestStates]
      /\ req'[r].approval = Nil /\ ~req'[r].fresh
      /\ \A q \in Requests \ {r} : req'[q] = req[q]
  BY EndedRequests DEF IInv
<1>2. pc' \in [Requests -> Locations] /\ pc'[r] = "idle"
      /\ \A q \in Requests \ {r} : pc'[q] = pc[q]
  BY DEF Go, IInv, TypeOK, Locations
<1>3. TypeOK'
  BY <1>1, <1>2 DEF IInv, TypeOK, HeldByOne
<1>4. HeldByOne' /\ RequestsAreReady'
  <2>1. "idle" \notin Holding
    BY DEF Holding
  <2>2. HeldByOne'
    BY <1>1, <1>2, <2>1 DEF IInv, HeldByOne
  <2>3. RequestsAreReady'
    BY <1>1, <1>2 DEF IInv, RequestsAreReady
  <2> QED
    BY <2>2, <2>3
<1>5. PendingIsShown'
  BY DEF IInv, PendingIsShown
<1>6. AnswersAreSaid'
  BY <1>1, <1>2 DEF IInv, AnswersAreSaid
<1>7. NoSessionIsLost'
  BY <1>1 DEF IInv, NoSessionIsLost
<1> QED
  BY <1>3, <1>4, <1>5, <1>6, <1>7 DEF IInv

(* A request that goes on with the session it holds.                       *)
LEMMA WorkKeepsIInv ==
  ASSUME IInv, NEW r \in Requests, pc[r] \in Holding,
         NEW to \in Holding \ {"write"}, pc' = [pc EXCEPT ![r] = to],
         to = "failed" => req[r].fresh,
         req' \in [Requests -> RequestStates],
         req'[r].session = req[r].session, req'[r].approval = req[r].approval,
         req'[r].fresh = req[r].fresh, req'[r].answer = req[r].answer,
         to = "model" => req'[r].round < MaxRounds,
         \A q \in Requests \ {r} : req'[q] = req[q],
         UNCHANGED <<sessions, pending, created, told, turns, shown, said, decided>>,
         writes' \in Nat,
         performed' \in Seq([under : Approvals \cup {Nil}, call : Calls]),
         messages' \in [Sessions -> Seq(Messages)],
         older' \subseteq Sessions \X Sessions
  PROVE  IInv'
<1>1. pc' \in [Requests -> Locations] /\ pc'[r] = to
      /\ \A q \in Requests \ {r} : pc'[q] = pc[q]
  BY DEF IInv, TypeOK, Locations
<1>2. TypeOK'
  BY <1>1 DEF IInv, TypeOK
<1>3. HeldByOne'
  <2>1. "idle" \notin Holding
    BY DEF Holding
  <2>2. pc[r] # "idle" /\ req[r].session \in created /\ pending[req[r].session] = Nil
    BY <2>1 DEF IInv, HeldByOne
  <2>3. \A q \in Requests : pc'[q] \in Holding <=> pc[q] \in Holding
    BY <1>1
  <2>4. \A q \in Requests : req'[q].session = req[q].session /\ req'[q].fresh = req[q].fresh
    OBVIOUS
  <2>5. \A q \in Requests : pc'[q] = "idle" <=> pc[q] = "idle"
    BY <1>1, <2>1, <2>2
  <2> QED
    BY <2>3, <2>4, <2>5 DEF IInv, HeldByOne
<1>7. RequestsAreReady'
  BY <1>1 DEF IInv, RequestsAreReady, Holding
<1>4. PendingIsShown'
  BY DEF IInv, PendingIsShown
<1>5. AnswersAreSaid'
  BY <1>1 DEF IInv, AnswersAreSaid, Holding
<1>6. NoSessionIsLost'
  BY <1>1 DEF IInv, NoSessionIsLost
<1> QED
  BY <1>2, <1>3, <1>4, <1>5, <1>6, <1>7 DEF IInv

(* Facts of a holder's state that every action of a request uses.          *)
LEMMA SessionOfRequest ==
  ASSUME IInv, NEW r \in Requests, pc[r] # "idle"
  PROVE  /\ req[r].session \in Sessions /\ req[r].session \in created
         /\ req[r] \in RequestStates
         /\ messages[req[r].session] \in Seq(Messages)
         /\ req[r].queue \in Seq(Calls) /\ req[r].round \in 0 .. MaxRounds
BY DEF IInv, TypeOK, HeldByOne, RequestStates

LEMMA FailsKeepsIInv ==
  ASSUME IInv, NEW r \in Requests, NEW from \in {"model", "final"}, NEW grown \in Seq(Messages),
         Fails(r, from, grown),
         UNCHANGED <<sessions, pending, created, turns, writes, gate>>,
         older' \subseteq Sessions \X Sessions
  PROVE  IInv'
<1>1. pc[r] = from /\ pc[r] \in Holding /\ pc[r] # "idle"
  BY DEF Fails, Go, Holding
<1>2. req[r].session \in Sessions /\ Compacted(grown) \in Seq(Messages)
  BY <1>1, SessionOfRequest, CompactedIsATranscript
<1>3. messages' \in [Sessions -> Seq(Messages)]
  BY <1>2 DEF Fails, IInv, TypeOK
<1>4. CASE pc' = [pc EXCEPT ![r] = "failed"] /\ req[r].fresh /\ UNCHANGED <<req, told>>
  BY <1>1, <1>3, <1>4, WorkKeepsIInv DEF gate, Holding, IInv, TypeOK
<1>5. CASE Go(r, pc[r], "idle") /\ End(r) /\ ~req[r].fresh /\ UNCHANGED told
  BY <1>1, <1>3, <1>5, ReturnKeepsIInv DEF gate
<1>6. CASE Go(r, pc[r], "idle") /\ End(r) /\ req[r].approval # Nil /\ Tell(r)
  BY <1>1, <1>3, <1>6, ReturnKeepsIInv DEF gate, Tell
<1> QED
  BY <1>1, <1>4, <1>5, <1>6 DEF Fails, Go

(* A call that is answered: the queue moves on.                            *)
LEMMA AnsweredKeepsIInv ==
  ASSUME IInv, NEW r \in Requests, pc[r] \in Holding, NEW to \in {"calls"},
         pc' = [pc EXCEPT ![r] = to], req[r].queue # <<>>, Answered(r),
         UNCHANGED <<sessions, older, pending, created, bounds, shown, said, decided>>,
         performed' \in Seq([under : Approvals \cup {Nil}, call : Calls])
  PROVE  IInv'
<1>1. pc[r] # "idle"
  BY DEF Holding
<1>2. Head(req[r].queue) \in Calls /\ Tail(req[r].queue) \in Seq(Calls)
  BY <1>1, SessionOfRequest, HeadTailProperties
<1>3. Head(req[r].queue).id \in 0 .. MaxCalls
  BY <1>2, BoundsAssumption DEF Calls
<1>4. messages' \in [Sessions -> Seq(Messages)]
  BY <1>1, <1>3, SessionOfRequest, TranscriptsGrow DEF Answered, Say, IInv, TypeOK
<1>5. /\ req' \in [Requests -> RequestStates]
      /\ req'[r].session = req[r].session /\ req'[r].approval = req[r].approval
      /\ req'[r].fresh = req[r].fresh /\ req'[r].answer = req[r].answer
      /\ \A q \in Requests \ {r} : req'[q] = req[q]
  BY <1>2 DEF Answered, IInv, TypeOK, RequestStates
<1> QED
  BY <1>4, <1>5, WorkKeepsIInv DEF IInv, TypeOK, Holding, bounds

(* A request that arrives and finds or draws a session.                    *)
LEMMA ArrivalKeepsIInv ==
  ASSUME IInv, NEW r \in Requests, NEW to \in {"turn", "resolve"}, Go(r, "idle", to),
         NEW s \in Sessions, NEW fresh \in BOOLEAN, NEW a \in Approvals \cup {Nil},
         NEW answer \in Answers,
         req' = [req EXCEPT ![r] = Request(s, fresh, a, answer)],
         created' = created \/ created' = created \cup {s}, s \in created',
         sessions' \subseteq created', sessions' \subseteq sessions \cup {s},
         s \in sessions \/ fresh \/ s \in told,
         to = "resolve" <=> a # Nil,
         a # Nil => /\ ~fresh /\ s \in told /\ shown[a] # Nil
                    /\ said' = [said EXCEPT ![a] = @ \cup {answer}],
         a = Nil => said' = said,
         turns' \in 0 .. MaxTurns,
         older' \subseteq Sessions \X Sessions,
         UNCHANGED <<messages, pending, told, writes, shown, decided, performed>>
  PROVE  IInv'
<1>1. /\ req' \in [Requests -> RequestStates]
      /\ req'[r].session = s /\ req'[r].approval = a
      /\ req'[r].fresh = fresh /\ req'[r].answer = answer /\ req'[r].round = 0
      /\ \A q \in Requests \ {r} : req'[q] = req[q]
  <2>1. Request(s, fresh, a, answer) \in RequestStates
    BY BoundsAssumption, EmptySeq DEF RequestStates, Request
  <2> QED
    BY <2>1 DEF IInv, TypeOK, Request
<1>2. pc' \in [Requests -> Locations] /\ pc'[r] = to /\ pc[r] = "idle"
      /\ \A q \in Requests \ {r} : pc'[q] = pc[q]
  BY DEF Go, IInv, TypeOK, Locations
<1>3. /\ said' \in [Approvals -> SUBSET Answers]
      /\ \A b \in Approvals : said[b] \subseteq said'[b]
      /\ \A b \in Approvals : said'[b] # said[b] => b = a
      /\ a # Nil => answer \in said'[a]
  <2>1. said \in [Approvals -> SUBSET Answers]
    BY DEF IInv, TypeOK
  <2>2. CASE a = Nil
    BY <2>1, <2>2
  <2>3. CASE a # Nil
    <3>1. a \in Approvals
      BY <2>3
    <3> QED
      BY <2>1, <2>3, <3>1
  <2> QED
    BY <2>2, <2>3
<1>4. TypeOK'
  BY <1>1, <1>2, <1>3 DEF IInv, TypeOK
<1>5. HeldByOne' /\ RequestsAreReady'
  BY <1>1, <1>2 DEF IInv, HeldByOne, RequestsAreReady, Holding
<1>6. PendingIsShown'
  BY DEF IInv, PendingIsShown
<1>7. AnswersAreSaid'
  <2>1. \A q \in Requests : req'[q].approval # Nil => req'[q].approval \in Approvals
    BY <1>1 DEF RequestStates
  <2>2. \A q \in Requests : req'[q].approval # Nil =>
          req'[q].answer \in said'[req'[q].approval] /\ ~req'[q].fresh
            /\ req'[q].session \in told'
    BY <1>1, <1>3, <2>1 DEF IInv, AnswersAreSaid
  <2>3. \A b \in Approvals : b \in decided' \/ said'[b] # {} => shown'[b] # Nil
    BY <1>3 DEF IInv, AnswersAreSaid
  <2> QED
    BY <1>1, <1>2, <2>2, <2>3 DEF IInv, AnswersAreSaid
<1>8. NoSessionIsLost'
  BY <1>1, <1>2 DEF IInv, NoSessionIsLost, HeldByOne
<1> QED
  BY <1>4, <1>5, <1>6, <1>7, <1>8 DEF IInv

(* Approved and Denied: the pending approval is decided and its request    *)
(* takes the calls over.                                                   *)
LEMMA DecisionKeepsIInv ==
  ASSUME IInv, NEW r \in Requests, NEW to \in {"write", "calls"}, Go(r, "resolve", to),
         ~Locked(req[r].session), Matches(r),
         NEW queue \in Seq(Calls), to = "write" => queue # <<>>,
         req' = [req EXCEPT ![r].queue = queue],
         pending' = [pending EXCEPT ![req[r].session] = Nil],
         decided' = decided \cup {pending[req[r].session].approval},
         performed' \in Seq([under : Approvals \cup {Nil}, call : Calls]),
         messages' \in [Sessions -> Seq(Messages)],
         UNCHANGED <<sessions, older, created, bounds, shown, said>>
  PROVE  IInv'
<1> DEFINE s == req[r].session
           a == req[r].approval
<1>1. /\ pc[r] = "resolve" /\ pc' = [pc EXCEPT ![r] = to]
      /\ s \in Sessions /\ s \in created
      /\ pending[s] # Nil /\ pending[s] \in PendingStates
      /\ pending[s].approval = a /\ a \in Approvals /\ a # Nil /\ a \notin decided
  BY NilAssumption
  DEF Go, Matches, IInv, TypeOK, HeldByOne, PendingIsShown, AnswersAreSaid, RequestStates
<1>2. /\ req' \in [Requests -> RequestStates]
      /\ req'[r].session = s /\ req'[r].approval = a /\ req'[r].queue = queue
      /\ req'[r].fresh = req[r].fresh /\ req'[r].answer = req[r].answer
      /\ \A q \in Requests \ {r} : req'[q] = req[q]
  BY DEF IInv, TypeOK, RequestStates
<1>3. pc' \in [Requests -> Locations] /\ pc'[r] = to
      /\ \A q \in Requests \ {r} : pc'[q] = pc[q]
  BY <1>1 DEF IInv, TypeOK, Locations, Holding
<1>4. TypeOK'
  <2>1. pending' \in [Sessions -> PendingStates \cup {Nil}] /\ decided' \subseteq Approvals
    BY <1>1 DEF IInv, TypeOK
  <2> QED
    BY <1>2, <1>3, <2>1 DEF IInv, TypeOK, bounds
<1>5. HeldByOne'
  <2>1. \A q \in Requests : req[q].session = s => pc[q] \notin Holding
    BY DEF Locked
  <2>2. pending' \in [Sessions -> PendingStates \cup {Nil}]
        /\ pending'[s] = Nil /\ \A t \in Sessions \ {s} : pending'[t] = pending[t]
    BY <1>1 DEF IInv, TypeOK
  <2>3. \A q \in Requests \ {r} : pc[q] \in Holding => req[q].session \in Sessions
    BY SessionOfRequest DEF Holding
  <2>4. \A q \in Requests : pc'[q] = "idle" <=> pc[q] = "idle"
    BY <1>1, <1>3
  <2> QED
    BY <1>1, <1>2, <1>3, <2>1, <2>2, <2>3, <2>4 DEF IInv, HeldByOne
<1>6. RequestsAreReady'
  BY <1>2, <1>3 DEF IInv, RequestsAreReady
<1>7. PendingIsShown'
  <2>1. \A t \in Sessions : pending'[t] # Nil => t # s /\ pending'[t] = pending[t]
    BY <1>1 DEF IInv, TypeOK
  <2>2. \A t \in Sessions \ {s} : pending[t] # Nil => pending[t].approval # a
    BY <1>1 DEF IInv, PendingIsShown
  <2> QED
    BY <1>1, <2>1, <2>2 DEF IInv, PendingIsShown, bounds
<1>8. AnswersAreSaid'
  <2>1. \A b \in decided' : b \in decided \/ b = a
    BY <1>1
  <2>2. said[a] # {}
    BY <1>1 DEF IInv, AnswersAreSaid
  <2>3. \A q \in Requests : req'[q].approval = req[q].approval
          /\ req'[q].answer = req[q].answer /\ req'[q].fresh = req[q].fresh
          /\ req'[q].session = req[q].session
    BY <1>2
  <2>4. \A q \in Requests : pc'[q] \in {"resolve", "failed"} => pc[q] = pc'[q]
    BY <1>3
  <2> QED
    BY <1>1, <2>1, <2>2, <2>3, <2>4 DEF IInv, AnswersAreSaid, bounds
<1>9. NoSessionIsLost'
  BY <1>2 DEF IInv, NoSessionIsLost, bounds
<1> QED
  BY <1>4, <1>5, <1>6, <1>7, <1>8, <1>9 DEF IInv

LEMMA NextIInv ==
  ASSUME IInv, [Next]_vars
  PROVE  IInv'
<1>1. ASSUME NEW r \in Requests, TurnOfNewSession(r)
      PROVE  IInv'
  <2>1. PICK s \in Sessions \ created, gone \in Expirable :
          LET keys == Kept(sessions \ gone) IN
          /\ sessions' = keys \cup {s}
          /\ older' = Touched(keys, s)
          /\ created' = created \cup {s}
          /\ req' = [req EXCEPT ![r] = Request(s, TRUE, Nil, "no")]
    BY <1>1 DEF TurnOfNewSession
  <2>2. Kept(sessions \ gone) \subseteq sessions /\ sessions \subseteq created
        /\ created \subseteq Sessions
    BY DEF Kept, IInv, TypeOK
  <2>3. older' \subseteq Sessions \X Sessions
    BY <2>1, <2>2, TouchedIsAnOrder DEF IInv
  <2>4. turns' \in 0 .. MaxTurns
    BY <1>1, BoundsAssumption DEF TurnOfNewSession, IInv, TypeOK
  <2>5. "no" \in Answers
    BY DEF Answers
  <2> QED
    BY <1>1, <2>1, <2>2, <2>3, <2>4, <2>5, ArrivalKeepsIInv DEF TurnOfNewSession, gate
<1>2. ASSUME NEW r \in Requests, TurnOfKnownSession(r)
      PROVE  IInv'
  <2>1. PICK s \in told : Find(s) /\ req' = [req EXCEPT ![r] = Request(s, FALSE, Nil, "no")]
    BY <1>2 DEF TurnOfKnownSession
  <2>2. sessions' \subseteq sessions /\ sessions \subseteq created /\ s \in created
        /\ s \in Sessions
    BY <2>1 DEF Find, IInv, TypeOK
  <2>3. turns' \in 0 .. MaxTurns /\ older' \subseteq Sessions \X Sessions
    BY <1>2, BoundsAssumption DEF TurnOfKnownSession, IInv, TypeOK
  <2>4. "no" \in Answers
    BY DEF Answers
  <2> QED
    BY <1>2, <2>1, <2>2, <2>3, <2>4, ArrivalKeepsIInv DEF TurnOfKnownSession, gate
<1>3. ASSUME NEW r \in Requests, AnswerArrives(r)
      PROVE  IInv'
  <2>1. PICK s \in told, a \in Approvals, answer \in Answers :
          /\ shown[a] # Nil
          /\ Find(s)
          /\ req' = [req EXCEPT ![r] = Request(s, FALSE, a, answer)]
          /\ said' = [said EXCEPT ![a] = @ \cup {answer}]
    BY <1>3 DEF AnswerArrives
  <2>2. sessions' \subseteq sessions /\ sessions \subseteq created /\ s \in created
        /\ s \in Sessions
    BY <2>1 DEF Find, IInv, TypeOK
  <2>3. turns' \in 0 .. MaxTurns /\ older' \subseteq Sessions \X Sessions
    BY <1>3 DEF AnswerArrives, IInv, TypeOK, bounds
  <2>4. a # Nil
    BY NilAssumption
  <2> QED
    BY <1>3, <2>1, <2>2, <2>3, <2>4, ArrivalKeepsIInv DEF AnswerArrives, bounds
<1>4. ASSUME NEW r \in Requests, TurnBegins(r)
      PROVE  IInv'
  <2>1. /\ pc[r] = "turn" /\ pc' = [pc EXCEPT ![r] = "model"]
        /\ req[r].session \in Sessions
    BY <1>4, SessionOfRequest DEF TurnBegins, Go
  <2>2. messages' \in [Sessions -> Seq(Messages)]
    BY <1>4, <2>1, TranscriptsGrow, BoundsAssumption DEF TurnBegins, Say, IInv, TypeOK
  <2>3. older' \subseteq Sessions \X Sessions
    BY <1>4, <2>1, TouchedIsAnOrder DEF TurnBegins, Touch, IInv, TypeOK
  <2>4. TypeOK'
    BY <1>4, <2>1, <2>2, <2>3 DEF TurnBegins, IInv, TypeOK, Locations, Holding, bounds, gate
  <2>5. HeldByOne'
    BY <1>4, <2>1 DEF TurnBegins, Locked, IInv, TypeOK, HeldByOne
  <2>6. RequestsAreReady'
    BY <1>4, <2>1, BoundsAssumption DEF TurnBegins, IInv, TypeOK, RequestsAreReady
  <2>7. PendingIsShown' /\ NoSessionIsLost'
    BY <1>4 DEF TurnBegins, IInv, PendingIsShown, NoSessionIsLost, bounds, gate
  <2>8. AnswersAreSaid'
    BY <1>4, <2>1 DEF TurnBegins, IInv, TypeOK, AnswersAreSaid, bounds, gate
  <2> QED
    BY <2>4, <2>5, <2>6, <2>7, <2>8 DEF IInv
<1>5. ASSUME NEW r \in Requests, TurnRejected(r)
      PROVE  IInv'
  <2>1. pc[r] = "turn" /\ pc[r] # "idle" /\ req[r].session \in Sessions
    BY <1>5, SessionOfRequest DEF TurnRejected, Go
  <2>2. req[r].session \in told
    BY <1>5, <2>1 DEF TurnRejected, IInv, PendingIsShown
  <2> QED
    BY <1>5, <2>1, <2>2, ReturnKeepsIInv DEF TurnRejected, bounds, gate, IInv, TypeOK
<1>6. ASSUME NEW r \in Requests, AnswerRejected(r)
      PROVE  IInv'
  <2>1. pc[r] = "resolve" /\ pc[r] # "idle"
    BY <1>6 DEF AnswerRejected, Go
  <2>2. ~req[r].fresh
    BY <2>1 DEF IInv, AnswersAreSaid
  <2> QED
    BY <1>6, <2>1, <2>2, ReturnKeepsIInv DEF AnswerRejected, bounds, gate, IInv, TypeOK
<1>7. ASSUME NEW r \in Requests, Approved(r)
      PROVE  IInv'
  <2> DEFINE p == pending[req[r].session]
  <2>1. p \in PendingStates
    BY <1>7, SessionOfRequest DEF Approved, Matches, Go, IInv, TypeOK
  <2>2. p.call \in Calls /\ p.approval \in Approvals /\ p.remaining \in Seq(Calls)
    BY <2>1 DEF PendingStates
  <2>3. <<p.call>> \o p.remaining \in Seq(Calls) /\ <<p.call>> \o p.remaining # <<>>
    BY <2>2
  <2>4. performed' \in Seq([under : Approvals \cup {Nil}, call : Calls])
    BY <1>7, <2>2, ExecutionIsLogged DEF Approved, IInv
  <2>5. messages' \in [Sessions -> Seq(Messages)]
    BY <1>7 DEF Approved, IInv, TypeOK
  <2> QED
    BY <1>7, <2>3, <2>4, <2>5, DecisionKeepsIInv DEF Approved
<1>8. ASSUME NEW r \in Requests, Denied(r)
      PROVE  IInv'
  <2> DEFINE p == pending[req[r].session]
  <2>1. p \in PendingStates /\ req[r].session \in Sessions
    BY <1>8, SessionOfRequest DEF Denied, Matches, Go, IInv, TypeOK
  <2>2. p.call \in Calls /\ p.remaining \in Seq(Calls)
    BY <2>1 DEF PendingStates
  <2>3. p.call.id \in 0 .. MaxCalls
    BY <2>2, BoundsAssumption DEF Calls
  <2>4. messages' \in [Sessions -> Seq(Messages)]
    BY <1>8, <2>1, <2>3, TranscriptsGrow DEF Denied, Say, IInv, TypeOK
  <2>5. performed' \in Seq([under : Approvals \cup {Nil}, call : Calls])
    BY <1>8 DEF Denied, IInv, TypeOK
  <2> QED
    BY <1>8, <2>2, <2>4, <2>5, DecisionKeepsIInv DEF Denied
<1>9. ASSUME NEW r \in Requests, ModelFails(r) \/ FinalCancelled(r)
      PROVE  IInv'
  <2>1. pc[r] # "idle"
    BY <1>9 DEF ModelFails, FinalCancelled, Fails, Go
  <2>2. messages[req[r].session] \in Seq(Messages) /\ older' \subseteq Sessions \X Sessions
    BY <1>9, <2>1, SessionOfRequest DEF ModelFails, FinalCancelled, IInv, TypeOK
  <2> QED
    BY <1>9, <2>2, FailsKeepsIInv DEF ModelFails, FinalCancelled
<1>10. ASSUME NEW r \in Requests, ModelSaysNothing(r)
       PROVE  IInv'
  <2>1. pc[r] # "idle"
    BY <1>10 DEF ModelSaysNothing, Fails, Go
  <2>2. Append(messages[req[r].session], [role |-> "blank", n |-> 0]) \in Seq(Messages)
    BY <2>1, SessionOfRequest, TranscriptsGrow, BoundsAssumption DEF IInv
  <2>3. older' \subseteq Sessions \X Sessions
    BY <1>10, <2>1, SessionOfRequest, TouchedIsAnOrder DEF ModelSaysNothing, Touch, IInv, TypeOK
  <2> QED
    BY <1>10, <2>2, <2>3, FailsKeepsIInv DEF ModelSaysNothing
<1>11. ASSUME NEW r \in Requests, NEW from \in {"model", "final"}, ModelAnswers(r, from)
       PROVE  IInv'
  <2>1. pc[r] = from /\ pc[r] # "idle" /\ Go(r, pc[r], "idle")
    BY <1>11 DEF ModelAnswers, Go
  <2>2. messages' \in [Sessions -> Seq(Messages)]
    BY <1>11, <2>1, SessionOfRequest, TranscriptsGrow, BoundsAssumption
    DEF ModelAnswers, IInv, TypeOK
  <2>3. older' \subseteq Sessions \X Sessions
    BY <1>11, <2>1, SessionOfRequest, TouchedIsAnOrder DEF ModelAnswers, Touch, IInv, TypeOK
  <2> QED
    BY <1>11, <2>1, <2>2, <2>3, ReturnKeepsIInv DEF ModelAnswers, Tell, gate
<1>12. ASSUME NEW r \in Requests, NEW kinds \in KindLists, ModelCalls(r, kinds)
       PROVE  IInv'
  <2> DEFINE queue == [i \in DOMAIN kinds |-> [id |-> i, kind |-> kinds[i]]]
  <2>1. pc[r] = "model" /\ pc' = [pc EXCEPT ![r] = "calls"] /\ req[r].round < MaxRounds
    BY <1>12 DEF ModelCalls, Go, IInv, RequestsAreReady
  <2>2. PICK n \in 1 .. MaxCalls : kinds \in [1 .. n -> Kinds]
    BY DEF KindLists
  <2>3. Len(kinds) \in 0 .. MaxCalls /\ queue \in Seq(Calls)
    <3>1. DOMAIN kinds = 1 .. n /\ n \in Nat /\ kinds \in Seq(Kinds) /\ Len(kinds) = n
      BY <2>2, BoundsAssumption
    <3>2. \A i \in 1 .. n : [id |-> i, kind |-> kinds[i]] \in Calls
      BY <2>2, BoundsAssumption DEF Calls
    <3>3. queue \in [1 .. n -> Calls]
      BY <3>1, <3>2
    <3> QED
      BY <3>1, <3>3, IsASeq
  <2>4. messages' \in [Sessions -> Seq(Messages)]
    BY <1>12, <2>1, <2>3, SessionOfRequest, TranscriptsGrow DEF ModelCalls, Say, IInv, TypeOK
  <2>5. older' \subseteq Sessions \X Sessions
    BY <1>12, <2>1, SessionOfRequest, TouchedIsAnOrder DEF ModelCalls, Touch, IInv, TypeOK
  <2>6. req[r].round + 1 \in 0 .. MaxRounds
    BY <2>1, SessionOfRequest, BoundsAssumption
  <2>7. req' = [req EXCEPT ![r].queue = queue, ![r].round = req[r].round + 1]
    BY <1>12, <2>6 DEF ModelCalls
  <2>8. /\ req' \in [Requests -> RequestStates]
        /\ req'[r].session = req[r].session /\ req'[r].approval = req[r].approval
        /\ req'[r].fresh = req[r].fresh /\ req'[r].answer = req[r].answer
        /\ \A q \in Requests \ {r} : req'[q] = req[q]
    <3> HIDE DEF queue
    <3> QED
      BY <2>3, <2>6, <2>7, QueuedRequests DEF IInv
  <2>9. writes' \in Nat
    <3>1. IsFiniteSet({i \in DOMAIN kinds : kinds[i] = "write"})
      BY <2>2, FS_Interval, FS_Subset
    <3> QED
      BY <1>12, <3>1, FS_CardinalityType DEF ModelCalls, IInv, TypeOK
  <2>10. UNCHANGED <<sessions, pending, created, told, turns, shown, said, decided, performed>>
    BY <1>12 DEF ModelCalls, gate
  <2> QED
    BY <2>1, <2>4, <2>5, <2>8, <2>9, <2>10, WorkKeepsIInv DEF Holding, IInv, TypeOK
<1>13. ASSUME NEW r \in Requests, CallsDone(r)
       PROVE  IInv'
  <2>1. PICK to \in {"model", "final"} : to = (IF req[r].round < MaxRounds THEN "model" ELSE "final")
    OBVIOUS
  <2>2. pc[r] = "calls" /\ pc' = [pc EXCEPT ![r] = to]
    BY <1>13, <2>1 DEF CallsDone, Go
  <2> QED
    BY <1>13, <2>1, <2>2, WorkKeepsIInv DEF CallsDone, Holding, IInv, TypeOK, bounds, gate
<1>14. ASSUME NEW r \in Requests, CallRefused(r)
       PROVE  IInv'
  <2>1. pc[r] \in Holding /\ pc' = [pc EXCEPT ![r] = "calls"]
    BY <1>14 DEF CallRefused, Holding, IInv, TypeOK
  <2> QED
    BY <1>14, <2>1, AnsweredKeepsIInv DEF CallRefused, gate, IInv, TypeOK
<1>15. ASSUME NEW r \in Requests, CallRuns(r)
       PROVE  IInv'
  <2>1. pc[r] \in Holding /\ pc' = [pc EXCEPT ![r] = "calls"]
    BY <1>15 DEF CallRuns, Holding, IInv, TypeOK
  <2>2. Head(req[r].queue) \in Calls
    BY <1>15, SessionOfRequest, HeadTailProperties DEF CallRuns
  <2>3. performed' \in Seq([under : Approvals \cup {Nil}, call : Calls])
    BY <1>15, <2>2, ExecutionIsLogged DEF CallRuns, IInv
  <2> QED
    BY <1>15, <2>1, <2>3, AnsweredKeepsIInv DEF CallRuns
<1>16. ASSUME NEW r \in Requests, CallWaits(r)
       PROVE  IInv'
  <2> DEFINE s == req[r].session
             call == Head(req[r].queue)
  <2>1. pc[r] = "calls" /\ pc[r] # "idle" /\ pc[r] \in Holding
    BY <1>16 DEF CallWaits, Go, Holding
  <2>2. PICK a \in Approvals :
          /\ shown[a] = Nil
          /\ pending' = [pending EXCEPT ![s] = [approval |-> a, call |-> call,
                                                remaining |-> Tail(req[r].queue)]]
          /\ shown' = [shown EXCEPT ![a] = call]
    BY <1>16 DEF CallWaits
  <2>3. call \in Calls /\ Tail(req[r].queue) \in Seq(Calls) /\ s \in Sessions /\ s \in created
    BY <1>16, <2>1, SessionOfRequest, HeadTailProperties DEF CallWaits
  <2>4. [approval |-> a, call |-> call, remaining |-> Tail(req[r].queue)] \in PendingStates
    BY <2>3 DEF PendingStates
  <2>5. call # Nil
    BY <2>3, NilAssumption
  <2>6. /\ req' \in [Requests -> RequestStates]
        /\ req'[r].approval = Nil /\ ~req'[r].fresh
        /\ \A q \in Requests \ {r} : req'[q] = req[q]
    BY <1>16, EndedRequests DEF CallWaits, IInv
  <2>7. pc' \in [Requests -> Locations] /\ pc'[r] = "idle"
        /\ \A q \in Requests \ {r} : pc'[q] = pc[q]
    BY <1>16 DEF CallWaits, Go, IInv, TypeOK, Locations
  <2>8. /\ pending' \in [Sessions -> PendingStates \cup {Nil}]
        /\ pending'[s].approval = a /\ pending'[s].call = call
        /\ \A t \in Sessions \ {s} : pending'[t] = pending[t]
    BY <2>2, <2>3, <2>4 DEF IInv, TypeOK
  <2>9. /\ shown' \in [Approvals -> Calls \cup {Nil}] /\ shown'[a] = call
        /\ \A b \in Approvals \ {a} : shown'[b] = shown[b]
    BY <2>2, <2>3 DEF IInv, TypeOK
  <2>10. told' = told \cup {s}
    BY <1>16 DEF CallWaits, Tell
  <2>11. TypeOK'
    BY <1>16, <2>3, <2>6, <2>7, <2>8, <2>9, <2>10 DEF CallWaits, IInv, TypeOK
  <2>12. HeldByOne'
    <3>1. "idle" \notin Holding
      BY DEF Holding
    <3>2. \A q \in Requests \ {r} : pc[q] \in Holding => req[q].session # s
      BY <2>1 DEF IInv, HeldByOne
    <3>3. \A q \in Requests \ {r} : pc[q] \in Holding => req[q].session \in Sessions
      BY <3>1, SessionOfRequest
    <3>4. created' = created
      BY <1>16 DEF CallWaits
    <3>5. \A q \in Requests \ {r} : pc'[q] \in Holding => pending'[req'[q].session] = Nil
      BY <2>6, <2>7, <2>8, <3>2, <3>3 DEF IInv, HeldByOne
    <3> QED
      BY <2>6, <2>7, <3>1, <3>4, <3>5 DEF IInv, HeldByOne
  <2>13. RequestsAreReady'
    BY <2>6, <2>7 DEF IInv, RequestsAreReady
  <2>14. PendingIsShown'
    <3>1. \A t \in Sessions \ {s} : pending[t] # Nil =>
            pending[t].approval \in Approvals /\ pending[t].call \in Calls
      BY DEF IInv, TypeOK, PendingStates
    <3>2. \A t \in Sessions \ {s} : pending[t] # Nil => pending[t].approval # a
      BY <2>2, <3>1, NilAssumption DEF IInv, PendingIsShown
    <3>3. a \notin decided
      BY <2>2 DEF IInv, AnswersAreSaid
    <3>4. decided' = decided
      BY <1>16 DEF CallWaits
    <3>5. RequiresApproval(pending'[s].call)
      BY <1>16, <2>8 DEF CallWaits
    <3> QED
      BY <2>8, <2>9, <2>10, <3>1, <3>2, <3>3, <3>4, <3>5 DEF RequiresApproval, IInv, PendingIsShown
  <2>15. AnswersAreSaid'
    <3>1. UNCHANGED <<said, decided>>
      BY <1>16 DEF CallWaits
    <3> QED
      BY <2>5, <2>6, <2>7, <2>9, <2>10, <3>1 DEF IInv, AnswersAreSaid
  <2>16. NoSessionIsLost'
    <3>1. sessions' = sessions
      BY <1>16 DEF CallWaits
    <3> QED
      BY <2>6, <2>10, <3>1 DEF IInv, NoSessionIsLost
  <2> QED
    BY <2>11, <2>12, <2>13, <2>14, <2>15, <2>16 DEF IInv
<1>17. ASSUME NEW r \in Requests, WriteEnds(r)
       PROVE  IInv'
  <2>1. pc[r] \in Holding /\ pc' = [pc EXCEPT ![r] = "calls"] /\ req[r].queue # <<>>
    BY <1>17 DEF WriteEnds, Go, Holding, IInv, RequestsAreReady
  <2> QED
    BY <1>17, <2>1, AnsweredKeepsIInv DEF WriteEnds, gate, IInv, TypeOK
<1>18. ASSUME NEW r \in Requests, FinalFallback(r)
       PROVE  IInv'
  <2>1. pc[r] = "final" /\ pc[r] # "idle" /\ Go(r, pc[r], "idle")
    BY <1>18 DEF FinalFallback, Go
  <2>2. messages' \in [Sessions -> Seq(Messages)] /\ older' \subseteq Sessions \X Sessions
    BY <1>18, <2>1, SessionOfRequest, CompactedIsATranscript DEF FinalFallback, IInv, TypeOK
  <2> QED
    BY <1>18, <2>1, <2>2, ReturnKeepsIInv DEF FinalFallback, Tell, gate
<1>19. ASSUME NEW r \in Requests, DropFailed(r)
       PROVE  IInv'
  <2>1. pc[r] = "failed" /\ pc[r] # "idle" /\ Go(r, pc[r], "idle")
    BY <1>19 DEF DropFailed, Go
  <2> QED
    BY <1>19, <2>1, ReturnKeepsIInv DEF DropFailed, bounds, gate, IInv, TypeOK
<1>20. ASSUME sessions' \subseteq sessions,
              UNCHANGED <<older, messages, pending, pc, req, created, bounds, gate>>
       PROVE  IInv'
  BY <1>20
  DEF IInv, TypeOK, HeldByOne, RequestsAreReady, PendingIsShown, AnswersAreSaid,
      NoSessionIsLost, bounds, gate
<1>21. ASSUME NEW s \in Sessions, Reset(s)
       PROVE  IInv'
  BY <1>20, <1>21 DEF Reset
<1>22. CASE FindNothing
  BY <1>20, <1>22 DEF FindNothing
<1>23. CASE UNCHANGED vars
  BY <1>20, <1>23 DEF vars
<1> QED
  BY <1>1, <1>2, <1>3, <1>4, <1>5, <1>6, <1>7, <1>8, <1>9, <1>10, <1>11, <1>12, <1>13, <1>14,
     <1>15, <1>16, <1>17, <1>18, <1>19, <1>21, <1>22, <1>23
  DEF Next, Arrivals, Locks, Works

(* The invariant holds in every reachable state.                           *)
THEOREM Invariance == Spec => []IInv
<1>1. Init => IInv
  BY InitIInv
<1>2. IInv /\ [Next]_vars => IInv'
  BY NextIInv
<1> QED
  BY <1>1, <1>2, PTL DEF Spec

(* Every variable keeps its type.                                          *)
THEOREM TypeCorrect == Spec => []TypeOK
<1>1. IInv => TypeOK
  BY DEF IInv
<1> QED
  BY <1>1, Invariance, PTL

(* No session stays in the map that neither the client nor a request knows: *)
(* TurnWithEvents removes the session it drew when the turn fails.         *)
THEOREM SessionsAreReachable == Spec => []NoSessionIsLost
<1>1. IInv => NoSessionIsLost
  BY DEF IInv
<1> QED
  BY <1>1, Invariance, PTL

-----------------------------------------------------------------------------
(* Sessions with a pending approval are frozen.                            *)

LEMMA NextFreezes ==
  ASSUME IInv, [Next]_vars, NEW s \in Sessions, pending[s] # Nil
  PROVE  IF pending'[s] = Nil
         THEN said[pending[s].approval] # {}
         ELSE pending'[s] = pending[s] /\ messages'[s] = messages[s]
<1>1. pending[s] \in PendingStates /\ messages \in [Sessions -> Seq(Messages)]
      /\ pending \in [Sessions -> PendingStates \cup {Nil}]
  BY DEF IInv, TypeOK
<1>2. \A r \in Requests : pc[r] \in Holding => req[r].session # s
  BY DEF IInv, HeldByOne
<1>3. ASSUME NEW r \in Requests, UNCHANGED pending,
             \/ UNCHANGED messages
             \/ /\ pc[r] \in Holding
                /\ \E ms : messages' = [messages EXCEPT ![req[r].session] = ms]
      PROVE  pending'[s] = pending[s] /\ messages'[s] = messages[s]
  BY <1>1, <1>2, <1>3
<1>4. ASSUME NEW r \in Requests, NEW to, Go(r, "resolve", to), Matches(r),
             pending' = [pending EXCEPT ![req[r].session] = Nil],
             \/ UNCHANGED messages
             \/ \E ms : messages' = [messages EXCEPT ![req[r].session] = ms]
      PROVE  IF pending'[s] = Nil
             THEN said[pending[s].approval] # {}
             ELSE pending'[s] = pending[s] /\ messages'[s] = messages[s]
  <2>1. CASE req[r].session = s
    <3>1. said[pending[s].approval] # {}
      BY <1>4, <2>1 DEF Go, Matches, IInv, AnswersAreSaid
    <3> QED
      BY <1>1, <1>4, <2>1, <3>1
  <2>2. CASE req[r].session # s
    BY <1>1, <1>4, <2>2
  <2> QED
    BY <2>1, <2>2
<1>5. ASSUME NEW r \in Requests, Arrivals(r) \/ TurnRejected(r) \/ AnswerRejected(r)
                                   \/ CallsDone(r) \/ DropFailed(r)
      PROVE  UNCHANGED <<pending, messages>>
  BY <1>5 DEF Arrivals, TurnOfNewSession, TurnOfKnownSession, AnswerArrives, TurnRejected,
              AnswerRejected, CallsDone, DropFailed
<1>6. ASSUME NEW r \in Requests, TurnBegins(r)
      PROVE  pending'[s] = pending[s] /\ messages'[s] = messages[s]
  BY <1>1, <1>6 DEF TurnBegins, Say
<1>7. ASSUME NEW r \in Requests, Approved(r) \/ Denied(r)
      PROVE  IF pending'[s] = Nil
             THEN said[pending[s].approval] # {}
             ELSE pending'[s] = pending[s] /\ messages'[s] = messages[s]
  BY <1>4, <1>7 DEF Approved, Denied, Say
<1>8. ASSUME NEW r \in Requests, NEW grown, NEW from \in {"model", "final"}, Fails(r, from, grown),
             UNCHANGED pending
      PROVE  pending'[s] = pending[s] /\ messages'[s] = messages[s]
  BY <1>3, <1>8 DEF Fails, Go, Holding
<1>9. ASSUME NEW r \in Requests, ModelFails(r) \/ ModelSaysNothing(r) \/ FinalCancelled(r)
      PROVE  pending'[s] = pending[s] /\ messages'[s] = messages[s]
  BY <1>8, <1>9 DEF ModelFails, ModelSaysNothing, FinalCancelled
<1>10. ASSUME NEW r \in Requests, NEW from \in {"model", "final"}, ModelAnswers(r, from)
       PROVE  pending'[s] = pending[s] /\ messages'[s] = messages[s]
  BY <1>3, <1>10 DEF ModelAnswers, Go, Holding
<1>11. ASSUME NEW r \in Requests, NEW kinds \in KindLists, ModelCalls(r, kinds)
       PROVE  pending'[s] = pending[s] /\ messages'[s] = messages[s]
  BY <1>3, <1>11 DEF ModelCalls, Go, Holding, Say
<1>12. ASSUME NEW r \in Requests, CallRefused(r) \/ CallRuns(r) \/ WriteEnds(r) \/ FinalFallback(r)
       PROVE  pending'[s] = pending[s] /\ messages'[s] = messages[s]
  BY <1>3, <1>12 DEF CallRefused, CallRuns, WriteEnds, FinalFallback, Answered, Go, Holding, Say
<1>13. ASSUME NEW r \in Requests, CallWaits(r)
       PROVE  pending'[s] = pending[s] /\ messages'[s] = messages[s]
  <2>1. req[r].session # s
    BY <1>2, <1>13 DEF CallWaits, Go, Holding
  <2> QED
    BY <1>1, <1>13, <2>1 DEF CallWaits
<1>14. CASE FindNothing \/ (\E t \in Sessions : Reset(t)) \/ UNCHANGED vars
  BY <1>14 DEF FindNothing, Reset, vars
<1> QED
  BY <1>1, <1>5, <1>6, <1>7, <1>9, <1>10, <1>11, <1>12, <1>13, <1>14 DEF Next, Locks, Works

(* While an approval is pending its session takes no message, and only an  *)
(* answer of the user ends it (TurnWithEvents, ResolveApprovalWithEvents). *)
THEOREM SessionsFreeze == Spec => PendingFreezesSession
<1>1. IInv /\ [Next]_vars =>
        [\A s \in Sessions :
           pending[s] # Nil =>
             IF pending'[s] = Nil
             THEN said[pending[s].approval] # {}
             ELSE pending'[s] = pending[s] /\ messages'[s] = messages[s]]_vars
  BY NextFreezes
<1> QED
  BY <1>1, Invariance, PTL DEF Spec, PendingFreezesSession

-----------------------------------------------------------------------------
(* The engine implements the approval gate.                                *)

LEMMA GateInit == Init => Gate!Init
BY DEF Init, Gate!Init

LEMMA GateStep ==
  ASSUME IInv, [Next]_vars
  PROVE  [Gate!Next]_(Gate!vars)
<1> USE DEF gate, Gate!vars
<1>1. ASSUME NEW r \in Requests, AnswerArrives(r)
      PROVE  Gate!Next
  BY <1>1 DEF AnswerArrives, Gate!Next, Gate!Say, Gate!Answers, Answers
<1>2. ASSUME NEW r \in Requests, CallWaits(r)
      PROVE  Gate!Next
  <2>1. Head(req[r].queue) \in Calls
    BY <1>2, SessionOfRequest, HeadTailProperties DEF CallWaits, Go
  <2> QED
    BY <1>2, <2>1 DEF CallWaits, Gate!Next, Gate!Show
<1>3. ASSUME NEW r \in Requests, Approved(r) \/ Denied(r)
      PROVE  [Gate!Next]_(Gate!vars)
  <2> DEFINE p == pending[req[r].session]
             a == req[r].approval
  <2>1. pc[r] = "resolve" /\ p # Nil /\ p.approval = a
    BY <1>3 DEF Approved, Denied, Go, Matches
  <2>2. req[r].session \in Sessions /\ a \in Approvals
    BY <2>1, SessionOfRequest DEF IInv, AnswersAreSaid, RequestStates
  <2>3. a \notin decided /\ p.call = shown[a] /\ req[r].answer \in said[a]
    BY <2>1, <2>2 DEF IInv, PendingIsShown, AnswersAreSaid
  <2>6. p.call.kind = "write"
    BY <2>1, <2>2 DEF IInv, PendingIsShown, RequiresApproval
  <2>4. CASE Denied(r)
    BY <2>1, <2>2, <2>3, <2>4 DEF Denied, Gate!Next, Gate!Refuse
  <2>5. CASE Approved(r)
    BY <2>1, <2>2, <2>3, <2>5, <2>6 DEF Approved, Execute, Gate!Next, Gate!Perform
  <2> QED
    BY <1>3, <2>4, <2>5
<1>4. ASSUME NEW r \in Requests, CallRuns(r)
      PROVE  UNCHANGED gate
  BY <1>4 DEF CallRuns, Execute, RequiresApproval
<1>5. ASSUME NEW r \in Requests,
             \/ TurnOfNewSession(r) \/ TurnOfKnownSession(r) \/ TurnBegins(r)
             \/ TurnRejected(r) \/ AnswerRejected(r) \/ ModelFails(r)
             \/ ModelSaysNothing(r) \/ (\E from \in {"model", "final"} : ModelAnswers(r, from))
             \/ (\E kinds \in KindLists : ModelCalls(r, kinds)) \/ CallsDone(r)
             \/ CallRefused(r) \/ WriteEnds(r) \/ FinalFallback(r) \/ FinalCancelled(r)
             \/ DropFailed(r)
      PROVE  UNCHANGED gate
  BY <1>5
  DEF TurnOfNewSession, TurnOfKnownSession, TurnBegins, TurnRejected, AnswerRejected,
      ModelFails, ModelSaysNothing, ModelAnswers, ModelCalls, CallsDone, CallRefused,
      WriteEnds, FinalFallback, FinalCancelled, DropFailed
<1>6. CASE FindNothing \/ (\E s \in Sessions : Reset(s)) \/ UNCHANGED vars
  BY <1>6 DEF FindNothing, Reset, vars
<1> QED
  BY <1>1, <1>2, <1>3, <1>4, <1>5, <1>6 DEF Next, Arrivals, Locks, Works

(* A write tool runs only as the call its approval showed, after a yes to  *)
(* that approval, once, and never after a no was acted upon.               *)
THEOREM EngineImplementsGate == Spec => ImplementsGate
<1>1. Init => Gate!Init
  BY GateInit
<1>2. IInv /\ [Next]_vars => [Gate!Next]_(Gate!vars)
  BY GateStep
<1> QED
  BY <1>1, <1>2, Invariance, PTL DEF Spec, ImplementsGate, Gate!Spec

-----------------------------------------------------------------------------
(* The page, its streams and the engine behind them.                       *)

(* A step of the whole is a step of the engine or leaves it alone.         *)
LEMMA PageStep ==
  ASSUME PageTypeOK, [PageNext]_pageVars
  PROVE  [Next]_vars
<1>1. ASSUME NEW r \in Requests, Serve(r)
      PROVE  [Next]_vars
  BY <1>1 DEF Serve, TurnServed, AnswerServed, SessionUnknown, TurnRefused, NeverArrives, Next, Arrivals
<1>2. ASSUME NEW r \in Requests, WorkStep(r)
      PROVE  [Next]_vars
  BY <1>2 DEF WorkStep, Sends, Next, Works
<1>3. ASSUME NEW r \in Requests, LockStep(r)
      PROVE  [Next]_vars
  BY <1>3 DEF LockStep, Next, Locks
<1>4. CASE ResetServed
  <2>1. leaving \in Sessions
    BY <1>4 DEF ResetServed, PageTypeOK
  <2> QED
    BY <1>4, <2>1 DEF ResetServed, Next
<1>5. ASSUME NEW r \in Requests, SendAgent(r) \/ ResolveApproval(r) \/ Reads(r) \/ Settles(r)
      PROVE  UNCHANGED vars
  BY <1>5 DEF SendAgent, ResolveApproval, Reads, Settles
<1>6. CASE NewAgentSession \/ SessionBegins \/ ConfigLoaded \/ ConfigDeleted \/ Reopen \/ UNCHANGED pageVars
  BY <1>6 DEF NewAgentSession, SessionBegins, ConfigLoaded, ConfigDeleted, Reopen, pageVars
<1> QED
  BY <1>1, <1>2, <1>3, <1>4, <1>5, <1>6 DEF PageNext

LEMMA InitPageIInv == PageInit => PageIInv
<1> SUFFICES ASSUME PageInit
             PROVE  PageIInv
  OBVIOUS
<1>1. \A r \in Requests : stream[r] = NoStream /\ pc[r] = "idle" /\ stream[r].approval = Nil
                           /\ stream[r].state = "none"
  BY DEF PageInit, Init, NoStream, Stream
<1>2. PageTypeOK
  BY DEF PageInit, PageTypeOK, NoStream, Stream, PageStreams, StreamStates, Answers
<1>3. StreamsFollow
  BY <1>1 DEF StreamsFollow, Holding
<1>4. CarriedOnce
  BY <1>1 DEF CarriedOnce, Carried
<1>5. ShownCanBeAnswered /\ WaitingIsShown
  BY DEF PageInit, Init, ShownCanBeAnswered, WaitingIsShown
<1> QED
  BY <1>2, <1>3, <1>4, <1>5 DEF PageIInv

(* What a response is made of.                                             *)
LEMMA StreamTypes ==
  ASSUME PageTypeOK, NEW r \in Requests
  PROVE  /\ stream[r] \in PageStreams
         /\ NoStream \in PageStreams /\ Stream("error", Nil, Nil, "no") \in PageStreams
         /\ \A state \in StreamStates, s \in Sessions \cup {Nil}, a \in Approvals \cup {Nil},
               answer \in Answers : Stream(state, s, a, answer) \in PageStreams
BY DEF PageTypeOK, PageStreams, StreamStates, NoStream, Stream, Answers

(* What is pending has one session.                                        *)
LEMMA PendingTypes ==
  ASSUME IInv, NEW s \in Sessions, pending[s] # Nil
  PROVE  /\ pending[s].approval \in Approvals /\ pending[s].approval # Nil
         /\ pending[s].approval \notin decided /\ shown[pending[s].approval] # Nil
         /\ \A t \in Sessions : pending[t] # Nil /\ pending[t].approval = pending[s].approval => s = t
<1>1. pending[s] \in PendingStates
  BY DEF IInv, TypeOK
<1>2. pending[s].call # Nil
  BY <1>1, NilAssumption DEF PendingStates
<1> QED
  BY <1>1, <1>2, NilAssumption DEF PendingStates, IInv, PendingIsShown

(* A step that moves no approval to another place: what is carried or shown *)
(* stays or leaves its place, what leaves is lost or waits no more, and     *)
(* what stops waiting is the answered one.                                 *)
LEMMA ApprovalsStay ==
  ASSUME IInv, PageIInv, PageTypeOK', StreamsFollow',
         \A r \in Requests :
           Carried(r)' = Nil \/ (Carried(r)' = Carried(r) /\ stream'[r].session = stream[r].session),
         \A s \in Sessions : pending'[s] # pending[s] =>
           /\ pending'[s] = Nil
           /\ \E r \in Requests :
                /\ pending[s].approval = Carried(r) /\ Carried(r) # Nil /\ Carried(r)' = Nil,
         pendingApproval' = Nil \/ (pendingApproval' = pendingApproval /\ agentSession' = agentSession),
         \A s \in sessions' : s \in Sessions /\ (pending'[s] # Nil => s \in sessions),
         lost \subseteq lost',
         pendingApproval' = pendingApproval \/ pendingApproval \in lost' \cup {Nil},
         \A r \in Requests :
           \/ stream'[r].approval = stream[r].approval
           \/ stream[r].approval \in lost' \cup {Nil}
           \/ \A s \in sessions' : pending'[s] # Nil => pending'[s].approval # stream[r].approval
  PROVE  PageIInv'
<1>1. CarriedOnce'
  <2> SUFFICES ASSUME NEW r \in Requests, Carried(r)' # Nil
               PROVE  /\ stream'[r].session \in Sessions
                      /\ pending'[stream'[r].session] # Nil
                      /\ pending'[stream'[r].session].approval = Carried(r)'
                      /\ Carried(r)' # pendingApproval'
                      /\ \A q \in Requests : Carried(q)' = Carried(r)' => q = r
    BY DEF CarriedOnce
  <2> DEFINE s == stream[r].session
  <2>1. Carried(r)' = Carried(r) /\ stream'[r].session = s /\ Carried(r) # Nil
    OBVIOUS
  <2>2. /\ s \in Sessions /\ pending[s] # Nil /\ pending[s].approval = Carried(r)
        /\ Carried(r) # pendingApproval
        /\ \A q \in Requests : Carried(q) = Carried(r) => q = r
    BY <2>1 DEF PageIInv, CarriedOnce
  <2>3. pending'[s] = pending[s]
    BY <2>1, <2>2
  <2>4. Carried(r)' # pendingApproval'
    BY <2>1, <2>2
  <2>5. \A q \in Requests : Carried(q)' = Carried(r)' => q = r
    BY <2>1, <2>2
  <2> QED
    BY <2>1, <2>2, <2>3, <2>4, <2>5
<1>2. ShownCanBeAnswered'
  <2> SUFFICES ASSUME pendingApproval' # Nil
               PROVE  /\ agentSession' # Nil /\ pending'[agentSession'] # Nil
                      /\ pending'[agentSession'].approval = pendingApproval'
    BY DEF ShownCanBeAnswered
  <2>1. pendingApproval' = pendingApproval /\ agentSession' = agentSession
    OBVIOUS
  <2>2. /\ agentSession \in Sessions /\ pending[agentSession] # Nil
        /\ pending[agentSession].approval = pendingApproval
    BY <2>1 DEF PageIInv, PageTypeOK, ShownCanBeAnswered
  <2>3. agentSession # Nil
    BY <2>2, NilAssumption
  <2>4. \A r \in Requests : Carried(r) # Nil => Carried(r) # pendingApproval
    BY DEF PageIInv, CarriedOnce
  <2>5. pending'[agentSession] = pending[agentSession]
    BY <2>2, <2>4
  <2> QED
    BY <2>1, <2>2, <2>3, <2>5
<1>3. WaitingIsShown'
  <2> SUFFICES ASSUME NEW s \in sessions', pending'[s] # Nil
               PROVE  LET a == pending'[s].approval IN
                        \/ a = pendingApproval' \/ a \in lost'
                        \/ \E r \in Requests : stream'[r].approval = a
    BY DEF WaitingIsShown
  <2> DEFINE a == pending[s].approval
  <2>1. s \in Sessions /\ s \in sessions /\ pending'[s] = pending[s]
    OBVIOUS
  <2>2. a # Nil
    BY <2>1, PendingTypes
  <2>3. a = pendingApproval \/ a \in lost \/ \E r \in Requests : stream[r].approval = a
    BY <2>1 DEF PageIInv, WaitingIsShown
  <2> QED
    BY <2>1, <2>2, <2>3
<1> QED
  BY <1>1, <1>2, <1>3 DEF PageIInv

(* The page's own steps.                                                   *)
LEMMA RequestKeeps ==
  ASSUME IInv, PageIInv, UNCHANGED vars, NEW r \in Requests,
         SendAgent(r) \/ TurnRefused(r) \/ NeverArrives(r) \/ Settles(r)
  PROVE  PageIInv'
<1> USE DEF PageIInv
<1>1. UNCHANGED <<sessions, pending, pc, req, decided>>
  BY DEF vars, gate
<1>2. sessions \subseteq Sessions
  BY DEF IInv, TypeOK
<1>3. ASSUME NEW x \in PageStreams, stream' = [stream EXCEPT ![r] = x], x.approval = Nil,
             pc[r] = "idle",
             PageTypeOK', UNCHANGED <<agentSession, pendingApproval>>, lost \subseteq lost',
             stream[r].approval \in lost' \cup {Nil}
      PROVE  PageIInv'
  <2>1. stream'[r] = x /\ \A q \in Requests \ {r} : stream'[q] = stream[q]
    BY <1>3 DEF PageTypeOK
  <2>2. StreamsFollow'
    BY <1>1, <1>3, <2>1 DEF StreamsFollow, Holding
  <2>3. \A q \in Requests : q # r => Carried(q)' = Carried(q)
    BY <1>1, <2>1 DEF Carried
  <2>4. Carried(r)' = Nil
    BY <1>3, <2>1 DEF Carried
  <2> QED
    BY <1>1, <1>2, <1>3, <2>1, <2>2, <2>3, <2>4, ApprovalsStay
<1>4. CASE SendAgent(r)
  <2>1. Stream("sent", agentSession, Nil, "no") \in PageStreams
    BY StreamTypes DEF PageTypeOK, StreamStates, Answers
  <2>2. stream[r].approval = Nil
    BY <1>4 DEF SendAgent, Free, StreamsFollow
  <2>3. stream' \in [Requests -> PageStreams]
    BY <1>4, <2>1 DEF SendAgent, PageTypeOK
  <2> QED
    BY <1>3, <1>4, <2>1, <2>2, <2>3 DEF SendAgent, Free, PageTypeOK, Stream
<1>5. CASE TurnRefused(r) \/ NeverArrives(r)
  <2>1. PICK x \in {NoStream, Stream("error", Nil, Nil, "no")} : stream' = [stream EXCEPT ![r] = x]
    BY <1>5 DEF TurnRefused, NeverArrives, Errs
  <2>2. x \in PageStreams
    BY <2>1, StreamTypes
  <2>3. pc[r] = "idle" /\ UNCHANGED <<agentSession, pendingApproval, agentBusy, leaving>>
    BY <1>5 DEF TurnRefused, NeverArrives, Waits, Errs
  <2>4. lost \subseteq lost' /\ stream[r].approval \in lost' \cup {Nil}
    BY <1>5 DEF TurnRefused, NeverArrives, Errs, Some
  <2>5. lost' \subseteq Approvals
    BY <1>5, StreamTypes DEF TurnRefused, NeverArrives, Errs, Some, PageTypeOK, PageStreams
  <2>6. stream' \in [Requests -> PageStreams]
    BY <2>1, <2>2 DEF PageTypeOK
  <2>7. PageTypeOK'
    BY <2>3, <2>5, <2>6 DEF PageTypeOK
  <2>8. x.approval = Nil
    BY <2>1 DEF NoStream, Stream
  <2> QED
    BY <1>3, <2>1, <2>2, <2>3, <2>4, <2>7, <2>8
<1>6. CASE Settles(r)
  <2>1. stream[r].state \in {"error", "closing"} /\ stream' = [stream EXCEPT ![r] = NoStream]
        /\ agentBusy' = FALSE /\ UNCHANGED <<agentSession, pendingApproval, leaving, lost>>
    BY <1>6 DEF Settles
  <2>2. stream[r].approval = Nil /\ pc[r] = "idle"
    BY <2>1 DEF StreamsFollow
  <2>3. NoStream \in PageStreams /\ NoStream.approval = Nil
    BY StreamTypes DEF NoStream, Stream
  <2>4. PageTypeOK'
    BY <2>1, <2>3 DEF PageTypeOK
  <2> QED
    BY <1>3, <2>1, <2>2, <2>3, <2>4
<1> QED
  BY <1>4, <1>5, <1>6

LEMMA PageKeeps ==
  ASSUME IInv, PageIInv, UNCHANGED vars,
         NewAgentSession \/ ConfigLoaded \/ ConfigDeleted \/ SessionBegins \/ UNCHANGED page
  PROVE  PageIInv'
<1> USE DEF PageIInv
<1>1. UNCHANGED <<sessions, pending, pc, req, decided>>
  BY DEF vars, gate
<1>2. sessions \subseteq Sessions
  BY DEF IInv, TypeOK
<1>3. ASSUME UNCHANGED stream, PageTypeOK', lost \subseteq lost',
             pendingApproval' = Nil \/ (pendingApproval' = pendingApproval /\ agentSession' = agentSession),
             pendingApproval' = pendingApproval \/ pendingApproval \in lost' \cup {Nil}
      PROVE  PageIInv'
  <2>1. StreamsFollow'
    BY <1>1, <1>3 DEF StreamsFollow
  <2>2. \A q \in Requests : Carried(q)' = Carried(q)
    BY <1>1, <1>3 DEF Carried
  <2> QED
    BY <1>1, <1>2, <1>3, <2>1, <2>2, ApprovalsStay
<1>4. CASE NewAgentSession \/ ConfigLoaded \/ UNCHANGED page
  <2>1. PageTypeOK' /\ UNCHANGED <<agentSession, pendingApproval, stream, lost>>
    BY <1>4, NilAssumption DEF NewAgentSession, ConfigLoaded, page, PageTypeOK
  <2> QED
    BY <1>3, <2>1
<1>5. CASE ConfigDeleted \/ SessionBegins
  <2>1. PageTypeOK' /\ pendingApproval' = Nil /\ UNCHANGED stream /\ lost' = lost \cup Some(pendingApproval)
    BY <1>5 DEF ConfigDeleted, SessionBegins, PageTypeOK, Some
  <2> QED
    BY <1>3, <2>1 DEF Some
<1> QED
  BY <1>4, <1>5

LEMMA ResolveKeeps ==
  ASSUME IInv, PageIInv, NEW r \in Requests, ResolveApproval(r)
  PROVE  PageIInv'
<1> DEFINE a == pendingApproval
           s == agentSession
<1>1. /\ UNCHANGED <<sessions, pending, pc, req, decided, agentSession, leaving, lost>>
      /\ a # Nil /\ pendingApproval' = Nil /\ agentBusy' = TRUE
      /\ stream[r].state = "none" /\ pc[r] = "idle"
  BY DEF ResolveApproval, Free, vars, gate
<1>2. PICK answer \in Answers : stream' = [stream EXCEPT ![r] = Stream("sent", s, a, answer)]
  BY DEF ResolveApproval
<1>3. /\ a \in Approvals /\ s \in Sessions /\ pending[s] # Nil /\ pending[s].approval = a
  BY <1>1 DEF PageIInv, PageTypeOK, ShownCanBeAnswered
<1>4. Stream("sent", s, a, answer) \in PageStreams
  BY <1>3, StreamTypes DEF PageIInv, StreamStates
<1>5. /\ stream' \in [Requests -> PageStreams]
      /\ stream'[r].state = "sent" /\ stream'[r].session = s /\ stream'[r].approval = a
      /\ \A q \in Requests \ {r} : stream'[q] = stream[q]
  BY <1>2, <1>4 DEF PageIInv, PageTypeOK, Stream
<1>6. PageTypeOK'
  BY <1>1, <1>5 DEF PageIInv, PageTypeOK
<1>7. StreamsFollow'
  BY <1>1, <1>5 DEF PageIInv, StreamsFollow, Holding
<1>8. Carried(r)' = a /\ \A q \in Requests \ {r} : Carried(q)' = Carried(q)
  BY <1>1, <1>5 DEF Carried, Holding
<1>9. \A q \in Requests : Carried(q) # Nil => Carried(q) # a
  BY DEF PageIInv, CarriedOnce
<1>10. CarriedOnce'
  BY <1>1, <1>3, <1>5, <1>8, <1>9 DEF PageIInv, CarriedOnce
<1>11. ShownCanBeAnswered'
  BY <1>1 DEF ShownCanBeAnswered
<1>12. stream[r].approval = Nil
  BY <1>1 DEF PageIInv, StreamsFollow
<1>13. WaitingIsShown'
  <2> SUFFICES ASSUME NEW t \in sessions, pending[t] # Nil
               PROVE  \/ pending[t].approval \in lost
                      \/ \E q \in Requests : stream'[q].approval = pending[t].approval
    BY <1>1 DEF WaitingIsShown
  <2>1. t \in Sessions
    BY DEF IInv, TypeOK
  <2>2. pending[t].approval # Nil
    BY <2>1, PendingTypes
  <2>3. \/ pending[t].approval = a \/ pending[t].approval \in lost
        \/ \E q \in Requests : stream[q].approval = pending[t].approval
    BY DEF PageIInv, WaitingIsShown
  <2> QED
    BY <1>5, <1>12, <2>2, <2>3
<1> QED
  BY <1>6, <1>7, <1>10, <1>11, <1>13 DEF PageIInv

LEMMA ReadsKeeps ==
  ASSUME IInv, PageIInv, NEW r \in Requests, Reads(r)
  PROVE  PageIInv'
<1> DEFINE a == stream[r].approval
           s == stream[r].session
<1>1. /\ UNCHANGED <<sessions, pending, pc, req, decided, leaving>>
      /\ stream[r].state = "done" /\ agentSession' = s /\ pendingApproval' = a
      /\ agentBusy' = FALSE /\ lost' = lost \cup Some(pendingApproval)
      /\ stream' = [stream EXCEPT ![r] = Stream("closing", Nil, Nil, "no")]
  BY DEF Reads, vars, gate
<1>2. pc[r] = "idle"
  BY <1>1 DEF PageIInv, StreamsFollow
<1>3. stream[r] \in PageStreams /\ Stream("closing", Nil, Nil, "no") \in PageStreams
  BY StreamTypes DEF PageIInv, StreamStates, Answers
<1>4. /\ stream' \in [Requests -> PageStreams]
      /\ stream'[r].state = "closing" /\ stream'[r].approval = Nil
      /\ \A q \in Requests \ {r} : stream'[q] = stream[q]
  BY <1>1, <1>3 DEF PageIInv, PageTypeOK, Stream
<1>5. PageTypeOK'
  BY <1>1, <1>3, <1>4 DEF PageIInv, PageTypeOK, PageStreams, Some
<1>6. StreamsFollow'
  BY <1>1, <1>2, <1>4 DEF PageIInv, StreamsFollow, Holding
<1>7. /\ Carried(r) = a /\ Carried(r)' = Nil
      /\ \A q \in Requests \ {r} : Carried(q)' = Carried(q)
  BY <1>1, <1>2, <1>4 DEF Carried, Holding
<1>8. a # Nil => /\ s \in Sessions /\ pending[s] # Nil /\ pending[s].approval = a
                 /\ \A q \in Requests : Carried(q) = a => q = r
  BY <1>7 DEF PageIInv, CarriedOnce
<1>9. CarriedOnce'
  BY <1>1, <1>4, <1>7, <1>8 DEF PageIInv, CarriedOnce
<1>10. ShownCanBeAnswered'
  BY <1>1, <1>8, NilAssumption DEF ShownCanBeAnswered
<1>11. WaitingIsShown'
  <2> SUFFICES ASSUME NEW t \in sessions, pending[t] # Nil
               PROVE  \/ pending[t].approval \in lost' \cup {a}
                      \/ \E q \in Requests : stream'[q].approval = pending[t].approval
    BY <1>1 DEF WaitingIsShown
  <2>1. t \in Sessions
    BY DEF IInv, TypeOK
  <2>2. pending[t].approval # Nil
    BY <2>1, PendingTypes
  <2>3. \/ pending[t].approval = pendingApproval \/ pending[t].approval \in lost
        \/ \E q \in Requests : stream[q].approval = pending[t].approval
    BY DEF PageIInv, WaitingIsShown
  <2> QED
    BY <1>1, <1>4, <2>2, <2>3 DEF Some
<1> QED
  BY <1>5, <1>6, <1>9, <1>10, <1>11 DEF PageIInv

LEMMA ReopenKeeps ==
  ASSUME IInv, PageIInv, Reopen
  PROVE  PageIInv'
<1>1. /\ UNCHANGED <<sessions, pending, pc, req, decided>>
      /\ agentSession' = Nil /\ pendingApproval' = Nil /\ agentBusy' = FALSE /\ leaving' = Nil
      /\ lost' = lost \cup Some(pendingApproval)
              \cup UNION {Some(stream[r].approval) : r \in {q \in Requests : stream[q].state = "done"}}
  BY DEF Reopen, vars, gate
<1>2. ASSUME NEW r \in Requests
      PROVE  /\ stream'[r] \in PageStreams
             /\ IF stream[r].state \in {"sent", "gone"}
                THEN /\ stream'[r].state = "gone" /\ stream'[r].approval = stream[r].approval
                     /\ stream'[r].session = stream[r].session
                ELSE stream'[r].state = "none" /\ stream'[r].approval = Nil
  <2>1. stream[r] \in PageStreams /\ NoStream \in PageStreams
    BY StreamTypes DEF PageIInv
  <2>2. stream'[r] = IF stream[r].state \in {"sent", "gone"} THEN [stream[r] EXCEPT !.state = "gone"]
                                                             ELSE NoStream
    BY DEF Reopen
  <2> QED
    BY <2>1, <2>2 DEF PageStreams, StreamStates, NoStream, Stream
<1>3. stream' \in [Requests -> PageStreams]
  <2>1. stream' = [r \in Requests |-> stream'[r]]
    BY DEF Reopen
  <2> QED
    BY <1>2, <2>1
<1>4. \A r \in Requests : stream[r].approval \in Approvals \cup {Nil}
  BY StreamTypes DEF PageIInv, PageStreams
<1>5. lost' \subseteq Approvals
  BY <1>1, <1>4 DEF Some, PageIInv, PageTypeOK
<1>6. PageTypeOK'
  BY <1>1, <1>3, <1>5 DEF PageIInv, PageTypeOK
<1>7. StreamsFollow'
  BY <1>1, <1>2 DEF PageIInv, StreamsFollow
<1>8. \A r \in Requests :
        Carried(r)' = Nil \/ (Carried(r)' = Carried(r) /\ stream'[r].session = stream[r].session)
  BY <1>1, <1>2 DEF Carried
<1>9. \A r \in Requests :
        stream'[r].approval = stream[r].approval \/ stream[r].approval \in lost' \cup {Nil}
  <2> SUFFICES ASSUME NEW r \in Requests, stream[r].state \notin {"sent", "gone"}
               PROVE  stream[r].approval \in lost' \cup {Nil}
    BY <1>2
  <2>1. CASE stream[r].state = "done"
    BY <1>1, <2>1 DEF Some
  <2>2. CASE stream[r].state # "done"
    BY <2>2, StreamTypes DEF PageStreams, StreamStates, PageIInv, StreamsFollow
  <2> QED
    BY <2>1, <2>2
<1>10. sessions \subseteq Sessions /\ lost \subseteq lost' /\ pendingApproval \in lost' \cup {Nil}
  BY <1>1 DEF Some, IInv, TypeOK
<1> QED
  BY <1>1, <1>6, <1>7, <1>8, <1>9, <1>10, ApprovalsStay

(* The last event of a stream.                                             *)
LEMMA LastEvent ==
  ASSUME IInv, PageIInv, NEW r \in Requests, pc[r] # "idle", NEW a \in Approvals \cup {Nil},
         Responds(r, a) \/ (Errs(r) /\ a = Nil)
  PROVE  /\ PageTypeOK'
         /\ UNCHANGED <<agentSession, pendingApproval, agentBusy, leaving>>
         /\ \A q \in Requests \ {r} : stream'[q] = stream[q]
         /\ \/ stream'[r] = Stream("done", req[r].session, a, "no") /\ lost' = lost
            \/ /\ stream'[r] \in {NoStream, Stream("error", Nil, Nil, "no")}
               /\ lost \subseteq lost' /\ a \in lost' \cup {Nil}
<1>1. req[r].session \in Sessions
  BY SessionOfRequest
<1>2. Stream("done", req[r].session, a, "no") \in PageStreams
  BY <1>1, StreamTypes DEF PageIInv, StreamStates, Answers
<1>3. NoStream \in PageStreams /\ Stream("error", Nil, Nil, "no") \in PageStreams
  BY StreamTypes DEF PageIInv
<1>4. \/ /\ stream' = [stream EXCEPT ![r] = Stream("done", req[r].session, a, "no")]
         /\ lost' = lost
      \/ /\ \E x \in {NoStream, Stream("error", Nil, Nil, "no")} : stream' = [stream EXCEPT ![r] = x]
         /\ lost' = lost \cup Some(a)
  BY DEF Responds, Errs, Some
<1>5. UNCHANGED <<agentSession, pendingApproval, agentBusy, leaving>>
  BY DEF Responds, Errs
<1>6. lost' \subseteq Approvals /\ lost \subseteq lost'
  BY <1>4 DEF PageIInv, PageTypeOK, Some
<1>7. stream' \in [Requests -> PageStreams]
  BY <1>2, <1>3, <1>4 DEF PageIInv, PageTypeOK
<1>8. PageTypeOK'
  BY <1>5, <1>6, <1>7 DEF PageIInv, PageTypeOK
<1>9. ASSUME NEW x \in PageStreams, stream' = [stream EXCEPT ![r] = x]
      PROVE  stream'[r] = x /\ \A q \in Requests \ {r} : stream'[q] = stream[q]
  BY <1>9 DEF PageIInv, PageTypeOK
<1>10. CASE /\ stream' = [stream EXCEPT ![r] = Stream("done", req[r].session, a, "no")]
            /\ lost' = lost
  BY <1>2, <1>5, <1>8, <1>9, <1>10
<1>11. CASE /\ \E x \in {NoStream, Stream("error", Nil, Nil, "no")} : stream' = [stream EXCEPT ![r] = x]
            /\ lost' = lost \cup Some(a)
  BY <1>3, <1>5, <1>6, <1>8, <1>9, <1>11 DEF Some
<1> QED
  BY <1>4, <1>10, <1>11

(* A request that returns without an approval.                             *)
LEMMA EndKeeps ==
  ASSUME IInv, PageIInv, NEW r \in Requests, pc[r] \in Holding \cup {"turn"},
         Go(r, pc[r], "idle"), End(r), UNCHANGED <<pending, decided>>, sessions' \subseteq sessions,
         Errs(r) \/ Responds(r, Nil)
  PROVE  PageIInv'
<1>1. pc[r] # "idle" /\ "idle" \notin Holding
  BY DEF Holding
<1>2. pc'[r] = "idle" /\ (\A q \in Requests \ {r} : pc'[q] = pc[q] /\ req'[q] = req[q])
  BY DEF Go, End, IInv, TypeOK
<1>3. /\ PageTypeOK'
      /\ UNCHANGED <<agentSession, pendingApproval, agentBusy, leaving>>
      /\ \A q \in Requests \ {r} : stream'[q] = stream[q]
      /\ lost \subseteq lost' /\ stream'[r].approval = Nil
  <2>1. /\ PageTypeOK'
        /\ UNCHANGED <<agentSession, pendingApproval, agentBusy, leaving>>
        /\ \A q \in Requests \ {r} : stream'[q] = stream[q]
        /\ \/ stream'[r] = Stream("done", req[r].session, Nil, "no") /\ lost' = lost
           \/ /\ stream'[r] \in {NoStream, Stream("error", Nil, Nil, "no")}
              /\ lost \subseteq lost'
    BY <1>1, LastEvent
  <2> QED
    BY <2>1 DEF NoStream, Stream
<1>4. StreamsFollow'
  BY <1>1, <1>2, <1>3 DEF PageIInv, StreamsFollow
<1>5. Carried(r)' = Nil /\ \A q \in Requests \ {r} : Carried(q)' = Carried(q)
  BY <1>1, <1>2, <1>3 DEF Carried
<1>6. stream[r].approval = Nil \/ stream[r].approval \in decided
  BY <1>1 DEF PageIInv, StreamsFollow
<1>7. sessions \subseteq Sessions
  BY DEF IInv, TypeOK
<1>8. \A s \in sessions' : pending'[s] # Nil => pending'[s].approval # stream[r].approval
  BY <1>6, <1>7, PendingTypes
<1> QED
  BY <1>3, <1>4, <1>5, <1>7, <1>8, ApprovalsStay

(* A request that goes on, or begins to work.                              *)
LEMMA GoesOnKeeps ==
  ASSUME IInv, PageIInv, NEW r \in Requests, NEW to \in Holding,
         pc' = [pc EXCEPT ![r] = to], pc[r] # "idle",
         req'[r].approval = req[r].approval, req'[r].session = req[r].session,
         \A q \in Requests \ {r} : req'[q] = req[q],
         sessions' = sessions, UNCHANGED page,
         \/ pc[r] \in Holding \cup {"turn"} /\ UNCHANGED <<pending, decided>>
         \/ /\ pc[r] = "resolve" /\ Matches(r)
            /\ pending' = [pending EXCEPT ![req[r].session] = Nil]
            /\ decided' = decided \cup {pending[req[r].session].approval}
  PROVE  PageIInv'
<1>1. UNCHANGED <<agentSession, pendingApproval, agentBusy, leaving, stream, lost>>
  BY DEF page
<1>2. pc'[r] = to /\ (\A q \in Requests \ {r} : pc'[q] = pc[q]) /\ to # "idle" /\ to # "turn"
  BY DEF IInv, TypeOK, Holding
<1>3. PageTypeOK'
  BY <1>1 DEF PageIInv, PageTypeOK
<1>4. req[r].approval # Nil => req[r].approval \in decided'
  BY DEF PageIInv, StreamsFollow, Matches
<1>5. decided \subseteq decided'
  OBVIOUS
<1>6. StreamsFollow'
  BY <1>1, <1>2, <1>4, <1>5 DEF PageIInv, StreamsFollow
<1>7. Carried(r)' = Nil /\ \A q \in Requests \ {r} : Carried(q)' = Carried(q)
  BY <1>1, <1>2 DEF Carried
<1>8. sessions \subseteq Sessions /\ pending \in [Sessions -> PendingStates \cup {Nil}]
  BY DEF IInv, TypeOK
<1>9. \A s \in Sessions : pending'[s] # pending[s] =>
        /\ pending'[s] = Nil
        /\ \E q \in Requests :
             pending[s].approval = Carried(q) /\ Carried(q) # Nil /\ Carried(q)' = Nil
  <2> SUFFICES ASSUME NEW s \in Sessions, pending'[s] # pending[s]
               PROVE  /\ pending'[s] = Nil
                      /\ pending[s].approval = Carried(r) /\ Carried(r) # Nil
    BY <1>7
  <2>1. /\ pc[r] = "resolve" /\ Matches(r) /\ s = req[r].session
        /\ pending' = [pending EXCEPT ![req[r].session] = Nil]
    BY <1>8
  <2>2. Carried(r) = req[r].approval
    BY <2>1 DEF PageIInv, StreamsFollow, Carried, Holding
  <2>3. req[r].approval # Nil
    BY <2>1 DEF IInv, AnswersAreSaid
  <2> QED
    BY <1>8, <2>1, <2>2, <2>3 DEF Matches
<1>10. \A s \in sessions' : s \in Sessions /\ (pending'[s] # Nil => s \in sessions)
  BY <1>8
<1> QED
  BY <1>1, <1>3, <1>6, <1>7, <1>9, <1>10, ApprovalsStay

(* A request that arrives.                                                 *)
LEMMA ArrivesKeeps ==
  ASSUME IInv, PageIInv, NEW r \in Requests, TurnServed(r) \/ AnswerServed(r)
  PROVE  PageIInv'
<1>1. /\ pc[r] = "idle" /\ stream[r].state \in {"sent", "gone"}
      /\ UNCHANGED <<agentSession, pendingApproval, agentBusy, leaving, stream, lost>>
  BY DEF TurnServed, AnswerServed, Waits, page
<1>2. PICK to \in {"turn", "resolve"} : pc' = [pc EXCEPT ![r] = to]
                                          /\ (to = "turn" <=> stream[r].approval = Nil)
  BY DEF TurnServed, AnswerServed, TurnOfNewSession, TurnOfKnownSession, AnswerArrives, Go
<1>3. pc'[r] = to /\ \A q \in Requests \ {r} : pc'[q] = pc[q]
  BY <1>2 DEF IInv, TypeOK
<1>4. /\ \A q \in Requests \ {r} : req'[q] = req[q]
      /\ req'[r].approval = stream[r].approval
      /\ stream[r].approval # Nil => req'[r].session = stream[r].session
  <2>1. CASE TurnServed(r)
    <3>1. PICK s \in Sessions, fresh \in BOOLEAN : req' = [req EXCEPT ![r] = Request(s, fresh, Nil, "no")]
      BY <2>1 DEF TurnServed, TurnOfNewSession, TurnOfKnownSession, IInv, TypeOK
    <3>2. stream[r].approval = Nil
      BY <2>1 DEF TurnServed
    <3> QED
      BY <3>1, <3>2 DEF Request, IInv, TypeOK
  <2>2. CASE AnswerServed(r)
    <3>1. /\ \A q \in Requests \ {r} : req'[q] = req[q]
          /\ req'[r] = Request(stream[r].session, FALSE, stream[r].approval, stream[r].answer)
      BY <2>2 DEF AnswerServed, AnswerArrives, IInv, TypeOK
    <3> QED
      BY <3>1 DEF Request
  <2> QED
    BY <2>1, <2>2
<1>5. UNCHANGED <<pending, decided>>
  BY DEF TurnServed, AnswerServed, TurnOfNewSession, TurnOfKnownSession, AnswerArrives, gate
<1>6. PageTypeOK'
  BY <1>1 DEF PageIInv, PageTypeOK
<1>7. StreamsFollow'
  BY <1>1, <1>2, <1>3, <1>4, <1>5 DEF PageIInv, StreamsFollow, Holding
<1>8. \A q \in Requests : Carried(q)' = Carried(q)
  BY <1>1, <1>2, <1>3 DEF Carried, Holding
<1>9. \A s \in sessions' : s \in Sessions /\ (pending'[s] # Nil => s \in sessions)
  <2>1. \A s \in Sessions : pending[s] # Nil => s \in created
    BY DEF IInv, TypeOK, PendingIsShown
  <2>2. CASE sessions' \subseteq sessions
    BY <1>5, <2>2 DEF IInv, TypeOK
  <2>3. CASE TurnOfNewSession(r)
    <3>1. PICK s \in Sessions \ created : sessions' \subseteq sessions \cup {s}
      BY <2>3 DEF TurnOfNewSession, Kept
    <3> QED
      BY <1>5, <2>1, <3>1 DEF IInv, TypeOK
  <2> QED
    BY <2>2, <2>3 DEF TurnServed, AnswerServed, TurnOfKnownSession, AnswerArrives, Find
<1> QED
  BY <1>1, <1>5, <1>6, <1>7, <1>8, <1>9, ApprovalsStay

(* An approval that begins to wait.                                        *)
LEMMA WaitsKeeps ==
  ASSUME IInv, PageIInv, NEW r \in Requests, CallWaits(r),
         NEW a \in Approvals, shown'[a] # shown[a], Responds(r, a)
  PROVE  PageIInv'
<1> DEFINE s == req[r].session
<1>1. pc[r] = "calls" /\ pc[r] # "idle" /\ pc[r] \in Holding
  BY DEF CallWaits, Go, Holding
<1>2. /\ shown[a] = Nil
      /\ \E p \in PendingStates : p.approval = a /\ pending' = [pending EXCEPT ![s] = p]
  <2>1. PICK b \in Approvals :
          /\ shown[b] = Nil
          /\ pending' = [pending EXCEPT ![s] = [approval |-> b, call |-> Head(req[r].queue),
                                                remaining |-> Tail(req[r].queue)]]
          /\ shown' = [shown EXCEPT ![b] = Head(req[r].queue)]
    BY DEF CallWaits
  <2>2. b = a
    BY <2>1 DEF IInv, TypeOK
  <2>3. Head(req[r].queue) \in Calls /\ Tail(req[r].queue) \in Seq(Calls)
    BY <1>1, SessionOfRequest, HeadTailProperties DEF CallWaits
  <2> QED
    BY <2>1, <2>2, <2>3 DEF PendingStates
<1>3. s \in Sessions
  BY <1>1, SessionOfRequest
<1>4. /\ pending'[s].approval = a /\ \A t \in Sessions \ {s} : pending'[t] = pending[t]
      /\ s \in told'
  BY <1>2, <1>3 DEF CallWaits, Tell, IInv, TypeOK
<1>5. UNCHANGED <<sessions, decided>>
  BY DEF CallWaits
<1>6. pc'[r] = "idle" /\ (\A q \in Requests \ {r} : pc'[q] = pc[q] /\ req'[q] = req[q])
  BY DEF CallWaits, Go, End, IInv, TypeOK
<1>7. a # Nil /\ \A t \in Sessions : pending[t] # Nil => pending[t].approval # a
  BY <1>2, NilAssumption, PendingTypes
<1>8. /\ PageTypeOK'
      /\ UNCHANGED <<agentSession, pendingApproval, agentBusy, leaving>>
      /\ \A q \in Requests \ {r} : stream'[q] = stream[q]
      /\ \/ /\ stream'[r].state = "done" /\ stream'[r].session = s /\ stream'[r].approval = a
            /\ lost' = lost
         \/ /\ stream'[r].state \in {"none", "error"} /\ stream'[r].approval = Nil
            /\ lost \subseteq lost' /\ a \in lost'
  <2>1. /\ PageTypeOK'
        /\ UNCHANGED <<agentSession, pendingApproval, agentBusy, leaving>>
        /\ \A q \in Requests \ {r} : stream'[q] = stream[q]
        /\ \/ stream'[r] = Stream("done", s, a, "no") /\ lost' = lost
           \/ /\ stream'[r] \in {NoStream, Stream("error", Nil, Nil, "no")}
              /\ lost \subseteq lost' /\ a \in lost' \cup {Nil}
    BY <1>1, LastEvent
  <2> QED
    BY <1>7, <2>1 DEF NoStream, Stream
<1>9. StreamsFollow'
  BY <1>5, <1>6, <1>8 DEF PageIInv, StreamsFollow, Holding
<1>10. /\ Carried(r)' \in {a, Nil}
       /\ Carried(r)' # Nil => stream'[r].session = s
       /\ \A q \in Requests \ {r} : Carried(q)' = Carried(q) /\ stream'[q] = stream[q]
  BY <1>6, <1>8 DEF Carried, Holding
<1>11. pending[s] = Nil
  BY <1>1 DEF IInv, HeldByOne
<1>12. pendingApproval # Nil => pendingApproval # a /\ agentSession \in Sessions \ {s}
  BY <1>7, <1>11 DEF PageIInv, PageTypeOK, ShownCanBeAnswered
<1>13. \A q \in Requests : Carried(q) # Nil =>
         Carried(q) # a /\ stream[q].session \in Sessions \ {s}
  BY <1>7, <1>11 DEF PageIInv, CarriedOnce
<1>14. pending'[s] # Nil
  BY <1>2, <1>3, NilAssumption DEF IInv, TypeOK
<1>15. CarriedOnce'
  BY <1>3, <1>4, <1>8, <1>10, <1>12, <1>13, <1>14 DEF PageIInv, CarriedOnce
<1>16. ShownCanBeAnswered'
  BY <1>4, <1>8, <1>12 DEF PageIInv, ShownCanBeAnswered
<1>17. WaitingIsShown'
  <2> SUFFICES ASSUME NEW t \in sessions, pending'[t] # Nil
               PROVE  LET b == pending'[t].approval IN
                        \/ b = pendingApproval' \/ b \in lost'
                        \/ \E q \in Requests : stream'[q].approval = b
    BY <1>5 DEF WaitingIsShown
  <2>1. t \in Sessions
    BY DEF IInv, TypeOK
  <2>2. CASE t = s
    BY <1>4, <1>8, <2>2
  <2>3. CASE t # s
    <3> DEFINE b == pending[t].approval
    <3>1. pending'[t] = pending[t]
      BY <1>4, <2>1, <2>3
    <3>2. b = pendingApproval \/ b \in lost \/ \E q \in Requests : stream[q].approval = b
      BY <3>1 DEF PageIInv, WaitingIsShown
    <3>3. b # Nil /\ b \notin decided
      BY <2>1, <3>1, PendingTypes
    <3>4. stream[r].approval # b
      BY <1>1, <3>3 DEF PageIInv, StreamsFollow
    <3> QED
      BY <1>8, <3>1, <3>2, <3>4
  <2> QED
    BY <2>2, <2>3
<1> QED
  BY <1>8, <1>9, <1>15, <1>16, <1>17 DEF PageIInv

LEMMA WorkKeeps ==
  ASSUME IInv, PageIInv, NEW r \in Requests, WorkStep(r)
  PROVE  PageIInv'
<1>1. ASSUME pc[r] \in Holding, NEW to \in Holding, pc' = [pc EXCEPT ![r] = to],
             req'[r].approval = req[r].approval, req'[r].session = req[r].session,
             \A q \in Requests \ {r} : req'[q] = req[q],
             UNCHANGED <<sessions, pending, decided>>, UNCHANGED page
      PROVE  PageIInv'
  <2>1. pc[r] # "idle"
    BY <1>1 DEF Holding
  <2> QED
    BY <1>1, <2>1, GoesOnKeeps
<1>2. ASSUME pc[r] \in Holding, Go(r, pc[r], "idle"), End(r),
             UNCHANGED <<pending, decided>>, sessions' \subseteq sessions,
             Errs(r) \/ Responds(r, Nil)
      PROVE  PageIInv'
  BY <1>2, EndKeeps
<1>3. CASE Works(r) /\ pc'[r] # "idle" /\ UNCHANGED page
  <2>1. ASSUME NEW from \in {"model", "final"}, NEW grown, Fails(r, from, grown)
        PROVE  /\ pc[r] \in Holding /\ pc' = [pc EXCEPT ![r] = "failed"] /\ UNCHANGED req
    BY <1>3, <2>1 DEF Fails, Go, Holding, IInv, TypeOK
  <2>2. CASE ModelFails(r) \/ ModelSaysNothing(r) \/ FinalCancelled(r)
    <3>1. pc[r] \in Holding /\ pc' = [pc EXCEPT ![r] = "failed"] /\ UNCHANGED req
      BY <2>1, <2>2 DEF ModelFails, ModelSaysNothing, FinalCancelled
    <3>2. UNCHANGED <<sessions, pending, decided>>
      BY <2>2 DEF ModelFails, ModelSaysNothing, FinalCancelled, gate
    <3> QED
      BY <1>1, <1>3, <3>1, <3>2 DEF Holding
  <2>3. ASSUME NEW kinds \in KindLists, ModelCalls(r, kinds)
        PROVE  PageIInv'
    <3>1. pc[r] \in Holding /\ pc' = [pc EXCEPT ![r] = "calls"] /\ UNCHANGED <<sessions, pending, decided>>
      BY <2>3 DEF ModelCalls, Go, Holding, gate
    <3>2. /\ req'[r].approval = req[r].approval /\ req'[r].session = req[r].session
          /\ \A q \in Requests \ {r} : req'[q] = req[q]
      BY <2>3 DEF ModelCalls, IInv, TypeOK, RequestStates
    <3> QED
      BY <1>1, <1>3, <3>1, <3>2 DEF Holding
  <2>4. CASE CallsDone(r)
    <3>1. PICK to \in {"model", "final"} : pc' = [pc EXCEPT ![r] = to]
      BY <2>4 DEF CallsDone, Go
    <3> QED
      BY <1>1, <1>3, <2>4, <3>1 DEF CallsDone, Go, Holding, gate
  <2>5. CASE CallRefused(r) \/ CallRuns(r) \/ WriteEnds(r)
    <3>1. pc[r] \in Holding /\ pc' = [pc EXCEPT ![r] = "calls"]
      BY <2>5 DEF CallRefused, CallRuns, WriteEnds, Go, Holding, IInv, TypeOK
    <3>2. UNCHANGED <<sessions, pending, decided>>
      BY <2>5 DEF CallRefused, CallRuns, WriteEnds, gate
    <3>3. /\ req'[r].approval = req[r].approval /\ req'[r].session = req[r].session
          /\ \A q \in Requests \ {r} : req'[q] = req[q]
      BY <2>5 DEF CallRefused, CallRuns, WriteEnds, Answered, IInv, TypeOK, RequestStates
    <3> QED
      BY <1>1, <1>3, <3>1, <3>2, <3>3 DEF Holding
  <2>6. ASSUME \/ ModelAnswers(r, "model") \/ ModelAnswers(r, "final")
               \/ CallWaits(r) \/ FinalFallback(r) \/ DropFailed(r)
        PROVE  FALSE
    <3>1. pc'[r] = "idle"
      BY <2>6 DEF ModelAnswers, CallWaits, FinalFallback, DropFailed, Go, IInv, TypeOK
    <3> QED
      BY <1>3, <3>1
  <2> QED
    BY <1>3, <2>2, <2>3, <2>4, <2>5, <2>6 DEF Works
<1>4. CASE Sends(r)
  <2>1. ASSUME \/ ModelAnswers(r, "model") \/ ModelAnswers(r, "final") \/ FinalFallback(r),
               Responds(r, Nil)
        PROVE  PageIInv'
    <3>1. pc[r] \in Holding /\ Go(r, pc[r], "idle") /\ End(r)
      BY <2>1 DEF ModelAnswers, FinalFallback, Go, Holding
    <3>2. UNCHANGED <<sessions, pending, decided>>
      BY <2>1 DEF ModelAnswers, FinalFallback, gate
    <3> QED
      BY <1>2, <2>1, <3>1, <3>2
  <2>2. ASSUME ModelFails(r) \/ ModelSaysNothing(r) \/ FinalCancelled(r),
               req[r].approval # Nil \/ pc'[r] = "idle", Errs(r) \/ Responds(r, Nil)
        PROVE  PageIInv'
    <3>1. ASSUME NEW from \in {"model", "final"}, NEW grown, Fails(r, from, grown)
          PROVE  pc[r] \in Holding /\ Go(r, pc[r], "idle") /\ End(r)
      BY <2>2, <3>1 DEF Fails, Go, Holding, IInv, TypeOK
    <3>2. pc[r] \in Holding /\ Go(r, pc[r], "idle") /\ End(r)
      BY <2>2, <3>1 DEF ModelFails, ModelSaysNothing, FinalCancelled
    <3>3. UNCHANGED <<sessions, pending, decided>>
      BY <2>2 DEF ModelFails, ModelSaysNothing, FinalCancelled, gate
    <3> QED
      BY <1>2, <2>2, <3>2, <3>3
  <2>3. CASE DropFailed(r) /\ Errs(r)
    <3>1. pc[r] \in Holding /\ Go(r, pc[r], "idle") /\ End(r)
      BY <2>3 DEF DropFailed, Go, Holding
    <3> QED
      BY <1>2, <2>3, <3>1 DEF DropFailed, gate
  <2>4. CASE CallWaits(r) /\ \E a \in Approvals : shown'[a] # shown[a] /\ Responds(r, a)
    BY <2>4, WaitsKeeps
  <2> QED
    BY <1>4, <2>1, <2>2, <2>3, <2>4 DEF Sends
<1> QED
  BY <1>3, <1>4 DEF WorkStep

LEMMA LockKeeps ==
  ASSUME IInv, PageIInv, NEW r \in Requests, LockStep(r)
  PROVE  PageIInv'
<1>1. CASE TurnRejected(r) /\ Errs(r)
  <2>1. pc[r] = "turn" /\ Go(r, pc[r], "idle") /\ End(r) /\ UNCHANGED <<sessions, pending, decided>>
    BY <1>1 DEF TurnRejected, Go, gate
  <2> QED
    BY <1>1, <2>1, EndKeeps
<1>2. CASE AnswerRejected(r)
  <2>1. pc[r] = "resolve" /\ ~Matches(r)
    BY <1>2 DEF AnswerRejected, Go
  <2>2. Carried(r) = req[r].approval /\ req[r].approval # Nil /\ req[r].session = stream[r].session
    BY <2>1 DEF PageIInv, StreamsFollow, Carried, Holding, IInv, AnswersAreSaid
  <2> QED
    BY <2>1, <2>2 DEF Matches, PageIInv, CarriedOnce
<1>3. CASE TurnBegins(r) /\ UNCHANGED page
  <2>1. pc[r] = "turn" /\ pc' = [pc EXCEPT ![r] = "model"] /\ UNCHANGED <<sessions, pending, decided, req>>
    BY <1>3 DEF TurnBegins, Go, gate
  <2> QED
    BY <1>3, <2>1, GoesOnKeeps DEF Holding
<1>4. CASE (Approved(r) \/ Denied(r)) /\ UNCHANGED page
  <2>1. PICK to \in {"write", "calls"} : pc' = [pc EXCEPT ![r] = to]
    BY <1>4 DEF Approved, Denied, Go
  <2>2. /\ pc[r] = "resolve" /\ Matches(r) /\ sessions' = sessions
        /\ pending' = [pending EXCEPT ![req[r].session] = Nil]
        /\ decided' = decided \cup {pending[req[r].session].approval}
    BY <1>4 DEF Approved, Denied, Go
  <2>3. /\ req'[r].approval = req[r].approval /\ req'[r].session = req[r].session
        /\ \A q \in Requests \ {r} : req'[q] = req[q]
    BY <1>4 DEF Approved, Denied, IInv, TypeOK, RequestStates
  <2> QED
    BY <1>4, <2>1, <2>2, <2>3, GoesOnKeeps DEF Holding
<1> QED
  BY <1>1, <1>2, <1>3, <1>4 DEF LockStep

(* What leaves the map of sessions.                                        *)
LEMMA RemovalKeeps ==
  ASSUME IInv, PageIInv, sessions' \subseteq sessions,
         ResetServed \/ \E r \in Requests : SessionUnknown(r)
  PROVE  PageIInv'
<1>1. UNCHANGED <<pending, pc, req, decided>>
  BY DEF ResetServed, SessionUnknown, Reset, FindNothing, gate
<1>2. sessions \subseteq Sessions
  BY DEF IInv, TypeOK
<1>3. CASE ResetServed
  <2>1. UNCHANGED page
    BY <1>3 DEF ResetServed
  <2>2. PageTypeOK' /\ StreamsFollow'
    BY <1>1, <2>1 DEF page, PageIInv, PageTypeOK, StreamsFollow
  <2>3. \A q \in Requests : Carried(q)' = Carried(q)
    BY <1>1, <2>1 DEF page, Carried
  <2> QED
    BY <1>1, <1>2, <2>1, <2>2, <2>3, ApprovalsStay DEF page
<1>4. ASSUME NEW r \in Requests, SessionUnknown(r)
      PROVE  PageIInv'
  <2>1. PICK x \in {NoStream, Stream("error", Nil, Nil, "no")} : stream' = [stream EXCEPT ![r] = x]
    BY <1>4 DEF SessionUnknown, Errs
  <2>2. x \in PageStreams /\ x.approval = Nil
    BY <2>1, StreamTypes DEF PageIInv, NoStream, Stream
  <2>3. UNCHANGED <<agentSession, pendingApproval, agentBusy, leaving, lost>>
    BY <1>4 DEF SessionUnknown, Errs
  <2>4. pc[r] = "idle" /\ stream[r].session \notin sessions'
    BY <1>4 DEF SessionUnknown, Waits
  <2>5. /\ stream' \in [Requests -> PageStreams] /\ stream'[r].approval = Nil
        /\ \A q \in Requests \ {r} : stream'[q] = stream[q]
    BY <2>1, <2>2 DEF PageIInv, PageTypeOK
  <2>6. PageTypeOK'
    BY <2>3, <2>5 DEF PageIInv, PageTypeOK
  <2>7. StreamsFollow'
    BY <1>1, <2>4, <2>5 DEF PageIInv, StreamsFollow, Holding
  <2>8. Carried(r)' = Nil /\ \A q \in Requests \ {r} : Carried(q)' = Carried(q)
    BY <1>1, <2>5 DEF Carried
  <2>9. stream[r].approval # Nil =>
          /\ stream[r].session \in Sessions /\ pending[stream[r].session] # Nil
          /\ pending[stream[r].session].approval = stream[r].approval
    BY <2>4 DEF PageIInv, CarriedOnce, Carried, Holding
  <2>10. \/ stream[r].approval = Nil
         \/ \A s \in sessions' : pending'[s] # Nil => pending'[s].approval # stream[r].approval
    BY <1>1, <1>2, <2>4, <2>9, PendingTypes
  <2> QED
    BY <1>1, <1>2, <2>3, <2>5, <2>6, <2>7, <2>8, <2>10, ApprovalsStay
<1> QED
  BY <1>3, <1>4

LEMMA NextPageIInv ==
  ASSUME IInv, PageIInv, [PageNext]_pageVars
  PROVE  PageIInv'
<1>1. ASSUME NEW r \in Requests, SendAgent(r) \/ TurnRefused(r) \/ NeverArrives(r) \/ Settles(r)
      PROVE  PageIInv'
  <2>1. UNCHANGED vars
    BY <1>1 DEF SendAgent, TurnRefused, NeverArrives, Settles
  <2> QED
    BY <1>1, <2>1, RequestKeeps
<1>2. ASSUME NEW r \in Requests, SessionUnknown(r)
      PROVE  PageIInv'
  <2>1. sessions' \subseteq sessions
    BY <1>2 DEF SessionUnknown, FindNothing
  <2> QED
    BY <1>2, <2>1, RemovalKeeps
<1>3. CASE ResetServed
  <2>1. sessions' \subseteq sessions
    BY <1>3 DEF ResetServed, Reset
  <2> QED
    BY <1>3, <2>1, RemovalKeeps
<1>4. CASE NewAgentSession \/ ConfigLoaded \/ ConfigDeleted \/ SessionBegins \/ UNCHANGED pageVars
  <2>1. UNCHANGED vars
    BY <1>4 DEF NewAgentSession, ConfigLoaded, ConfigDeleted, SessionBegins, pageVars
  <2> QED
    BY <1>4, <2>1, PageKeeps DEF pageVars
<1> QED
  BY <1>1, <1>2, <1>3, <1>4, ResolveKeeps, ReadsKeeps, ReopenKeeps, ArrivesKeeps, WorkKeeps, LockKeeps
  DEF PageNext, Serve

(* The engine behind the page is an engine: what is proved of the engine   *)
(* holds of the whole.                                                     *)
LEMMA PageRunsEngine == PageSpec => Spec /\ []PageIInv
<1>1. PageInit => Init /\ PageIInv
  BY InitPageIInv DEF PageInit
<1>2. Init => IInv
  BY InitIInv
<1>3. IInv /\ PageIInv /\ [PageNext]_pageVars => [Next]_vars /\ IInv' /\ PageIInv'
  BY PageStep, NextIInv, NextPageIInv DEF PageIInv
<1> QED
  BY <1>1, <1>2, <1>3, PTL DEF PageSpec, Spec

(* The approval on the screen is the one the session waits with, whatever  *)
(* overlapping requests have written (handleAgentResponse).                *)
THEOREM ShownIsPending == PageSpec => []ShownCanBeAnswered
<1>1. PageIInv => ShownCanBeAnswered
  BY DEF PageIInv
<1> QED
  BY <1>1, PageRunsEngine, PTL

(* An approval that waits is in front of the user or on its way, or its    *)
(* way was cut.                                                            *)
THEOREM WaitingReachesTheUser == PageSpec => []WaitingIsShown
<1>1. PageIInv => WaitingIsShown
  BY DEF PageIInv
<1> QED
  BY <1>1, PageRunsEngine, PTL
=============================================================================
