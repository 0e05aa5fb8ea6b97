------------------------ MODULE AgentTranscriptProofs ------------------------
(***************************************************************************)
(* Proofs about what AgentEngine and ModelClient keep: that the session    *)
(* map stays within its limit, that the transcripts answer every call, and *)
(* that what is sent of them to the model's services is in order.  The     *)
(* invariants they need are UseIsOrdered and TranscriptIInv of             *)
(* AgentEngine.                                                            *)
(***************************************************************************)
EXTENDS AgentEngineProofs, ModelClient

-----------------------------------------------------------------------------
(* The session map.                                                        *)

(* order is the order of last use of keys.                                 *)
OrdersUse(keys, order) ==
  /\ \A s, t \in keys : s # t => <<s, t>> \in order \/ <<t, s>> \in order
  /\ \A s \in keys : <<s, s>> \notin order
  /\ \A s, t, u \in keys : <<s, t>> \in order /\ <<t, u>> \in order => <<s, u>> \in order

LEMMA FewerAreOrdered ==
  ASSUME UseIsOrdered, NEW keys \in SUBSET sessions
  PROVE  IsFiniteSet(keys) /\ OrdersUse(keys, older)
BY FS_Subset DEF UseIsOrdered, OrdersUse

(* A use makes a session the last one of the order.                        *)
LEMMA TouchedOrdersUse ==
  ASSUME NEW keys, NEW s, OrdersUse(keys, older)
  PROVE  OrdersUse(keys \cup {s}, Touched(keys, s))
<1> DEFINE order == Touched(keys, s)
<1>1. ASSUME NEW t \in keys \cup {s}, NEW u \in keys \cup {s}
      PROVE  <<t, u>> \in order <=>
               t # s /\ IF u = s THEN t \in keys ELSE <<t, u>> \in older
  <2>1. <<t, u>> \in {p \in older : p[1] # s /\ p[1] \in keys /\ p[2] \in keys}
          <=> <<t, u>> \in older /\ t # s /\ t \in keys /\ u \in keys
    OBVIOUS
  <2>2. <<t, u>> \in {<<v, s>> : v \in keys \ {s}} <=> u = s /\ t \in keys \ {s}
    OBVIOUS
  <2> QED
    BY <1>1, <2>1, <2>2 DEF Touched
<1> HIDE DEF order
<1>2. \A t, u \in keys \cup {s} : t # u => <<t, u>> \in order \/ <<u, t>> \in order
  BY <1>1 DEF OrdersUse
<1>3. \A t \in keys \cup {s} : <<t, t>> \notin order
  BY <1>1 DEF OrdersUse
<1>4. \A t, u, v \in keys \cup {s} :
        <<t, u>> \in order /\ <<u, v>> \in order => <<t, v>> \in order
  BY <1>1 DEF OrdersUse
<1>5. OrdersUse(keys \cup {s}, order)
  BY <1>2, <1>3, <1>4 DEF OrdersUse
<1> QED
  BY <1>5 DEF order

(* What evictForNewSessionLocked keeps has room for one more: the least    *)
(* recently used session of those kept has all the others behind it.       *)
LEMMA KeptLeavesRoom ==
  ASSUME NEW keys, IsFiniteSet(keys), OrdersUse(keys, older)
  PROVE  /\ IsFiniteSet(Kept(keys)) /\ Kept(keys) \subseteq keys
         /\ Cardinality(Kept(keys)) <= MaxSessions - 1
<1> DEFINE behind(s) == {t \in keys : <<s, t>> \in older}
           kept == Kept(keys)
           spare(s) == MaxSessions - Cardinality(behind(s))
           spares == {spare(s) : s \in kept}
<1>1. kept \subseteq keys /\ IsFiniteSet(kept) /\ MaxSessions \in Nat \ {0}
  BY FS_Subset, BoundsAssumption DEF Kept
<1>2. \A s \in keys : IsFiniteSet(behind(s)) /\ Cardinality(behind(s)) \in Nat
  BY FS_Subset, FS_CardinalityType
<1>3. \A s \in kept : Cardinality(behind(s)) < MaxSessions - 1
  BY DEF Kept
<1> HIDE DEF behind
<1>4. CASE kept = {}
  BY <1>1, <1>4, FS_EmptySet
<1>5. CASE kept # {}
  <2>1. spares \in SUBSET Nat /\ spares # {}
    <3>1. \A s \in kept : spare(s) \in Nat
      BY <1>1, <1>2, <1>3
    <3> QED
      BY <3>1, <1>5
  <2>2. PICK i \in spares : \A j \in spares : i <= j
    <3> HIDE DEF spares
    <3> QED
      BY <2>1, Least
  <2>3. PICK m \in kept : i = spare(m)
    BY <2>2
  <2>4. ASSUME NEW s \in kept
        PROVE  Cardinality(behind(s)) <= Cardinality(behind(m))
    <3>1. spare(m) <= spare(s)
      BY <2>2, <2>3
    <3>2. Cardinality(behind(s)) \in Nat /\ Cardinality(behind(m)) \in Nat
      BY <1>1, <1>2
    <3> QED
      BY <3>1, <3>2, <1>1
  <2>5. ASSUME NEW s \in kept, s # m
        PROVE  <<m, s>> \in older
    <3> SUFFICES ASSUME <<s, m>> \in older
                 PROVE  FALSE
      BY <1>1, <2>5 DEF OrdersUse
    <3>1. /\ behind(m) \subseteq behind(s) \ {m}
          /\ m \in behind(s)
      BY <1>1 DEF OrdersUse, behind
    <3>2. /\ IsFiniteSet(behind(s) \ {m})
          /\ Cardinality(behind(s) \ {m}) = Cardinality(behind(s)) - 1
      BY <3>1, <1>1, <1>2, FS_RemoveElement
    <3>3. Cardinality(behind(m)) <= Cardinality(behind(s) \ {m})
      BY <3>1, <3>2, FS_Subset
    <3>4. Cardinality(behind(s)) \in Nat /\ Cardinality(behind(m)) \in Nat
      BY <1>1, <1>2
    <3>5. Cardinality(behind(s)) <= Cardinality(behind(m))
      BY <2>4
    <3> QED
      BY <3>2, <3>3, <3>4, <3>5
  <2>6. kept \ {m} \subseteq behind(m)
    BY <2>5, <1>1 DEF behind
  <2>7. Cardinality(kept \ {m}) <= Cardinality(behind(m))
    BY <2>6, <1>1, <1>2, FS_Subset
  <2>8. Cardinality(kept \ {m}) = Cardinality(kept) - 1 /\ Cardinality(kept) \in Nat
    BY <1>1, FS_RemoveElement, FS_CardinalityType
  <2>9. Cardinality(behind(m)) < MaxSessions - 1 /\ Cardinality(behind(m)) \in Nat
    BY <1>1, <1>2, <1>3
  <2>10. Cardinality(kept) <= MaxSessions - 1
    BY <2>7, <2>8, <2>9, <1>1
  <2> QED
    BY <1>1, <2>10
<1> QED
  BY <1>4, <1>5

(* What a step can do to the map: take sessions away, use one, or make     *)
(* room for a new one.                                                     *)
LEMMA MapSteps ==
  ASSUME TypeOK, [Next]_vars
  PROVE  \/ sessions' \subseteq sessions /\ older' = older
         \/ /\ sessions' = sessions
            /\ \E s \in Sessions \cup {Nil} : older' = Touched(sessions, s)
         \/ \E keys \in SUBSET sessions, s \in Sessions :
              sessions' = Kept(keys) \cup {s} /\ older' = Touched(Kept(keys), s)
<1>1. \A r \in Requests : req[r].session \in Sessions \cup {Nil}
  BY DEF TypeOK, RequestStates
<1>2. ASSUME NEW r \in Requests, TurnOfNewSession(r)
      PROVE  \E keys \in SUBSET sessions, s \in Sessions :
               sessions' = Kept(keys) \cup {s} /\ older' = Touched(Kept(keys), s)
  <2>1. PICK s \in Sessions \ created, gone \in Expirable :
               /\ sessions' = Kept(sessions \ gone) \cup {s}
               /\ older' = Touched(Kept(sessions \ gone), s)
    BY <1>2 DEF TurnOfNewSession
  <2>2. sessions \ gone \in SUBSET sessions
    OBVIOUS
  <2> QED
    BY <2>1, <2>2
<1>3. ASSUME NEW r \in Requests, TurnOfKnownSession(r) \/ AnswerArrives(r)
      PROVE  sessions' \subseteq sessions /\ older' = older
  BY <1>3 DEF TurnOfKnownSession, AnswerArrives, Find, Expirable
<1>4. ASSUME NEW r \in Requests, Locks(r)
      PROVE  sessions' = sessions /\ (older' = older \/ Touch(r))
  BY <1>4 DEF Locks, TurnBegins, TurnRejected, AnswerRejected, Approved, Denied
<1>5. ASSUME NEW r \in Requests, Works(r)
      PROVE  sessions' \subseteq sessions /\ (older' = older \/ (Touch(r) /\ sessions' = sessions))
  BY <1>5 DEF Works, ModelFails, ModelSaysNothing, ModelAnswers, ModelCalls, CallsDone, CallRefused,
     CallRuns, CallWaits, WriteEnds, FinalFallback, FinalCancelled, DropFailed
<1>6. ASSUME (\E s \in Sessions : Reset(s)) \/ FindNothing
      PROVE  sessions' \subseteq sessions /\ older' = older
  BY <1>6 DEF Reset, FindNothing
<1>7. CASE UNCHANGED vars
  BY <1>7 DEF vars
<1> QED
  BY <1>1, <1>2, <1>3, <1>4, <1>5, <1>6, <1>7 DEF Next, Arrivals, Touch

LEMMA NextIsBounded ==
  ASSUME TypeOK, UseIsOrdered, SessionsBounded, [Next]_vars
  PROVE  UseIsOrdered' /\ SessionsBounded'
<1>0. UseIsOrdered' <=> IsFiniteSet(sessions') /\ OrdersUse(sessions', older')
  BY DEF UseIsOrdered, OrdersUse
<1>1. IsFiniteSet(sessions) /\ OrdersUse(sessions, older) /\ MaxSessions \in Nat \ {0}
  BY FewerAreOrdered, BoundsAssumption
<1>2. CASE sessions' \subseteq sessions /\ older' = older
  <2>1. Cardinality(sessions') <= Cardinality(sessions)
        /\ Cardinality(sessions) \in Nat /\ Cardinality(sessions') \in Nat
    BY <1>1, <1>2, FS_Subset, FS_CardinalityType
  <2> QED
    BY <1>0, <1>1, <1>2, <2>1, FewerAreOrdered DEF SessionsBounded
<1>3. ASSUME NEW s, sessions' = sessions, older' = Touched(sessions, s)
      PROVE  UseIsOrdered' /\ SessionsBounded'
  <2>1. OrdersUse(sessions \cup {s}, older')
    BY <1>1, <1>3, TouchedOrdersUse
  <2> QED
    BY <1>0, <1>1, <1>3, <2>1 DEF SessionsBounded, OrdersUse
<1>4. ASSUME NEW keys \in SUBSET sessions, NEW s \in Sessions,
             sessions' = Kept(keys) \cup {s}, older' = Touched(Kept(keys), s)
      PROVE  UseIsOrdered' /\ SessionsBounded'
  <2>1. IsFiniteSet(keys) /\ OrdersUse(keys, older)
    BY FewerAreOrdered
  <2>2. /\ IsFiniteSet(Kept(keys)) /\ Kept(keys) \subseteq keys
        /\ Cardinality(Kept(keys)) <= MaxSessions - 1
    BY <2>1, KeptLeavesRoom
  <2>3. OrdersUse(Kept(keys), older)
    BY <2>2, FewerAreOrdered
  <2>4. IsFiniteSet(sessions') /\ OrdersUse(sessions', older')
    BY <1>4, <2>2, <2>3, TouchedOrdersUse, FS_AddElement
  <2>5. Cardinality(sessions') \in Nat /\ Cardinality(Kept(keys)) \in Nat
        /\ Cardinality(sessions') <= Cardinality(Kept(keys)) + 1
    <3>1. Cardinality(Kept(keys)) \in Nat
      BY <2>2, FS_CardinalityType
    <3>2. Cardinality(Kept(keys) \cup {s})
            = IF s \in Kept(keys) THEN Cardinality(Kept(keys)) ELSE Cardinality(Kept(keys)) + 1
      BY <2>2, FS_AddElement
    <3> QED
      BY <1>4, <3>1, <3>2
  <2> QED
    BY <1>0, <1>1, <2>2, <2>4, <2>5 DEF SessionsBounded
<1> QED
  BY <1>2, <1>3, <1>4, MapSteps

(* However turns, expiry, eviction and resets interleave, the session map  *)
(* never holds more sessions than its limit, and it always has an order of *)
(* last use to evict by.                                                   *)
THEOREM SessionsStayBounded == Spec => [](UseIsOrdered /\ SessionsBounded)
<1>1. Init => UseIsOrdered /\ SessionsBounded
  BY FS_EmptySet, BoundsAssumption DEF Init, UseIsOrdered, SessionsBounded
<1>2. TypeOK /\ UseIsOrdered /\ SessionsBounded /\ [Next]_vars
        => UseIsOrdered' /\ SessionsBounded'
  BY NextIsBounded
<1> QED
  BY <1>1, <1>2, TypeCorrect, PTL DEF Spec
-----------------------------------------------------------------------------
(* Transcripts that grow and shrink.                                       *)

LEMMA MessageTypes ==
  ASSUME NEW ms \in Seq(Messages)
  PROVE  /\ Len(ms) \in Nat /\ DOMAIN ms = 1 .. Len(ms)
         /\ \A i \in DOMAIN ms : ms[i].n \in 0 .. MaxCalls
         /\ MaxCalls \in Nat \ {0}
<1>1. Len(ms) \in Nat /\ DOMAIN ms = 1 .. Len(ms) /\ \A i \in DOMAIN ms : ms[i] \in Messages
  OBVIOUS
<1>2. \A m \in Messages : m.n \in 0 .. MaxCalls
  BY DEF Messages
<1> QED
  BY <1>1, <1>2, BoundsAssumption

LEMMA AppendedMessages ==
  ASSUME NEW ms \in Seq(Messages), NEW m \in Messages
  PROVE  /\ Append(ms, m) \in Seq(Messages) /\ Len(Append(ms, m)) = Len(ms) + 1
         /\ DOMAIN Append(ms, m) = 1 .. Len(ms) + 1
         /\ \A i \in DOMAIN ms : Append(ms, m)[i] = ms[i]
         /\ Append(ms, m)[Len(ms) + 1] = m
         /\ Append(ms, m) # <<>>
BY AppendProperties, EmptySeq

(* Two replies cannot both wait for the same place.                        *)
LEMMA OneReplyWaits ==
  ASSUME NEW ms \in Seq(Messages), AnswersInOrder(ms), NEW i \in DOMAIN ms, NEW j \in DOMAIN ms,
         ms[i].role = "assistant", i + ms[i].n > Len(ms),
         ms[j].role = "assistant", j + ms[j].n > Len(ms)
  PROVE  i = j
<1>1. ASSUME NEW a \in DOMAIN ms, NEW b \in DOMAIN ms, a < b,
             ms[a].role = "assistant", a + ms[a].n > Len(ms), ms[b].role = "assistant"
      PROVE  FALSE
  <2>1. /\ Len(ms) \in Nat /\ a \in 1 .. Len(ms) /\ b \in 1 .. Len(ms) /\ ms[a].n \in Nat
    BY MessageTypes
  <2>2. b - a \in 1 .. ms[a].n /\ a + (b - a) = b /\ b <= Len(ms)
    BY <1>1, <2>1
  <2>3. ms[a + (b - a)] = [role |-> "tool", n |-> b - a]
    BY <1>1, <2>2 DEF AnswersInOrder
  <2> QED
    BY <1>1, <2>2, <2>3
<1>2. i \in Nat /\ j \in Nat
  BY MessageTypes
<1> QED
  BY <1>1, <1>2

(* A transcript in which nothing waits takes a user's message, and one     *)
(* that has begun a reply.                                                 *)
LEMMA TurnsGrow ==
  ASSUME NEW ms \in Seq(Messages), AnswersInOrder(ms), Unanswered(ms) = {},
         NEW m \in Messages, m.role # "tool", ms # <<>> \/ m.role = "user"
  PROVE  /\ AnswersInOrder(Append(ms, m))
         /\ Unanswered(Append(ms, m)) = IF m.role = "assistant" THEN {m.n} \ {0} ELSE {}
<1> DEFINE grown == Append(ms, m)
<1>1. /\ Len(ms) \in Nat /\ DOMAIN ms = 1 .. Len(ms)
      /\ \A i \in DOMAIN ms : ms[i].n \in 0 .. MaxCalls
      /\ MaxCalls \in Nat \ {0} /\ m.n \in 0 .. MaxCalls
  BY MessageTypes DEF Messages
<1>2. /\ Len(grown) = Len(ms) + 1 /\ DOMAIN grown = 1 .. Len(ms) + 1
      /\ \A i \in DOMAIN ms : grown[i] = ms[i]
      /\ grown[Len(ms) + 1] = m
  BY AppendedMessages
<1> HIDE DEF grown
<1>3. ASSUME NEW i \in DOMAIN ms, ms[i].role = "assistant"
      PROVE  i + ms[i].n <= Len(ms)
  <2> SUFFICES ASSUME i + ms[i].n > Len(ms)
               PROVE  FALSE
    BY <1>1
  <2>1. i + ms[i].n - Len(ms) \in 1 .. MaxCalls
    BY <1>1
  <2>2. i + ms[i].n = Len(ms) + (i + ms[i].n - Len(ms))
    BY <1>1
  <2> QED
    BY <1>3, <2>1, <2>2 DEF Unanswered
<1>4. grown # <<>> => grown[1].role = "user"
  <2>1. CASE ms = <<>>
    BY <1>2, <2>1
  <2>2. CASE ms # <<>>
    <3>1. 1 \in DOMAIN ms
      BY <1>1, <2>2, EmptySeq
    <3> QED
      BY <1>2, <2>2, <3>1 DEF AnswersInOrder
  <2> QED
    BY <2>1, <2>2
<1>5. ASSUME NEW i \in DOMAIN grown
      PROVE  /\ grown[i].role = "tool" =>
                  grown[i].n < i /\ grown[i - grown[i].n].role = "assistant"
                    /\ grown[i].n <= grown[i - grown[i].n].n
             /\ grown[i].role = "assistant" =>
                  \A k \in 1 .. grown[i].n :
                    i + k <= Len(grown) => grown[i + k] = [role |-> "tool", n |-> k]
  <2>1. CASE i = Len(ms) + 1
    BY <1>1, <1>2, <2>1
  <2>2. CASE i \in DOMAIN ms
    <3>1. ASSUME ms[i].role = "tool"
          PROVE  ms[i].n < i /\ i - ms[i].n \in DOMAIN ms /\ ms[i - ms[i].n].role = "assistant"
                   /\ ms[i].n <= ms[i - ms[i].n].n
      BY <1>1, <2>2, <3>1 DEF AnswersInOrder
    <3>2. ASSUME ms[i].role = "assistant", NEW k \in 1 .. ms[i].n
          PROVE  i + k \in DOMAIN ms /\ ms[i + k] = [role |-> "tool", n |-> k]
      <4>1. i + k \in DOMAIN ms /\ i + k <= Len(ms)
        BY <1>1, <1>3, <2>2, <3>2
      <4> QED
        BY <2>2, <3>2, <4>1 DEF AnswersInOrder
    <3> QED
      BY <1>2, <2>2, <3>1, <3>2
  <2> QED
    BY <1>1, <1>2, <2>1, <2>2
<1>6. AnswersInOrder(grown)
  BY <1>4, <1>5 DEF AnswersInOrder
<1>7. ASSUME NEW k \in 1 .. MaxCalls, NEW i \in DOMAIN grown, grown[i].role = "assistant",
             i + grown[i].n = Len(grown) + k
      PROVE  m.role = "assistant" /\ k = m.n
  <2>1. i = Len(ms) + 1
    <3> SUFFICES ASSUME i # Len(ms) + 1
                 PROVE  FALSE
      OBVIOUS
    <3>1. i \in DOMAIN ms /\ grown[i] = ms[i]
      BY <1>1, <1>2
    <3> QED
      BY <1>1, <1>2, <1>3, <1>7, <3>1
  <2> QED
    BY <1>1, <1>2, <1>7, <2>1
<1>8. ASSUME m.role = "assistant", m.n # 0
      PROVE  m.n \in Unanswered(grown)
  <2>1. m.n \in 1 .. MaxCalls /\ Len(ms) + 1 \in DOMAIN grown
    BY <1>1, <1>2, <1>8
  <2> QED
    BY <1>1, <1>2, <1>8, <2>1 DEF Unanswered
<1>9. \A k \in Unanswered(grown) : m.role = "assistant" /\ k = m.n /\ k # 0
  BY <1>7 DEF Unanswered
<1>10. Unanswered(grown) = IF m.role = "assistant" THEN {m.n} \ {0} ELSE {}
  BY <1>8, <1>9
<1> QED
  BY <1>6, <1>10 DEF grown

(* A transcript takes the answer to the next of its calls.                 *)
LEMMA AnswersGrow ==
  ASSUME NEW ms \in Seq(Messages), AnswersInOrder(ms),
         NEW rest \in Seq(Calls), rest # <<>>, HasToAnswer(ms, rest)
  PROVE  LET grown == Append(ms, [role |-> "tool", n |-> Head(rest).id])
         IN  AnswersInOrder(grown) /\ HasToAnswer(grown, Tail(rest))
<1> DEFINE m == [role |-> "tool", n |-> Head(rest).id]
           grown == Append(ms, m)
<1>0. /\ Len(rest) \in Nat \ {0} /\ Head(rest) = rest[1] /\ Head(rest) \in Calls
      /\ Head(rest).id \in 1 .. MaxCalls
      /\ Tail(rest) \in Seq(Calls) /\ Len(Tail(rest)) = Len(rest) - 1
      /\ \A k \in 1 .. Len(rest) - 1 : Tail(rest)[k] = rest[k + 1]
  <2>1. Len(rest) \in Nat \ {0}
    BY EmptySeq
  <2>2. /\ Head(rest) \in Calls /\ Tail(rest) \in Seq(Calls) /\ Len(Tail(rest)) = Len(rest) - 1
        /\ \A k \in 1 .. Len(Tail(rest)) : Tail(rest)[k] = rest[k + 1]
    BY HeadTailProperties
  <2>3. \A call \in Calls : call.id \in 1 .. MaxCalls
    BY DEF Calls
  <2>4. Head(rest) = rest[1]
    OBVIOUS
  <2> QED
    BY <2>1, <2>2, <2>3, <2>4
<1>1. /\ Len(ms) \in Nat /\ DOMAIN ms = 1 .. Len(ms)
      /\ \A i \in DOMAIN ms : ms[i].n \in 0 .. MaxCalls
      /\ MaxCalls \in Nat \ {0} /\ m \in Messages
  <2>1. MaxCalls \in Nat \ {0}
    BY BoundsAssumption
  <2>2. m \in Messages
    BY <1>0, <2>1 DEF Messages
  <2> QED
    BY <2>2, MessageTypes
<1>2. /\ Len(grown) = Len(ms) + 1 /\ DOMAIN grown = 1 .. Len(ms) + 1
      /\ \A i \in DOMAIN ms : grown[i] = ms[i]
      /\ grown[Len(ms) + 1] = m
  BY <1>1, AppendedMessages
<1>3. PICK a \in DOMAIN ms :
        /\ ms[a].role = "assistant"
        /\ a + ms[a].n = Len(ms) + Len(rest)
        /\ \A k \in DOMAIN rest : rest[k].id = k + ms[a].n - Len(rest)
  BY DEF HasToAnswer
<1>4. /\ m.role = "tool" /\ m.n = 1 + ms[a].n - Len(rest)
      /\ m.n \in 1 .. ms[a].n /\ a + m.n = Len(ms) + 1 /\ a \in 1 .. Len(ms)
      /\ ms[a].n \in 0 .. MaxCalls
  <2>1. 1 \in DOMAIN rest
    BY <1>0
  <2>2. m.n = 1 + ms[a].n - Len(rest)
    BY <1>0, <1>3, <2>1
  <2>3. a \in 1 .. Len(ms) /\ ms[a].n \in 0 .. MaxCalls /\ m.n \in 1 .. MaxCalls
    BY <1>0, <1>1, <1>3
  <2> HIDE DEF m
  <2>4. m.n \in 1 .. ms[a].n /\ a + m.n = Len(ms) + 1
    BY <1>0, <1>1, <1>3, <2>2, <2>3
  <2> QED
    BY <2>2, <2>3, <2>4 DEF m
<1> HIDE DEF m, grown
<1>5. ASSUME NEW i \in DOMAIN ms, ms[i].role = "assistant", i + ms[i].n > Len(ms)
      PROVE  i = a
  BY <1>0, <1>1, <1>3, <1>5, OneReplyWaits
<1>6. grown # <<>> => grown[1].role = "user"
  BY <1>1, <1>2 DEF AnswersInOrder
<1>7. ASSUME NEW i \in DOMAIN grown
      PROVE  /\ grown[i].role = "tool" =>
                  grown[i].n < i /\ grown[i - grown[i].n].role = "assistant"
                    /\ grown[i].n <= grown[i - grown[i].n].n
             /\ grown[i].role = "assistant" =>
                  \A k \in 1 .. grown[i].n :
                    i + k <= Len(grown) => grown[i + k] = [role |-> "tool", n |-> k]
  <2>1. CASE i = Len(ms) + 1
    <3>1. i - m.n = a /\ m.n < i
      BY <1>1, <1>4, <2>1
    <3>2. grown[i] = m /\ grown[i - m.n] = ms[a] /\ m.n <= ms[a].n
      BY <1>2, <1>4, <2>1, <3>1
    <3> QED
      BY <1>3, <1>4, <3>1, <3>2
  <2>2. CASE i \in DOMAIN ms
    <3>1. ASSUME ms[i].role = "tool"
          PROVE  ms[i].n < i /\ i - ms[i].n \in DOMAIN ms /\ ms[i - ms[i].n].role = "assistant"
                   /\ ms[i].n <= ms[i - ms[i].n].n
      BY <1>1, <2>2, <3>1 DEF AnswersInOrder
    <3>2. ASSUME ms[i].role = "assistant", NEW k \in 1 .. ms[i].n, i + k <= Len(grown)
          PROVE  grown[i + k] = [role |-> "tool", n |-> k]
      <4>1. CASE i + k <= Len(ms)
        <5>1. i + k \in DOMAIN ms
          BY <1>1, <2>2, <4>1
        <5> QED
          BY <1>2, <2>2, <3>2, <4>1, <5>1 DEF AnswersInOrder
      <4>2. CASE i + k = Len(ms) + 1
        <5>1. i = a
          BY <1>1, <1>5, <2>2, <3>2, <4>2
        <5>2. k = m.n
          BY <1>1, <1>4, <4>2, <5>1
        <5> QED
          BY <1>2, <4>2, <5>2 DEF m
      <4> QED
        BY <1>1, <1>2, <2>2, <3>2, <4>1, <4>2
    <3> QED
      BY <1>2, <2>2, <3>1, <3>2
  <2> QED
    BY <1>1, <1>2, <2>1, <2>2
<1>8. AnswersInOrder(grown)
  BY <1>6, <1>7 DEF AnswersInOrder
<1>9. ASSUME NEW k \in 1 .. MaxCalls, NEW i \in DOMAIN grown, grown[i].role = "assistant",
             i + grown[i].n = Len(grown) + k
      PROVE  k = Len(rest) - 1
  <2>1. i \in DOMAIN ms /\ grown[i] = ms[i]
    BY <1>1, <1>2, <1>4, <1>9
  <2>2. i = a
    BY <1>1, <1>2, <1>5, <1>9, <2>1
  <2> QED
    <3>1. a + ms[a].n = Len(ms) + 1 + k
      BY <1>2, <1>9, <2>1, <2>2
    <3>2. ASSUME NEW n, NEW l \in Int, NEW c \in Int, a + n = l + 1 + k, a + n = l + c
          PROVE  k = c - 1
      BY <3>2
    <3>3. Len(ms) \in Int /\ Len(rest) \in Int
      BY <1>0, <1>1
    <3> QED
      BY <1>3, <3>1, <3>2, <3>3
<1>10. a \in DOMAIN grown /\ grown[a] = ms[a] /\ a + ms[a].n = Len(grown) + Len(Tail(rest))
  BY <1>0, <1>1, <1>2, <1>3
<1>11. Len(rest) - 1 # 0 => Len(rest) - 1 \in Unanswered(grown)
  <2>1. Len(rest) - 1 # 0 => Len(rest) - 1 \in 1 .. MaxCalls
    <3>1. a + ms[a].n = Len(ms) + Len(rest)
      BY <1>3
    <3>2. ASSUME NEW n \in 0 .. MaxCalls, NEW l \in Nat, NEW k \in Nat, NEW j \in 1 .. l,
                 j + n = l + k, k - 1 # 0, k # 0
          PROVE  k - 1 \in 1 .. MaxCalls
      BY <1>1, <3>2
    <3>3. ms[a].n \in 0 .. MaxCalls /\ a \in 1 .. Len(ms) /\ Len(ms) \in Nat
      BY <1>1, <1>4
    <3>4. Len(rest) \in Nat /\ Len(rest) # 0
      BY <1>0
    <3> HIDE DEF grown
    <3> QED
      BY <3>1, <3>2, <3>3, <3>4
  <2> QED
    BY <1>0, <1>3, <1>10, <2>1 DEF Unanswered
<1>12. Unanswered(grown) = {Len(Tail(rest))} \ {0}
  <2>1. \A k \in Unanswered(grown) : k = Len(rest) - 1 /\ k # 0
    BY <1>9 DEF Unanswered
  <2> QED
    BY <1>0, <1>11, <2>1
<1>13. \A k \in DOMAIN Tail(rest) : Tail(rest)[k].id = k + ms[a].n - Len(Tail(rest))
  <2>1. ASSUME NEW k \in DOMAIN Tail(rest)
        PROVE  Tail(rest)[k].id = k + ms[a].n - Len(Tail(rest))
    <3>1. k \in 1 .. Len(rest) - 1
      BY <1>0
    <3>2. k + 1 \in DOMAIN rest /\ Tail(rest)[k] = rest[k + 1]
      BY <1>0, <3>1
    <3>3. rest[k + 1].id = (k + 1) + ms[a].n - Len(rest)
      BY <1>3, <3>2
    <3> QED
      <4>1. Len(rest) \in Nat /\ ms[a].n \in Nat /\ k \in Nat /\ Len(Tail(rest)) = Len(rest) - 1
        BY <1>0, <1>4, <3>1
      <4>2. (k + 1) + ms[a].n - Len(rest) = k + ms[a].n - (Len(rest) - 1)
        <5>1. ASSUME NEW n \in Nat, NEW l \in Nat
              PROVE  (k + 1) + n - l = k + n - (l - 1)
          BY <4>1
        <5> QED
          BY <4>1, <5>1
      <4> QED
        BY <3>2, <3>3, <4>1, <4>2
  <2> QED
    BY <2>1
<1>14. HasToAnswer(grown, Tail(rest))
  BY <1>3, <1>10, <1>12, <1>13 DEF HasToAnswer
<1> QED
  BY <1>8, <1>14 DEF grown, m

(* Compaction leaves a transcript in which nothing waits as complete as    *)
(* it was.                                                                 *)
LEMMA CompactedAnswers ==
  ASSUME NEW ms \in Seq(Messages), AnswersInOrder(ms), Unanswered(ms) = {}
  PROVE  /\ AnswersInOrder(Compacted(ms)) /\ Unanswered(Compacted(ms)) = {}
         /\ ms # <<>> => Compacted(ms) # <<>>
<1> DEFINE users == {i \in 1 .. Len(ms) : i > Len(ms) - MaxMessages /\ ms[i].role = "user"}
           f == CHOOSE i \in users : \A j \in users : i <= j
           kept == SubSeq(ms, f, Len(ms))
<1>1. CASE Len(ms) <= MaxMessages \/ users = {}
  BY <1>1 DEF Compacted
<1>2. CASE ~(Len(ms) <= MaxMessages \/ users = {})
  <2>0. Compacted(ms) = kept
    BY <1>2 DEF Compacted
  <2>1. users \in SUBSET Nat /\ users # {}
    BY <1>2
  <2>2. \E i \in users : \A j \in users : i <= j
    <3> HIDE DEF users
    <3> QED
      BY <2>1, Least
  <2>3. f \in users
    BY <2>2
  <2>4. /\ Len(ms) \in Nat /\ DOMAIN ms = 1 .. Len(ms) /\ f \in 1 .. Len(ms)
        /\ ms[f].role = "user" /\ \A i \in DOMAIN ms : ms[i].n \in 0 .. MaxCalls
    BY <2>3, MessageTypes
  <2> HIDE DEF f
  <2>5. /\ kept \in Seq(Messages) /\ Len(kept) = Len(ms) - f + 1
        /\ \A i \in 1 .. Len(ms) - f + 1 : kept[i] = ms[f + i - 1]
    BY <2>4, SubSeqProperties
  <2>6. /\ Len(kept) \in Nat \ {0} /\ DOMAIN kept = 1 .. Len(kept)
        /\ kept[1] = ms[f]
        /\ \A i \in DOMAIN kept : f + i - 1 \in DOMAIN ms /\ kept[i] = ms[f + i - 1] /\ i \in Nat \ {0}
    BY <2>4, <2>5
  <2> HIDE DEF kept
  <2>7. ASSUME NEW i \in DOMAIN kept, kept[i].role = "tool"
        PROVE  kept[i].n < i /\ kept[i - kept[i].n].role = "assistant"
                 /\ kept[i].n <= kept[i - kept[i].n].n
    <3> DEFINE j == f + i - 1
               n == ms[j].n
    <3>1. /\ j \in DOMAIN ms /\ kept[i] = ms[j] /\ n \in Nat /\ n < j /\ j - n \in DOMAIN ms
          /\ ms[j - n].role = "assistant" /\ n <= ms[j - n].n
      <4>1. j \in DOMAIN ms /\ kept[i] = ms[j] /\ n \in 0 .. MaxCalls /\ ms[j].role = "tool"
        BY <2>4, <2>6, <2>7
      <4>2. n < j /\ ms[j - n].role = "assistant" /\ n <= ms[j - n].n
        BY <4>1 DEF AnswersInOrder
      <4>3. MaxCalls \in Nat
        BY BoundsAssumption
      <4>4. n \in Nat /\ j - n \in DOMAIN ms
        BY <2>4, <4>1, <4>2, <4>3
      <4> QED
        BY <4>1, <4>2, <4>4
    <3>2. j - n # f
      BY <2>4, <3>1
    <3>3. ~(j - n < f)
      <4> SUFFICES ASSUME j - n < f
                   PROVE  FALSE
        OBVIOUS
      <4>1. f - (j - n) \in 1 .. ms[j - n].n /\ (j - n) + (f - (j - n)) = f
        <5>1. j \in Nat /\ n \in Nat /\ f \in Nat /\ j - n \in Nat /\ j >= f /\ ms[j - n].n \in Nat
          BY <2>4, <2>6, <3>1
        <5> HIDE DEF j, n
        <5> QED
          BY <3>1, <5>1
      <4>2. ms[f] = [role |-> "tool", n |-> f - (j - n)]
        <5>1. f <= Len(ms)
          BY <2>4
        <5> QED
          BY <3>1, <4>1, <5>1 DEF AnswersInOrder
      <4> QED
        BY <2>4, <4>2
    <3>4. n < i /\ i - n \in DOMAIN kept /\ f + (i - n) - 1 = j - n
      BY <2>4, <2>6, <3>1, <3>2, <3>3
    <3>5. kept[i - n] = ms[j - n]
      BY <2>6, <3>4
    <3> QED
      BY <3>1, <3>4, <3>5
  <2>8. ASSUME NEW i \in DOMAIN kept, kept[i].role = "assistant", NEW k \in 1 .. kept[i].n,
               i + k <= Len(kept)
        PROVE  kept[i + k] = [role |-> "tool", n |-> k]
    <3> DEFINE j == f + i - 1
    <3>1. j \in DOMAIN ms /\ kept[i] = ms[j] /\ ms[j].n \in Nat
      BY <2>4, <2>6
    <3>2. i + k \in DOMAIN kept /\ f + (i + k) - 1 = j + k /\ j + k <= Len(ms)
      BY <2>4, <2>5, <2>6, <2>8, <3>1
    <3>3. ms[j + k] = [role |-> "tool", n |-> k]
      BY <2>8, <3>1, <3>2 DEF AnswersInOrder
    <3> QED
      BY <2>6, <3>2, <3>3
  <2>9. AnswersInOrder(kept)
    BY <2>4, <2>6, <2>7, <2>8 DEF AnswersInOrder
  <2>10. Unanswered(kept) = {}
    <3>0. SUFFICES ASSUME NEW k \in 1 .. MaxCalls, NEW i \in DOMAIN kept,
                          kept[i].role = "assistant", i + kept[i].n = Len(kept) + k
                   PROVE  FALSE
      BY DEF Unanswered
    <3> DEFINE j == f + i - 1
               n == ms[j].n
               l == Len(ms)
    <3>1. j \in DOMAIN ms /\ kept[i] = ms[j] /\ n \in Nat
      BY <2>4, <2>6
    <3>2. j + n = l + k
      <4>1. i + n = l - f + 1 + k
        BY <2>5, <3>0, <3>1
      <4>2. i \in Int /\ f \in Int /\ k \in Int /\ l \in Int /\ n \in Int
        BY <2>4, <2>6, <3>1
      <4> HIDE DEF n, l
      <4> QED
        BY <4>1, <4>2
    <3> QED
      BY <3>0, <3>1, <3>2 DEF Unanswered
  <2>11. kept # <<>>
    BY <2>6, EmptySeq
  <2> QED
    BY <2>0, <2>9, <2>10, <2>11
<1> QED
  BY <1>1, <1>2

LEMMA NothingWaits ==
  ASSUME NEW ms
  PROVE  HasToAnswer(ms, <<>>) <=> Unanswered(ms) = {}
BY EmptySeq DEF HasToAnswer
-----------------------------------------------------------------------------
(* Every step keeps the transcripts answered.                              *)

(* A step that changes neither a transcript nor what waits.                *)
LEMMA QuietSteps ==
  ASSUME RequestsAnswer, SessionsAnswer, UNCHANGED <<messages, pending>>,
         \A q \in Requests :
           /\ pc'[q] \in Holding <=> pc[q] \in Holding
           /\ pc[q] \in Holding => req'[q].session = req[q].session /\ req'[q].queue = req[q].queue
           /\ pc'[q] \notin {"calls", "write"} => req'[q].queue = <<>>
  PROVE  RequestsAnswer' /\ SessionsAnswer'
<1>1. RequestsAnswer'
  BY DEF RequestsAnswer
<1>2. \A s \in Sessions : Locked(s)' <=> Locked(s)
  BY DEF Locked
<1>3. \A s \in Sessions : WaitingCalls(s)' = WaitingCalls(s)
  BY DEF WaitingCalls
<1>4. SessionsAnswer'
  BY <1>2, <1>3 DEF SessionsAnswer
<1> QED
  BY <1>1, <1>4

(* A step of the request that holds session s, or takes or gives up its    *)
(* mutex.                                                                  *)
LEMMA HolderSteps ==
  ASSUME IInv, RequestsAnswer, SessionsAnswer,
         NEW r \in Requests, NEW s \in Sessions, s = req[r].session,
         pc[r] \in Holding \/ ~Locked(s),
         NEW to \in Holding \cup {"idle"}, pc' = [pc EXCEPT ![r] = to],
         \A q \in Requests \ {r} : req'[q] = req[q],
         \A t \in Sessions \ {s} : messages'[t] = messages[t] /\ pending'[t] = pending[t],
         AnswersInOrder(messages'[s]),
         to \notin {"calls", "write"} => req'[r].queue = <<>>,
         to \in Holding => /\ req'[r].session = s
                           /\ messages'[s] # <<>> /\ HasToAnswer(messages'[s], req'[r].queue),
         pending'[s] # Nil =>
           HasToAnswer(messages'[s], <<pending'[s].call>> \o pending'[s].remaining),
         pending'[s] = Nil /\ to = "idle" => HasToAnswer(messages'[s], <<>>)
  PROVE  RequestsAnswer' /\ SessionsAnswer'
<1>1. /\ pc'[r] = to /\ \A q \in Requests \ {r} : pc'[q] = pc[q]
      /\ "idle" \notin Holding
  BY DEF IInv, TypeOK, Holding
<1>2. ASSUME NEW q \in Requests \ {r}, pc[q] \in Holding
      PROVE  req[q].session \in Sessions \ {s}
  <2>1. req[q].session \in Sessions
    BY <1>1, <1>2, SessionOfRequest
  <2> QED
    BY <1>2, <2>1 DEF IInv, HeldByOne, Locked
<1>3. RequestsAnswer'
  <2> SUFFICES ASSUME NEW q \in Requests
               PROVE  /\ pc'[q] \in Holding =>
                           /\ messages'[req'[q].session] # <<>>
                           /\ HasToAnswer(messages'[req'[q].session], req'[q].queue)
                      /\ pc'[q] \notin {"calls", "write"} => req'[q].queue = <<>>
    BY DEF RequestsAnswer
  <2>1. CASE q = r
    BY <1>1, <2>1
  <2>2. CASE q # r
    BY <1>1, <1>2, <2>2 DEF RequestsAnswer
  <2> QED
    BY <2>1, <2>2
<1>4. ASSUME NEW t \in Sessions \ {s}
      PROVE  Locked(t)' <=> Locked(t)
  BY <1>1 DEF Locked
<1>5. ASSUME NEW t \in Sessions \ {s}
      PROVE  /\ AnswersInOrder(messages'[t])
             /\ pending'[t] # Nil => HasToAnswer(messages'[t], WaitingCalls(t)')
             /\ pending'[t] = Nil /\ ~Locked(t)' => HasToAnswer(messages'[t], <<>>)
  <2>1. WaitingCalls(t)' = WaitingCalls(t)
    BY DEF WaitingCalls
  <2> QED
    BY <1>4, <2>1 DEF SessionsAnswer
<1>6. to # "idle" => Locked(s)'
  BY <1>1 DEF Locked
<1>7. /\ AnswersInOrder(messages'[s])
      /\ pending'[s] # Nil => HasToAnswer(messages'[s], WaitingCalls(s)')
      /\ pending'[s] = Nil /\ ~Locked(s)' => HasToAnswer(messages'[s], <<>>)
  BY <1>6 DEF WaitingCalls
<1>8. SessionsAnswer'
  BY <1>5, <1>7 DEF SessionsAnswer
<1> QED
  BY <1>3, <1>8

(* What a request that holds its session, or can take it, knows of it.     *)
LEMMA HolderKnows ==
  ASSUME IInv, RequestsAnswer, SessionsAnswer, NEW r \in Requests, pc[r] # "idle"
  PROVE  LET s == req[r].session IN
         /\ s \in Sessions /\ messages[s] \in Seq(Messages) /\ AnswersInOrder(messages[s])
         /\ req[r].queue \in Seq(Calls)
         /\ pc[r] \in Holding =>
              messages[s] # <<>> /\ HasToAnswer(messages[s], req[r].queue) /\ pending[s] = Nil
         /\ pc[r] \notin {"calls", "write"} => req[r].queue = <<>>
         /\ pc[r] \in Holding /\ pc[r] \notin {"calls", "write"} => Unanswered(messages[s]) = {}
         /\ ~Locked(s) /\ pending[s] = Nil => Unanswered(messages[s]) = {}
         /\ ~Locked(s) /\ pending[s] # Nil => HasToAnswer(messages[s], WaitingCalls(s))
BY SessionOfRequest, NothingWaits DEF RequestsAnswer, SessionsAnswer, IInv, HeldByOne

LEMMA FailsAnswers ==
  ASSUME IInv, RequestsAnswer, SessionsAnswer, NEW r \in Requests, NEW from \in {"model", "final"},
         NEW grown \in Seq(Messages), AnswersInOrder(grown), Unanswered(grown) = {}, grown # <<>>,
         Fails(r, from, grown), UNCHANGED pending
  PROVE  RequestsAnswer' /\ SessionsAnswer'
<1> DEFINE s == req[r].session
<1>1. pc[r] = from /\ pc[r] # "idle" /\ pc[r] \in Holding /\ pc[r] \notin {"calls", "write"}
  BY DEF Fails, Go, Holding
<1>2. s \in Sessions /\ pending[s] = Nil /\ req[r].queue = <<>>
  BY <1>1, HolderKnows
<1>3. AnswersInOrder(Compacted(grown)) /\ HasToAnswer(Compacted(grown), <<>>)
      /\ HasToAnswer(grown, <<>>)
  BY CompactedAnswers, NothingWaits
<1>4. messages \in [Sessions -> Seq(Messages)] /\ req \in [Requests -> RequestStates]
  BY DEF IInv, TypeOK
<1>5. CASE /\ Go(r, from, "failed")
           /\ messages' = [messages EXCEPT ![s] = grown]
           /\ UNCHANGED req
  BY <1>1, <1>2, <1>3, <1>4, <1>5, HolderSteps DEF Go, Holding
<1>6. ASSUME Go(r, from, "idle"), End(r), NEW ms \in {grown, Compacted(grown)},
             messages' = [messages EXCEPT ![s] = ms]
      PROVE  RequestsAnswer' /\ SessionsAnswer'
  <2>1. req'[r].queue = <<>> /\ \A q \in Requests \ {r} : req'[q] = req[q]
    BY <1>4, <1>6 DEF End, NoRequest, Request
  <2> QED
    BY <1>1, <1>2, <1>3, <1>4, <1>6, <2>1, HolderSteps DEF Go, Holding
<1> QED
  BY <1>5, <1>6 DEF Fails

(* The call at the head of the queue is answered.                          *)
LEMMA AnsweredAnswers ==
  ASSUME IInv, RequestsAnswer, SessionsAnswer, NEW r \in Requests, pc[r] \in {"calls", "write"},
         req[r].queue # <<>>, Answered(r), pc' = [pc EXCEPT ![r] = "calls"], UNCHANGED pending
  PROVE  RequestsAnswer' /\ SessionsAnswer'
<1> DEFINE s == req[r].session
           m == [role |-> "tool", n |-> Head(req[r].queue).id]
<1>1. pc[r] # "idle" /\ pc[r] \in Holding
  BY DEF Holding
<1>2. /\ s \in Sessions /\ pending[s] = Nil
      /\ messages[s] \in Seq(Messages) /\ AnswersInOrder(messages[s])
      /\ req[r].queue \in Seq(Calls) /\ HasToAnswer(messages[s], req[r].queue)
  BY <1>1, HolderKnows
<1>3. /\ AnswersInOrder(Append(messages[s], m))
      /\ HasToAnswer(Append(messages[s], m), Tail(req[r].queue))
  BY <1>2, AnswersGrow
<1>4. messages \in [Sessions -> Seq(Messages)] /\ req \in [Requests -> RequestStates]
  BY DEF IInv, TypeOK
<1>5. Append(messages[s], m) # <<>>
  <2>1. Head(req[r].queue) \in Calls
    BY <1>2, HeadTailProperties
  <2>2. m \in Messages
    BY <2>1, BoundsAssumption DEF Calls, Messages
  <2> QED
    BY <1>2, <2>2, AppendedMessages
<1>6. /\ req'[r].queue = Tail(req[r].queue) /\ req'[r].session = s
      /\ \A q \in Requests \ {r} : req'[q] = req[q]
  BY <1>4 DEF Answered, RequestStates
<1>7. messages'[s] = Append(messages[s], m)
      /\ \A t \in Sessions \ {s} : messages'[t] = messages[t]
  BY <1>2, <1>4 DEF Answered, Say
<1> QED
  BY <1>1, <1>2, <1>3, <1>5, <1>6, <1>7, HolderSteps DEF Holding

LEMMA NextAnswers ==
  ASSUME IInv, RequestsAnswer, SessionsAnswer, [Next]_vars
  PROVE  RequestsAnswer' /\ SessionsAnswer'
<1>0. /\ messages \in [Sessions -> Seq(Messages)] /\ pending \in [Sessions -> PendingStates \cup {Nil}]
      /\ req \in [Requests -> RequestStates] /\ pc \in [Requests -> Locations]
  BY DEF IInv, TypeOK
<1>i. IInv'
  BY NextIInv
<1>h. Holding = {"model", "calls", "write", "final", "failed"}
  BY DEF Holding
(* A message that is no answer, where nothing waits.                       *)
<1>m. ASSUME NEW ms \in Seq(Messages), AnswersInOrder(ms), Unanswered(ms) = {},
             NEW role \in {"user", "assistant", "blank"}, NEW n \in 0 .. MaxCalls,
             ms # <<>> \/ role = "user"
      PROVE  LET grown == Append(ms, [role |-> role, n |-> n]) IN
             /\ grown \in Seq(Messages) /\ grown # <<>> /\ AnswersInOrder(grown)
             /\ Unanswered(grown) = IF role = "assistant" THEN {n} \ {0} ELSE {}
  <2>1. [role |-> role, n |-> n] \in Messages
    BY DEF Messages
  <2>2. /\ Append(ms, [role |-> role, n |-> n]) \in Seq(Messages)
        /\ Append(ms, [role |-> role, n |-> n]) # <<>>
    BY <2>1, AppendedMessages
  <2> QED
    BY <1>m, <2>1, <2>2, TurnsGrow
<1>1. ASSUME NEW r \in Requests, Arrivals(r)
      PROVE  RequestsAnswer' /\ SessionsAnswer'
  <2>1. /\ pc[r] = "idle" /\ pc'[r] \in {"turn", "resolve"}
        /\ \A q \in Requests \ {r} : pc'[q] = pc[q] /\ req'[q] = req[q]
        /\ req'[r].queue = <<>> /\ UNCHANGED <<messages, pending>>
    <3>1. ASSUME NEW s, NEW fresh, NEW a, NEW answer,
                 req' = [req EXCEPT ![r] = Request(s, fresh, a, answer)]
          PROVE  req'[r].queue = <<>> /\ \A q \in Requests \ {r} : req'[q] = req[q]
      BY <1>0, <3>1 DEF Request
    <3>2. ASSUME NEW to, Go(r, "idle", to)
          PROVE  pc[r] = "idle" /\ pc'[r] = to /\ \A q \in Requests \ {r} : pc'[q] = pc[q]
      BY <1>0, <3>2 DEF Go
    <3>3. \E s, fresh, a, answer : req' = [req EXCEPT ![r] = Request(s, fresh, a, answer)]
      BY <1>1 DEF Arrivals, TurnOfNewSession, TurnOfKnownSession, AnswerArrives
    <3>4. /\ Go(r, "idle", "turn") \/ Go(r, "idle", "resolve")
          /\ UNCHANGED <<messages, pending>>
      BY <1>1 DEF Arrivals, TurnOfNewSession, TurnOfKnownSession, AnswerArrives
    <3>5. req'[r].queue = <<>> /\ \A q \in Requests \ {r} : req'[q] = req[q]
      <4>1. PICK s, fresh, a, answer : req' = [req EXCEPT ![r] = Request(s, fresh, a, answer)]
        BY <3>3
      <4> QED
        BY <3>1, <4>1
    <3>6. PICK to \in {"turn", "resolve"} : Go(r, "idle", to)
      BY <3>4
    <3>7. pc[r] = "idle" /\ pc'[r] = to /\ \A q \in Requests \ {r} : pc'[q] = pc[q]
      BY <3>2, <3>6
    <3> QED
      BY <3>4, <3>5, <3>7
  <2> QED
    BY <1>h, <2>1, QuietSteps DEF RequestsAnswer
<1>2. ASSUME NEW r \in Requests, TurnRejected(r) \/ AnswerRejected(r)
      PROVE  RequestsAnswer' /\ SessionsAnswer'
  <2>1. /\ pc[r] \notin Holding /\ pc'[r] = "idle"
        /\ \A q \in Requests \ {r} : pc'[q] = pc[q] /\ req'[q] = req[q]
        /\ req'[r].queue = <<>> /\ UNCHANGED <<messages, pending>>
    BY <1>0, <1>2, <1>h DEF TurnRejected, AnswerRejected, Go, End, NoRequest, Request
  <2> QED
    BY <1>h, <2>1, QuietSteps DEF RequestsAnswer
<1>3. ASSUME NEW r \in Requests, CallsDone(r)
      PROVE  RequestsAnswer' /\ SessionsAnswer'
  <2>1. /\ pc[r] \in Holding /\ pc'[r] \in {"model", "final"} /\ req[r].queue = <<>>
        /\ \A q \in Requests \ {r} : pc'[q] = pc[q]
        /\ UNCHANGED <<req, messages, pending>>
    BY <1>0, <1>3, <1>h DEF CallsDone, Go
  <2> QED
    BY <1>h, <2>1, QuietSteps DEF RequestsAnswer
<1>4. ASSUME UNCHANGED <<pc, req, messages, pending>>
      PROVE  RequestsAnswer' /\ SessionsAnswer'
  BY <1>4, QuietSteps DEF RequestsAnswer
<1>5. ASSUME NEW r \in Requests, TurnBegins(r)
      PROVE  RequestsAnswer' /\ SessionsAnswer'
  <2> DEFINE s == req[r].session
             grown == Append(messages[s], [role |-> "user", n |-> 0])
  <2>1. /\ s \in Sessions /\ messages[s] \in Seq(Messages) /\ AnswersInOrder(messages[s])
        /\ Unanswered(messages[s]) = {} /\ req[r].queue = <<>>
    BY <1>5, HolderKnows DEF TurnBegins, Go
  <2>2. grown # <<>> /\ AnswersInOrder(grown) /\ HasToAnswer(grown, <<>>)
    BY <1>m, <2>1, NothingWaits, BoundsAssumption
  <2>3. messages'[s] = grown /\ \A t \in Sessions \ {s} : messages'[t] = messages[t]
    BY <1>0, <1>5, <2>1 DEF TurnBegins, Say
  <2> HIDE DEF grown
  <2> QED
    BY <1>5, <1>h, <2>1, <2>2, <2>3, HolderSteps DEF TurnBegins, Go
<1>6. ASSUME NEW r \in Requests, Approved(r)
      PROVE  RequestsAnswer' /\ SessionsAnswer'
  <2> DEFINE s == req[r].session
  <2>1. /\ s \in Sessions /\ AnswersInOrder(messages[s]) /\ HasToAnswer(messages[s], WaitingCalls(s))
    BY <1>6, HolderKnows DEF Approved, Go, Matches
  <2>2. messages[s] # <<>>
    <3>1. <<pending[s].call>> \o pending[s].remaining # <<>>
      BY <1>0, <1>6, <2>1 DEF Approved, Matches, PendingStates
    <3>2. DOMAIN messages[s] # {}
      BY <2>1, <3>1 DEF HasToAnswer, WaitingCalls
    <3> QED
      BY <3>2
  <2>3. /\ req'[r].queue = WaitingCalls(s) /\ req'[r].session = s
        /\ \A q \in Requests \ {r} : req'[q] = req[q]
        /\ pending'[s] = Nil /\ \A t \in Sessions \ {s} : pending'[t] = pending[t]
        /\ messages' = messages
    BY <1>0, <1>6, <2>1 DEF Approved, RequestStates, WaitingCalls
  <2>4. ~Locked(s) /\ pc' = [pc EXCEPT ![r] = "write"]
    BY <1>6 DEF Approved, Go
  <2> QED
    BY <1>h, <2>1, <2>2, <2>3, <2>4, HolderSteps
<1>7. ASSUME NEW r \in Requests, Denied(r)
      PROVE  RequestsAnswer' /\ SessionsAnswer'
  <2> DEFINE s == req[r].session
             rest == WaitingCalls(s)
             grown == Append(messages[s], [role |-> "tool", n |-> pending[s].call.id])
  <2>1. /\ s \in Sessions /\ messages[s] \in Seq(Messages) /\ AnswersInOrder(messages[s])
        /\ HasToAnswer(messages[s], rest) /\ pending[s] \in PendingStates
    BY <1>0, <1>7, HolderKnows DEF Denied, Go, Matches
  <2>2. /\ pending[s].call \in Calls /\ pending[s].remaining \in Seq(Calls)
    BY <2>1 DEF PendingStates
  <2>3. /\ rest \in Seq(Calls) /\ rest # <<>>
        /\ Head(rest) = pending[s].call /\ Tail(rest) = pending[s].remaining
    BY <2>2 DEF WaitingCalls
  <2>4. AnswersInOrder(grown) /\ HasToAnswer(grown, pending[s].remaining)
    <3> HIDE DEF rest
    <3> QED
      BY <2>1, <2>3, AnswersGrow
  <2>5. grown # <<>>
    <3>1. [role |-> "tool", n |-> pending[s].call.id] \in Messages
      BY <2>2, BoundsAssumption DEF Calls, Messages
    <3> QED
      BY <2>1, <3>1, AppendedMessages
  <2>6. /\ req'[r].queue = pending[s].remaining /\ req'[r].session = s
        /\ \A q \in Requests \ {r} : req'[q] = req[q]
        /\ pending'[s] = Nil /\ \A t \in Sessions \ {s} : pending'[t] = pending[t]
    BY <1>0, <1>7, <2>1 DEF Denied, RequestStates
  <2>7. messages'[s] = grown /\ \A t \in Sessions \ {s} : messages'[t] = messages[t]
    BY <1>0, <1>7, <2>1 DEF Denied, Say
  <2>8. ~Locked(s) /\ pc' = [pc EXCEPT ![r] = "calls"]
    BY <1>7 DEF Denied, Go
  <2> HIDE DEF grown
  <2> QED
    BY <1>h, <2>1, <2>4, <2>5, <2>6, <2>7, <2>8, HolderSteps
<1>8. ASSUME NEW r \in Requests,
             ModelFails(r) \/ ModelSaysNothing(r) \/ FinalCancelled(r)
      PROVE  RequestsAnswer' /\ SessionsAnswer'
  <2> DEFINE s == req[r].session
             blank == Append(messages[s], [role |-> "blank", n |-> 0])
  <2>1. pc[r] \in {"model", "final"}
    BY <1>8 DEF ModelFails, ModelSaysNothing, FinalCancelled, Fails, Go
  <2>2. /\ s \in Sessions /\ messages[s] \in Seq(Messages) /\ AnswersInOrder(messages[s])
        /\ messages[s] # <<>> /\ Unanswered(messages[s]) = {}
    BY <1>h, <2>1, HolderKnows
  <2>3. blank \in Seq(Messages) /\ blank # <<>> /\ AnswersInOrder(blank) /\ Unanswered(blank) = {}
    BY <1>m, <2>2, BoundsAssumption
  <2> HIDE DEF blank
  <2>4. /\ UNCHANGED pending
        /\ \E from \in {"model", "final"} : Fails(r, from, messages[s]) \/ Fails(r, from, blank)
    BY <1>8 DEF ModelFails, ModelSaysNothing, FinalCancelled, blank
  <2> QED
    BY <2>2, <2>3, <2>4, FailsAnswers
<1>9. ASSUME NEW r \in Requests,
             ModelAnswers(r, "model") \/ ModelAnswers(r, "final") \/ FinalFallback(r)
      PROVE  RequestsAnswer' /\ SessionsAnswer'
  <2> DEFINE s == req[r].session
             reply == Append(messages[s], [role |-> "assistant", n |-> 0])
  <2>1. pc[r] \in {"model", "final"} /\ pc' = [pc EXCEPT ![r] = "idle"]
    BY <1>9 DEF ModelAnswers, FinalFallback, Go
  <2>2. /\ s \in Sessions /\ messages[s] \in Seq(Messages) /\ AnswersInOrder(messages[s])
        /\ messages[s] # <<>> /\ Unanswered(messages[s]) = {} /\ pending[s] = Nil
    BY <1>h, <2>1, HolderKnows
  <2>3. reply \in Seq(Messages) /\ AnswersInOrder(reply) /\ Unanswered(reply) = {}
    BY <1>m, <2>2, BoundsAssumption
  <2> HIDE DEF reply
  <2>4. /\ UNCHANGED pending
        /\ \E ms \in {messages[s], reply} : messages' = [messages EXCEPT ![s] = Compacted(ms)]
    BY <1>9 DEF ModelAnswers, FinalFallback, reply
  <2>5. AnswersInOrder(messages'[s]) /\ HasToAnswer(messages'[s], <<>>)
        /\ \A t \in Sessions \ {s} : messages'[t] = messages[t]
    BY <1>0, <2>2, <2>3, <2>4, CompactedAnswers, NothingWaits
  <2>6. req'[r].queue = <<>> /\ \A q \in Requests \ {r} : req'[q] = req[q]
    BY <1>0, <1>9 DEF ModelAnswers, FinalFallback, End, NoRequest, Request
  <2> QED
    BY <1>h, <2>1, <2>2, <2>4, <2>5, <2>6, HolderSteps
<1>10. ASSUME NEW r \in Requests, NEW kinds \in KindLists, ModelCalls(r, kinds)
       PROVE  RequestsAnswer' /\ SessionsAnswer'
  <2> DEFINE s == req[r].session
             reply == Append(messages[s], [role |-> "assistant", n |-> Len(kinds)])
             queue == [i \in DOMAIN kinds |-> [id |-> i, kind |-> kinds[i]]]
  <2>1. pc[r] = "model" /\ pc' = [pc EXCEPT ![r] = "calls"] /\ UNCHANGED pending
    BY <1>10 DEF ModelCalls, Go
  <2>2. /\ s \in Sessions /\ messages[s] \in Seq(Messages) /\ AnswersInOrder(messages[s])
        /\ messages[s] # <<>> /\ Unanswered(messages[s]) = {} /\ pending[s] = Nil
    BY <1>h, <2>1, HolderKnows
  <2>3. PICK n \in 1 .. MaxCalls : kinds \in [1 .. n -> Kinds]
    BY DEF KindLists
  <2>4. /\ Len(kinds) = n /\ DOMAIN kinds = 1 .. n /\ n \in 0 .. MaxCalls /\ n # 0 /\ n \in Nat
        /\ MaxCalls \in Nat
    BY <2>3, BoundsAssumption
  <2>5. /\ reply \in Seq(Messages) /\ reply # <<>> /\ AnswersInOrder(reply)
        /\ Unanswered(reply) = {n}
    BY <1>m, <2>2, <2>4
  <2>6. /\ Len(queue) = n /\ DOMAIN queue = 1 .. n /\ \A k \in 1 .. n : queue[k].id = k
    BY <2>4
  <2>7. /\ Len(messages[s]) \in Nat /\ Len(reply) = Len(messages[s]) + 1
        /\ DOMAIN reply = 1 .. Len(messages[s]) + 1
        /\ reply[Len(messages[s]) + 1] = [role |-> "assistant", n |-> n]
    <3>1. [role |-> "assistant", n |-> n] \in Messages
      BY <2>4 DEF Messages
    <3> QED
      BY <2>2, <2>4, <3>1, AppendedMessages
  <2> HIDE DEF reply, queue
  <2>8. HasToAnswer(reply, queue)
    <3> DEFINE i == Len(messages[s]) + 1
    <3>1. i \in DOMAIN reply /\ reply[i].role = "assistant" /\ reply[i].n = n
      BY <2>7
    <3>2. i + n = Len(reply) + Len(queue)
      BY <2>6, <2>7
    <3>3. \A k \in DOMAIN queue : queue[k].id = k + n - Len(queue)
      BY <2>4, <2>6
    <3> HIDE DEF i
    <3> QED
      BY <2>4, <2>5, <2>6, <3>1, <3>2, <3>3 DEF HasToAnswer
  <2>9. messages'[s] = reply /\ \A t \in Sessions \ {s} : messages'[t] = messages[t]
    BY <1>0, <1>10, <2>2 DEF ModelCalls, Say, reply
  <2>10. /\ req'[r].queue = queue /\ req'[r].session = s
         /\ \A q \in Requests \ {r} : req'[q] = req[q]
    BY <1>0, <1>10 DEF ModelCalls, RequestStates, queue
  <2> QED
    BY <1>h, <2>1, <2>2, <2>5, <2>8, <2>9, <2>10, HolderSteps
<1>11. ASSUME NEW r \in Requests, CallRefused(r) \/ CallRuns(r) \/ WriteEnds(r)
       PROVE  RequestsAnswer' /\ SessionsAnswer'
  <2>1. /\ pc[r] \in {"calls", "write"} /\ pc' = [pc EXCEPT ![r] = "calls"]
        /\ Answered(r) /\ UNCHANGED pending
    BY <1>0, <1>11 DEF CallRefused, CallRuns, WriteEnds, Go
  <2>2. req[r].queue # <<>>
    BY <1>11 DEF CallRefused, CallRuns, WriteEnds, Go, IInv, RequestsAreReady
  <2> QED
    BY <2>1, <2>2, AnsweredAnswers
<1>12. ASSUME NEW r \in Requests, CallWaits(r)
       PROVE  RequestsAnswer' /\ SessionsAnswer'
  <2> DEFINE s == req[r].session
             queue == req[r].queue
  <2>1. pc[r] = "calls" /\ pc' = [pc EXCEPT ![r] = "idle"] /\ messages' = messages /\ queue # <<>>
    BY <1>12 DEF CallWaits, Go
  <2>2. /\ s \in Sessions /\ AnswersInOrder(messages[s])
        /\ queue \in Seq(Calls) /\ HasToAnswer(messages[s], queue)
    BY <1>h, <2>1, HolderKnows
  <2>3. PICK a \in Approvals :
          pending' = [pending EXCEPT ![s] = [approval |-> a, call |-> Head(queue),
                                             remaining |-> Tail(queue)]]
    BY <1>12 DEF CallWaits
  <2>4. /\ pending'[s].call = Head(queue) /\ pending'[s].remaining = Tail(queue)
        /\ \A t \in Sessions \ {s} : pending'[t] = pending[t]
    BY <1>0, <2>2, <2>3
  <2>5. pending'[s] # Nil
    <3>1. Head(queue) \in Calls /\ Tail(queue) \in Seq(Calls)
      BY <2>1, <2>2, HeadTailProperties
    <3>2. pending'[s] \in PendingStates
      BY <1>0, <2>2, <2>3, <3>1 DEF PendingStates
    <3> QED
      BY <3>2, NilAssumption
  <2>6. <<Head(queue)>> \o Tail(queue) = queue
    <3> HIDE DEF queue
    <3> QED
      BY <2>1, <2>2
  <2>7. req'[r].queue = <<>> /\ \A q \in Requests \ {r} : req'[q] = req[q]
    BY <1>0, <1>12 DEF CallWaits, End, NoRequest, Request
  <2>8. HasToAnswer(messages'[s], <<pending'[s].call>> \o pending'[s].remaining)
    BY <2>1, <2>2, <2>4, <2>6
  <2>9. pc[r] \in Holding /\ "idle" \notin Holding
    BY <1>h, <2>1
  <2> QED
    BY <2>1, <2>2, <2>4, <2>5, <2>7, <2>8, <2>9, HolderSteps
<1>13. ASSUME NEW r \in Requests, DropFailed(r)
       PROVE  RequestsAnswer' /\ SessionsAnswer'
  <2> DEFINE s == req[r].session
  <2>1. /\ pc[r] = "failed" /\ pc' = [pc EXCEPT ![r] = "idle"]
        /\ UNCHANGED <<messages, pending>>
    BY <1>13 DEF DropFailed, Go
  <2>2. /\ s \in Sessions /\ AnswersInOrder(messages[s]) /\ pending[s] = Nil
        /\ HasToAnswer(messages[s], <<>>)
    BY <1>h, <2>1, HolderKnows, NothingWaits
  <2>3. req'[r].queue = <<>> /\ \A q \in Requests \ {r} : req'[q] = req[q]
    BY <1>0, <1>13 DEF DropFailed, End, NoRequest, Request
  <2> QED
    BY <1>h, <2>1, <2>2, <2>3, HolderSteps
<1>14. ASSUME (\E s \in Sessions : Reset(s)) \/ FindNothing \/ UNCHANGED vars
       PROVE  UNCHANGED <<pc, req, messages, pending>>
  BY <1>14 DEF Reset, FindNothing, vars
<1> QED
  BY <1>1, <1>2, <1>3, <1>4, <1>5, <1>6, <1>7, <1>8, <1>9, <1>10, <1>11, <1>12, <1>13, <1>14
  DEF Next, Locks, Works

LEMMA InitAnswers == Init => RequestsAnswer /\ SessionsAnswer
<1> SUFFICES ASSUME Init
             PROVE  RequestsAnswer /\ SessionsAnswer
  OBVIOUS
<1>1. AnswersInOrder(<<>>) /\ Unanswered(<<>>) = {}
  BY DEF AnswersInOrder, Unanswered
<1> QED
  BY <1>1, NothingWaits
  DEF Init, RequestsAnswer, SessionsAnswer, NoRequest, Request, Holding

(* What waits for an answer is what the control state still owes.          *)
LEMMA AnswersAreOwed ==
  ASSUME IInv, RequestsAnswer, SessionsAnswer
  PROVE  TranscriptIsAccounted
<1> SUFFICES ASSUME NEW s \in Sessions
             PROVE  AnswersInOrder(messages[s]) /\ Unanswered(messages[s]) = Owed(s)
  BY DEF TranscriptIsAccounted
<1> DEFINE holders == {q \in Requests : req[q].session = s /\ pc[q] \in Holding
                                          /\ req[q].queue # <<>>}
<1>1. AnswersInOrder(messages[s])
  BY DEF SessionsAnswer
<1>2. CASE pending[s] # Nil
  <2>1. holders = {}
    BY <1>2 DEF IInv, HeldByOne
  <2>2. pending[s].call \in Calls /\ pending[s].remaining \in Seq(Calls)
    BY <1>2 DEF IInv, TypeOK, PendingStates
  <2>3. Len(WaitingCalls(s)) = 1 + Len(pending[s].remaining)
        /\ Len(pending[s].remaining) \in Nat
    BY <2>2 DEF WaitingCalls
  <2>4. Unanswered(messages[s]) = {Len(WaitingCalls(s))} \ {0}
    BY <1>2 DEF SessionsAnswer, HasToAnswer
  <2> QED
    BY <1>1, <1>2, <2>1, <2>3, <2>4 DEF Owed
<1>3. CASE pending[s] = Nil /\ ~Locked(s)
  <2>1. holders = {}
    BY <1>3 DEF Locked
  <2>2. Unanswered(messages[s]) = {}
    BY <1>3, NothingWaits DEF SessionsAnswer
  <2> QED
    BY <1>1, <1>3, <2>1, <2>2 DEF Owed
<1>4. CASE pending[s] = Nil /\ Locked(s)
  <2>1. PICK r \in Requests : req[r].session = s /\ pc[r] \in Holding
    BY <1>4 DEF Locked
  <2>2. holders = IF req[r].queue # <<>> THEN {r} ELSE {}
    BY <2>1 DEF IInv, HeldByOne
  <2>3. Unanswered(messages[s]) = {Len(req[r].queue)} \ {0} /\ req[r].queue \in Seq(Calls)
    BY <2>1 DEF RequestsAnswer, HasToAnswer, IInv, TypeOK, RequestStates
  <2>4. req[r].queue # <<>> <=> Len(req[r].queue) # 0
    BY <2>3, EmptySeq
  <2> QED
    BY <1>1, <1>4, <2>2, <2>3, <2>4 DEF Owed
<1> QED
  BY <1>2, <1>3, <1>4

THEOREM TranscriptInvariance == Spec => []TranscriptIInv
<1>1. Init => TranscriptIInv
  BY InitIInv, InitAnswers DEF TranscriptIInv
<1>2. TranscriptIInv /\ [Next]_vars => TranscriptIInv'
  BY NextIInv, NextAnswers DEF TranscriptIInv
<1> QED
  BY <1>1, <1>2, PTL DEF Spec

(* Whatever a session has been through, its transcript begins with a       *)
(* user's message, each tool message answers its call in order, and the    *)
(* calls without an answer are those the engine still holds.               *)
THEOREM TranscriptsAreAccounted == Spec => []TranscriptIsAccounted
<1>1. TranscriptIInv => TranscriptIsAccounted
  BY AnswersAreOwed DEF TranscriptIInv
<1> QED
  BY <1>1, TranscriptInvariance, PTL

-----------------------------------------------------------------------------
(* What the model's services are sent.                                     *)

(* The calls of a reply are numbered from 1 on.                            *)
LEMMA CallsAreNumbered ==
  ASSUME NEW reply \in Seq(Items)
  PROVE  LET n == Cardinality(CallPlaces(reply)) IN
         /\ n \in Nat
         /\ \A j \in CallPlaces(reply) : CallNumber(reply, j) \in 1 .. n
         /\ \A i, j \in CallPlaces(reply) : CallNumber(reply, i) = CallNumber(reply, j) => i = j
         /\ \A k \in 1 .. n : \E j \in CallPlaces(reply) : CallNumber(reply, j) = k
<1> DEFINE calls == CallPlaces(reply)
           n == Cardinality(calls)
           upTo(j) == {i \in calls : i <= j}
           f == [j \in calls |-> CallNumber(reply, j)]
<1>1. Len(reply) \in Nat /\ calls \subseteq 1 .. Len(reply)
  BY DEF CallPlaces
<1>2. IsFiniteSet(calls) /\ n \in Nat
  <2>1. IsFiniteSet(1 .. Len(reply))
    BY <1>1, FS_Interval
  <2> QED
    BY <1>1, <2>1, FS_Subset, FS_CardinalityType
<1>3. ASSUME NEW j \in calls
      PROVE  /\ IsFiniteSet(upTo(j)) /\ CallNumber(reply, j) = Cardinality(upTo(j))
             /\ CallNumber(reply, j) \in 1 .. n
  <2>1. upTo(j) \subseteq calls /\ j \in upTo(j)
    BY <1>1
  <2>2. IsFiniteSet(upTo(j)) /\ Cardinality(upTo(j)) <= n /\ Cardinality(upTo(j)) \in Nat
    BY <1>2, <2>1, FS_Subset, FS_CardinalityType
  <2>3. Cardinality(upTo(j)) # 0
    BY <2>1, <2>2, FS_EmptySet
  <2>4. CallNumber(reply, j) = Cardinality(upTo(j))
    BY DEF CallNumber
  <2> QED
    BY <1>2, <2>2, <2>3, <2>4
<1>4. ASSUME NEW i \in calls, NEW j \in calls, i < j
      PROVE  CallNumber(reply, i) # CallNumber(reply, j)
  <2>1. upTo(i) \subseteq upTo(j) \ {j} /\ j \in upTo(j)
    BY <1>1, <1>4
  <2>2. IsFiniteSet(upTo(j) \ {j}) /\ Cardinality(upTo(j) \ {j}) = Cardinality(upTo(j)) - 1
    BY <1>3, <2>1, FS_RemoveElement
  <2>3. Cardinality(upTo(i)) <= Cardinality(upTo(j)) - 1
    BY <2>1, <2>2, FS_Subset
  <2>4. CallNumber(reply, i) = Cardinality(upTo(i)) /\ CallNumber(reply, j) = Cardinality(upTo(j))
        /\ CallNumber(reply, i) \in Nat /\ CallNumber(reply, j) \in Nat
    <3>1. \A k \in 1 .. n : k \in Nat
      BY <1>2
    <3> QED
      BY <1>3, <3>1
  <2> QED
    BY <2>3, <2>4
<1>5. \A i, j \in calls : CallNumber(reply, i) = CallNumber(reply, j) => i = j
  BY <1>1, <1>4
<1>6. f \in Injection(calls, 1 .. n)
  <2>1. f \in [calls -> 1 .. n]
    BY <1>3
  <2> QED
    BY <1>5, <2>1 DEF Injection, IsInjective
<1>7. IsFiniteSet(1 .. n) /\ Cardinality(1 .. n) = n
  BY <1>2, FS_Interval
<1>8. f \in Surjection(calls, 1 .. n)
  BY <1>6, <1>7, FS_Injection
<1>9. \A k \in 1 .. n : \E j \in calls : CallNumber(reply, j) = k
  BY <1>8 DEF Surjection
<1> QED
  BY <1>2, <1>3, <1>5, <1>9

LEMMA ToolCallsAreCounted ==
  ASSUME NEW reply \in Seq(Items)
  PROVE  /\ Len(ToolCalls(reply)) = Cardinality(CallPlaces(reply))
         /\ DOMAIN ToolCalls(reply) = 1 .. Len(ToolCalls(reply))
<1> DEFINE id(i) == Identifier(reply[CHOOSE j \in CallPlaces(reply) : CallNumber(reply, j) = i])
<1>1. PICK n \in Nat : n = Cardinality(CallPlaces(reply))
  BY CallsAreNumbered
<1>2. ToolCalls(reply) = [i \in 1 .. n |-> id(i)]
  BY <1>1 DEF ToolCalls
<1> HIDE DEF id
<1> QED
  BY <1>1, <1>2

(* The identifier of the k-th call is the one its item names.              *)
LEMMA CallsAreNamed ==
  ASSUME NEW reply \in Seq(Items), NEW j \in CallPlaces(reply)
  PROVE  /\ CallNumber(reply, j) \in 1 .. Len(ToolCalls(reply))
         /\ ToolCalls(reply)[CallNumber(reply, j)] = Identifier(reply[j])
<1> DEFINE k == CallNumber(reply, j)
<1>1. k \in 1 .. Cardinality(CallPlaces(reply)) /\ Cardinality(CallPlaces(reply)) \in Nat
  BY CallsAreNumbered
<1>2. (CHOOSE i \in CallPlaces(reply) : CallNumber(reply, i) = k) = j
  BY CallsAreNumbered
<1>3. Len(ToolCalls(reply)) = Cardinality(CallPlaces(reply))
  BY ToolCallsAreCounted
<1>4. ToolCalls(reply)[k] = Identifier(reply[CHOOSE i \in CallPlaces(reply) : CallNumber(reply, i) = k])
  BY <1>1 DEF ToolCalls
<1> HIDE DEF k
<1> QED
  BY <1>1, <1>2, <1>3, <1>4 DEF k

(* The messages of a request: those of the transcript, and the prompts.    *)
SentMessages == [role : {"system", "user", "assistant", "tool", "blank"}, n : 0 .. MaxCalls]

(* Every call has its answer, and every answer its call.                   *)
IsAnswered(ms) ==
  \A i \in DOMAIN ms :
    /\ ms[i].role = "tool" =>
         \E c \in DOMAIN ms :
           c + ms[i].n = i /\ ms[c].role = "assistant" /\ ms[i].n \in 1 .. ms[c].n
    /\ ms[i].role = "assistant" =>
         \A k \in 1 .. ms[i].n : i + k \in DOMAIN ms /\ ms[i + k].role = "tool" /\ ms[i + k].n = k

LEMMA TranscriptIsAnswered ==
  ASSUME NEW ms \in Seq(Messages), AnswersInOrder(ms), Unanswered(ms) = {}
  PROVE  IsAnswered(ms)
<1>1. /\ Len(ms) \in Nat /\ DOMAIN ms = 1 .. Len(ms) /\ MaxCalls \in Nat
      /\ \A i \in DOMAIN ms : ms[i].n \in 0 .. MaxCalls
  BY MessageTypes
<1>2. ASSUME NEW i \in DOMAIN ms, ms[i].role = "tool"
      PROVE  \E c \in DOMAIN ms :
               c + ms[i].n = i /\ ms[c].role = "assistant" /\ ms[i].n \in 1 .. ms[c].n
  <2> DEFINE n == ms[i].n
  <2>1. n < i /\ ms[i - n].role = "assistant" /\ n <= ms[i - n].n /\ n \in 0 .. MaxCalls
    BY <1>1, <1>2 DEF AnswersInOrder
  <2>2. n # 0
    <3> SUFFICES ASSUME n = 0
                 PROVE  FALSE
      OBVIOUS
    <3>1. i - n = i
      BY <1>1
    <3> QED
      BY <1>2, <2>1, <3>1
  <2> HIDE DEF n
  <2>3. i - n \in DOMAIN ms /\ (i - n) + n = i
    BY <1>1, <2>1
  <2>4. n \in 1 .. ms[i - n].n
    BY <1>1, <2>1, <2>2, <2>3
  <2> QED
    BY <2>1, <2>3, <2>4 DEF n
<1>3. ASSUME NEW i \in DOMAIN ms, ms[i].role = "assistant", NEW k \in 1 .. ms[i].n
      PROVE  i + k \in DOMAIN ms /\ ms[i + k].role = "tool" /\ ms[i + k].n = k
  <2>1. i + ms[i].n <= Len(ms)
    <3> SUFFICES ASSUME i + ms[i].n > Len(ms)
                 PROVE  FALSE
      BY <1>1
    <3>1. i + ms[i].n - Len(ms) \in 1 .. MaxCalls
          /\ i + ms[i].n = Len(ms) + (i + ms[i].n - Len(ms))
      BY <1>1
    <3> QED
      BY <1>3, <3>1 DEF Unanswered
  <2>2. i + k \in DOMAIN ms /\ i + k <= Len(ms)
    BY <1>1, <2>1
  <2>3. ms[i + k] = [role |-> "tool", n |-> k]
    BY <1>3, <2>2 DEF AnswersInOrder
  <2> QED
    BY <2>2, <2>3
<1> QED
  BY <1>2, <1>3 DEF IsAnswered

LEMMA SentIsAnswered ==
  ASSUME NEW ms \in Seq(Messages), IsAnswered(ms), NEW last \in {<<>>, <<Prompt>>}
  PROVE  /\ <<Prompt>> \o ms \o last \in Seq(SentMessages)
         /\ IsAnswered(<<Prompt>> \o ms \o last)
<1> DEFINE sent == <<Prompt>> \o ms \o last
           l == Len(ms)
<1>1. /\ l \in Nat /\ DOMAIN ms = 1 .. l /\ MaxCalls \in Nat
      /\ \A i \in DOMAIN ms : ms[i].n \in 0 .. MaxCalls
  BY MessageTypes
<1>2. Prompt \in SentMessages /\ Prompt.role = "system"
  BY <1>1 DEF Prompt, SentMessages
<1>3. ms \in Seq(SentMessages) /\ last \in Seq(SentMessages) /\ <<Prompt>> \in Seq(SentMessages)
  <2>1. Messages \subseteq SentMessages
    BY DEF Messages, SentMessages
  <2>2. ms \in Seq(SentMessages)
    BY <2>1, SeqMonotonic
  <2>3. <<Prompt>> \in Seq(SentMessages) /\ <<>> \in Seq(SentMessages)
    <3>1. ASSUME NEW m \in SentMessages
          PROVE  <<m>> \in Seq(SentMessages)
      OBVIOUS
    <3> QED
      BY <1>2, <3>1, EmptySeq
  <2> QED
    BY <2>2, <2>3
<1>4. Len(last) \in {0, 1} /\ (Len(last) = 1 => last[1] = Prompt)
  OBVIOUS
<1>5. /\ sent \in Seq(SentMessages) /\ Len(sent) = 1 + l + Len(last)
      /\ DOMAIN sent = 1 .. 1 + l + Len(last)
      /\ sent[1] = Prompt
      /\ \A i \in 1 .. l : sent[i + 1] = ms[i]
      /\ Len(last) = 1 => sent[l + 2] = Prompt
  <2>1. /\ <<Prompt>> \o ms \in Seq(SentMessages) /\ Len(<<Prompt>> \o ms) = 1 + l
        /\ (<<Prompt>> \o ms)[1] = Prompt
        /\ \A i \in 1 .. l : (<<Prompt>> \o ms)[i + 1] = ms[i]
    BY <1>1, <1>3
  <2> DEFINE front == <<Prompt>> \o ms
  <2> HIDE DEF front
  <2>2. /\ front \o last \in Seq(SentMessages) /\ Len(front \o last) = Len(front) + Len(last)
        /\ \A i \in 1 .. Len(front) : (front \o last)[i] = front[i]
        /\ \A i \in 1 .. Len(last) : (front \o last)[Len(front) + i] = last[i]
    <3>1. front \in Seq(SentMessages)
      BY <2>1 DEF front
    <3> QED
      BY <1>3, <3>1, ConcatProperties
  <2>3. front[1] = Prompt /\ Len(front) = 1 + l /\ \A i \in 1 .. l : front[i + 1] = ms[i]
    BY <2>1 DEF front
  <2>4. (front \o last)[1] = Prompt /\ \A i \in 1 .. l : (front \o last)[i + 1] = ms[i]
    BY <1>1, <2>2, <2>3
  <2>5. Len(last) = 1 => (front \o last)[l + 2] = Prompt
    <3>1. Len(last) = 1 => 1 \in 1 .. Len(last) /\ Len(front) + 1 = l + 2
      BY <1>1, <2>3
    <3> QED
      BY <1>4, <2>2, <3>1
  <2>6. front \o last = sent
    BY DEF front
  <2> QED
    BY <1>1, <1>4, <2>2, <2>3, <2>4, <2>5, <2>6
<1> HIDE DEF sent, l
<1>6. ASSUME NEW i \in DOMAIN sent, sent[i].role \in {"tool", "assistant"}
      PROVE  i - 1 \in DOMAIN ms /\ sent[i] = ms[i - 1]
  <2>1. i # 1 /\ (Len(last) = 1 => i # l + 2)
    BY <1>2, <1>5, <1>6
  <2>2. i - 1 \in 1 .. l /\ (i - 1) + 1 = i
    <3>1. ASSUME NEW m \in {0, 1}, i \in 1 .. 1 + l + m, m = 1 => i # l + 2
          PROVE  i - 1 \in 1 .. l /\ (i - 1) + 1 = i
      BY <1>1, <2>1, <3>1
    <3> QED
      BY <1>4, <1>5, <2>1, <3>1
  <2> QED
    BY <1>1, <1>5, <2>2
<1>7. ASSUME NEW i \in DOMAIN sent, sent[i].role = "tool"
      PROVE  \E c \in DOMAIN sent :
               c + sent[i].n = i /\ sent[c].role = "assistant" /\ sent[i].n \in 1 .. sent[c].n
  <2>1. i - 1 \in DOMAIN ms /\ sent[i] = ms[i - 1]
    BY <1>6, <1>7
  <2>2. PICK c \in DOMAIN ms :
          c + ms[i - 1].n = i - 1 /\ ms[c].role = "assistant" /\ ms[i - 1].n \in 1 .. ms[c].n
    BY <1>7, <2>1 DEF IsAnswered
  <2>3. c + 1 \in DOMAIN sent /\ sent[c + 1] = ms[c] /\ (c + 1) + ms[i - 1].n = i
    <3>1. i \in Nat /\ c \in Nat /\ ms[i - 1].n \in Nat
      BY <1>1, <1>4, <1>5, <2>1
    <3>2. c + 1 \in DOMAIN sent /\ sent[c + 1] = ms[c]
      BY <1>1, <1>4, <1>5
    <3>3. (c + 1) + ms[i - 1].n = i
      <4>1. ASSUME NEW n \in Nat, c + n = i - 1
            PROVE  (c + 1) + n = i
        BY <3>1, <4>1
      <4> QED
        BY <2>2, <3>1, <4>1
    <3> QED
      BY <3>2, <3>3
  <2> QED
    BY <2>1, <2>2, <2>3
<1>8. ASSUME NEW i \in DOMAIN sent, sent[i].role = "assistant", NEW k \in 1 .. sent[i].n
      PROVE  i + k \in DOMAIN sent /\ sent[i + k].role = "tool" /\ sent[i + k].n = k
  <2>1. i - 1 \in DOMAIN ms /\ sent[i] = ms[i - 1]
    BY <1>6, <1>8
  <2>2. (i - 1) + k \in DOMAIN ms /\ ms[(i - 1) + k].role = "tool" /\ ms[(i - 1) + k].n = k
    BY <1>8, <2>1 DEF IsAnswered
  <2>3. i + k \in DOMAIN sent /\ sent[i + k] = ms[(i - 1) + k]
    <3>1. i \in Int /\ k \in Int
      BY <1>1, <1>4, <1>5, <2>1
    <3>2. (i - 1) + k \in 1 .. l /\ ((i - 1) + k) + 1 = i + k
      BY <1>1, <2>2, <3>1
    <3> QED
      BY <1>1, <1>4, <1>5, <3>1, <3>2
  <2> QED
    BY <2>2, <2>3
<1>9. IsAnswered(sent)
  BY <1>7, <1>8 DEF IsAnswered
<1> QED
  BY <1>5, <1>9 DEF sent

(* A call's answer came in the form of the call's reply.                   *)
LEMMA FormsOfAnswers ==
  ASSUME NEW ms \in Seq(SentMessages), IsAnswered(ms), NEW forms \in AssignedForms(ms)
  PROVE  /\ DOMAIN forms = DOMAIN ms
         /\ \A i \in DOMAIN ms : ms[i].role = "assistant" /\ ms[i].n > 0 => forms[i] \in Forms(ms[i])
         /\ \A i \in DOMAIN ms : ms[i].role = "assistant" =>
              \A k \in 1 .. ms[i].n : forms[i + k] = forms[i]
         /\ \A i \in DOMAIN ms : ms[i].role # "tool" /\ ~(ms[i].role = "assistant" /\ ms[i].n > 0)
              => forms[i] = ByChat
<1> DEFINE replies == {i \in DOMAIN ms : ms[i].role = "assistant" /\ ms[i].n > 0}
           of(f, i) == CASE i \in replies -> f[i]
                         [] ms[i].role = "tool" -> f[i - ms[i].n]
                         [] OTHER -> ByChat
<1>1. PICK f : /\ \A i \in replies : f[i] \in Forms(ms[i])
               /\ forms = [i \in DOMAIN ms |-> of(f, i)]
  BY DEF AssignedForms
<1>2. \A i \in DOMAIN ms : forms[i] = of(f, i)
  BY <1>1
<1>3. \A i \in DOMAIN ms : i \in Nat
  OBVIOUS
<1>4. ASSUME NEW i \in DOMAIN ms, ms[i].role = "assistant", NEW k \in 1 .. ms[i].n
      PROVE  forms[i + k] = forms[i]
  <2>1. i + k \in DOMAIN ms /\ ms[i + k].role = "tool" /\ ms[i + k].n = k
    BY <1>4 DEF IsAnswered
  <2>2. ms[i].n \in Nat
    <3>1. ms[i] \in SentMessages
      OBVIOUS
    <3> QED
      BY <3>1, BoundsAssumption DEF SentMessages
  <2>3. i \in replies /\ i + k \notin replies /\ (i + k) - k = i
    BY <1>3, <1>4, <2>1, <2>2
  <2>4. forms[i] = f[i]
    BY <1>2, <2>3
  <2>5. forms[i + k] = f[(i + k) - k]
    BY <1>2, <2>1, <2>3
  <2> QED
    BY <2>3, <2>4, <2>5
<1>5. ASSUME NEW i \in replies
      PROVE  forms[i] = f[i]
  BY <1>2
<1>6. ASSUME NEW i \in DOMAIN ms, ms[i].role # "tool", i \notin replies
      PROVE  forms[i] = ByChat
  BY <1>2, <1>6
<1> QED
  BY <1>1, <1>4, <1>5, <1>6

(* The calls of a reply have identifiers of their own.                     *)
LEMMA IdsAreDistinct ==
  ASSUME NEW m \in SentMessages, NEW form \in Forms(m),
         NEW k \in 1 .. m.n, NEW l \in 1 .. m.n, IdOf(form, k) = IdOf(form, l)
  PROVE  k = l
<1>1. CASE form = ByChat
  BY <1>1 DEF IdOf
<1>2. CASE form # ByChat
  <2>1. Accepts(form) /\ Len(ToolCalls(form)) = m.n /\ form \in Seq(Items)
    BY <1>2, RepliesAssumption DEF Forms, Accepted
  <2>2. DOMAIN ToolCalls(form) = 1 .. m.n
    BY <2>1, ToolCallsAreCounted
  <2> QED
    BY <1>2, <2>1, <2>2 DEF Accepts, IdOf
<1> QED
  BY <1>1, <1>2

(* What a reply becomes: one item for each of its calls, in whichever form *)
(* it came, and no outputs.                                                *)
LEMMA ItemsOfReply ==
  ASSUME NEW m \in SentMessages, m.role = "assistant", m.n > 0,
         NEW form \in Forms(m), NamesItsCalls(form)
  PROVE  LET items == InputItems(m, form) IN
         /\ DOMAIN items \subseteq Nat
         /\ \A j \in DOMAIN items : items[j].type # "function_call_output"
         /\ \A j \in DOMAIN items : items[j].type = "function_call" =>
              \E k \in 1 .. m.n : items[j].callId = IdOf(form, k)
         /\ \A k \in 1 .. m.n : \E j \in DOMAIN items :
              /\ items[j].type = "function_call" /\ items[j].callId = IdOf(form, k)
              /\ \A i \in DOMAIN items :
                   items[i].type = "function_call" /\ items[i].callId = IdOf(form, k) => i = j
<1> DEFINE items == InputItems(m, form)
<1>0. m.n \in Nat
  BY BoundsAssumption DEF SentMessages
<1>1. CASE form = ByChat
  <2>1. items = [k \in 1 .. m.n |-> [type |-> "function_call", id |-> 0, callId |-> k]]
    BY <1>0, <1>1 DEF InputItems, InputCalls, Item, IdOf
  <2> HIDE DEF items
  <2>2. DOMAIN items = 1 .. m.n /\ \A k \in 1 .. m.n :
          items[k].type = "function_call" /\ items[k].callId = k /\ IdOf(form, k) = k
    BY <1>1, <2>1 DEF IdOf
  <2>3. DOMAIN items \subseteq Nat
    BY <1>0, <2>2
  <2>4. \A k \in 1 .. m.n : \E j \in DOMAIN items :
              /\ items[j].type = "function_call" /\ items[j].callId = IdOf(form, k)
              /\ \A i \in DOMAIN items :
                   items[i].type = "function_call" /\ items[i].callId = IdOf(form, k) => i = j
    BY <2>2
  <2> QED
    BY <2>2, <2>3, <2>4 DEF items
<1>2. CASE form # ByChat
  <2>1. Accepts(form) /\ Len(ToolCalls(form)) = m.n /\ form \in Seq(Items)
    BY <1>2, RepliesAssumption DEF Forms, Accepted
  <2>2. items = ResponseItems(form)
    BY <1>2 DEF InputItems
  <2>3. /\ DOMAIN items \subseteq DOMAIN form /\ \A j \in DOMAIN items : items[j] = form[j]
        /\ \A j \in DOMAIN form : form[j].type # "other" => j \in DOMAIN items
    BY <2>2 DEF ResponseItems
  <2> HIDE DEF items
  <2>4. \A j \in DOMAIN form : j \in Nat /\ form[j] \in Items
    BY <2>1
  <2>5. \A j \in DOMAIN items : items[j].type # "function_call_output"
    BY <2>3, <2>4 DEF Items
  <2>6. ASSUME NEW j \in DOMAIN items
        PROVE  items[j].type = "function_call" <=> j \in CallPlaces(form)
    BY <2>3 DEF CallPlaces, IsCall
  <2>7. ASSUME NEW j \in CallPlaces(form)
        PROVE  /\ j \in DOMAIN items /\ items[j] = form[j]
               /\ CallNumber(form, j) \in 1 .. m.n
               /\ form[j].callId = IdOf(form, CallNumber(form, j))
    <3>1. j \in DOMAIN items /\ items[j] = form[j]
      BY <2>3 DEF CallPlaces, IsCall
    <3>2. form[j].callId = Identifier(form[j])
      BY DEF NamesItsCalls, Identifier, CallPlaces
    <3> QED
      BY <1>2, <2>1, <3>1, <3>2, CallsAreNamed DEF IdOf
  <2>8. Cardinality(CallPlaces(form)) = m.n
    BY <2>1, ToolCallsAreCounted
  <2>9. ASSUME NEW k \in 1 .. m.n
        PROVE  \E j \in DOMAIN items :
                 /\ items[j].type = "function_call" /\ items[j].callId = IdOf(form, k)
                 /\ \A i \in DOMAIN items :
                      items[i].type = "function_call" /\ items[i].callId = IdOf(form, k) => i = j
    <3>1. PICK j \in CallPlaces(form) : CallNumber(form, j) = k
      BY <2>1, <2>8, CallsAreNumbered
    <3>2. j \in DOMAIN items /\ items[j].type = "function_call" /\ items[j].callId = IdOf(form, k)
      BY <2>6, <2>7, <3>1
    <3>3. ASSUME NEW i \in DOMAIN items,
                 items[i].type = "function_call", items[i].callId = IdOf(form, k)
          PROVE  i = j
      <4>1. i \in CallPlaces(form)
        BY <2>6, <3>3
      <4>2. CallNumber(form, i) \in 1 .. m.n /\ IdOf(form, CallNumber(form, i)) = IdOf(form, k)
        BY <2>7, <3>3, <4>1
      <4>3. CallNumber(form, i) = k
        BY <4>2, IdsAreDistinct
      <4> QED
        BY <2>1, <3>1, <4>1, <4>3, CallsAreNumbered
    <3> QED
      BY <3>2, <3>3
  <2>10. \A j \in DOMAIN items : items[j].type = "function_call" =>
              \E k \in 1 .. m.n : items[j].callId = IdOf(form, k)
    BY <2>6, <2>7
  <2>11. DOMAIN items \subseteq Nat
    BY <2>3, <2>4
  <2> QED
    BY <2>5, <2>9, <2>10, <2>11 DEF items
<1> QED
  BY <1>1, <1>2

(* What the other messages become: an output for a tool's, and neither     *)
(* call nor output for the rest.                                           *)
LEMMA ItemsOfOthers ==
  ASSUME NEW m \in SentMessages, NEW form, ~(m.role = "assistant" /\ m.n > 0),
         m.role # "tool" => form = ByChat
  PROVE  LET items == InputItems(m, form) IN
         /\ DOMAIN items \subseteq {1}
         /\ m.role = "tool" => /\ 1 \in DOMAIN items /\ items[1].type = "function_call_output"
                               /\ items[1].callId = IdOf(form, m.n)
         /\ m.role # "tool" => \A j \in DOMAIN items :
              items[j].type \notin {"function_call", "function_call_output"}
<1>1. m.n \in Nat /\ m.role \in {"system", "user", "assistant", "tool", "blank"}
  BY BoundsAssumption DEF SentMessages
<1>2. CASE m.role = "tool"
  <2>1. InputItems(m, form) = <<Item("function_call_output", IdOf(form, m.n))>>
    BY <1>2 DEF InputItems
  <2> QED
    BY <1>2, <2>1 DEF Item
<1>3. CASE m.role \in {"system", "user", "assistant"}
  <2>1. InputItems(m, form) = <<Item("message", 0)>>
    BY <1>1, <1>3 DEF InputItems
  <2> QED
    BY <1>3, <2>1 DEF Item
<1>4. CASE m.role = "blank"
  <2>1. InputItems(m, form) = <<>>
    BY <1>4 DEF InputItems
  <2> QED
    BY <1>4, <2>1
<1> QED
  BY <1>1, <1>2, <1>3, <1>4

(* A Chat Completions service takes it.                                    *)
LEMMA ChatIsTaken ==
  ASSUME NEW ms \in Seq(SentMessages), IsAnswered(ms), NEW forms \in AssignedForms(ms)
  PROVE  ChatTakes(ChatWire(ms, forms), ms)
<1> DEFINE wire == ChatWire(ms, forms)
<1>1. /\ Len(ms) \in Nat /\ DOMAIN ms = 1 .. Len(ms)
      /\ \A i \in DOMAIN ms : ms[i] \in SentMessages
  OBVIOUS
<1>2. \A i \in DOMAIN ms : ms[i].n \in Nat
                           /\ ms[i].role \in {"system", "user", "assistant", "tool", "blank"}
  BY <1>1, BoundsAssumption DEF SentMessages
<1>3. /\ DOMAIN wire = DOMAIN ms /\ Len(wire) = Len(ms)
      /\ \A i \in DOMAIN ms : wire[i] = ChatMessage(ms[i], forms[i])
  <2>1. wire = [i \in 1 .. Len(ms) |-> ChatMessage(ms[i], forms[i])]
    BY <1>1 DEF ChatWire
  <2> HIDE DEF wire
  <2> QED
    BY <1>1, <2>1
<1> HIDE DEF wire
<1>4. ASSUME NEW i \in DOMAIN ms
      PROVE  /\ wire[i].role = IF ms[i].role = "blank" THEN "assistant" ELSE ms[i].role
             /\ ms[i].role \in {"system", "user", "tool"} => wire[i].content
             /\ ms[i].role = "assistant" /\ ms[i].n = 0 => wire[i].content
             /\ ms[i].role = "assistant" => wire[i].calls = [k \in 1 .. ms[i].n |-> IdOf(forms[i], k)]
             /\ ms[i].role # "assistant" => wire[i].calls = <<>>
             /\ ms[i].role = "tool" => wire[i].answers = IdOf(forms[i], ms[i].n)
  <2>1. wire[i] =
          [role    |-> IF ms[i].role = "blank" THEN "assistant" ELSE ms[i].role,
           content |-> ms[i].role \in {"system", "user", "tool"}
                         \/ (ms[i].role = "assistant" /\ ms[i].n = 0),
           calls   |-> IF ms[i].role = "assistant"
                       THEN [k \in 1 .. ms[i].n |-> IdOf(forms[i], k)] ELSE <<>>,
           answers |-> IF ms[i].role = "tool" THEN IdOf(forms[i], ms[i].n) ELSE 0]
    BY <1>3 DEF ChatMessage
  <2>2. wire[i].content <=> ms[i].role \in {"system", "user", "tool"}
                              \/ (ms[i].role = "assistant" /\ ms[i].n = 0)
    <3> DEFINE says == ms[i].role \in {"system", "user", "tool"}
                         \/ (ms[i].role = "assistant" /\ ms[i].n = 0)
    <3> HIDE DEF says
    <3>1. wire[i].content = says
      BY <2>1 DEF says
    <3>2. wire[i].content <=> says
      BY <3>1, Zenon
    <3> QED
      BY <3>2 DEF says
  <2>3. /\ wire[i].role = IF ms[i].role = "blank" THEN "assistant" ELSE ms[i].role
        /\ wire[i].calls = IF ms[i].role = "assistant"
                           THEN [k \in 1 .. ms[i].n |-> IdOf(forms[i], k)] ELSE <<>>
        /\ wire[i].answers = IF ms[i].role = "tool" THEN IdOf(forms[i], ms[i].n) ELSE 0
    BY <2>1
  <2> QED
    BY <2>2, <2>3, Zenon
<1>5. ASSUME NEW i \in DOMAIN ms, ms[i].role = "assistant"
      PROVE  Len(wire[i].calls) = ms[i].n /\ (ms[i].n > 0 => wire[i].calls # <<>>)
  <2>1. PICK n \in Nat : n = ms[i].n
    BY <1>2
  <2> DEFINE id(k) == IdOf(forms[i], k)
  <2>2. wire[i].calls = [k \in 1 .. n |-> id(k)]
    BY <1>4, <1>5, <2>1
  <2> HIDE DEF id
  <2>3. Len(wire[i].calls) = n
    BY <2>2
  <2> QED
    BY <2>1, <2>3
<1>6. ASSUME NEW i \in DOMAIN ms
      PROVE  /\ wire[i].content \/ wire[i].calls # <<>> \/ ms[i].role = "blank"
             /\ i + Len(wire[i].calls) <= Len(wire)
             /\ [k \in 1 .. Len(wire[i].calls) |-> wire[i + k].answers] = wire[i].calls
  <2>1. CASE ms[i].role = "assistant"
    <3>1. \A k \in 1 .. ms[i].n :
            i + k \in DOMAIN ms /\ ms[i + k].role = "tool" /\ ms[i + k].n = k
              /\ forms[i + k] = forms[i]
      BY <2>1, FormsOfAnswers DEF IsAnswered
    <3>2. \A k \in 1 .. ms[i].n : wire[i + k].answers = IdOf(forms[i], k)
      <4>1. ASSUME NEW k \in 1 .. ms[i].n, NEW l \in DOMAIN ms, l = i + k
            PROVE  wire[l].answers = IdOf(forms[i], k)
        BY <1>4, <3>1, <4>1
      <4> QED
        BY <3>1, <4>1
    <3>3. [k \in 1 .. ms[i].n |-> wire[i + k].answers] = wire[i].calls
      BY <1>4, <2>1, <3>2
    <3>4. i + ms[i].n <= Len(ms)
      <4>1. CASE ms[i].n = 0
        BY <1>1, <4>1
      <4>2. CASE ms[i].n # 0
        <5>1. ms[i].n \in 1 .. ms[i].n
          BY <1>2, <4>2
        <5>2. i + ms[i].n \in DOMAIN ms
          BY <3>1, <5>1
        <5> QED
          BY <1>1, <5>2
      <4> QED
        BY <4>1, <4>2
    <3> QED
      BY <1>2, <1>3, <1>4, <1>5, <2>1, <3>3, <3>4
  <2>2. CASE ms[i].role # "assistant"
    <3>1. wire[i].calls = <<>> /\ Len(wire[i].calls) = 0
      BY <1>4, <2>2, EmptySeq
    <3>2. [k \in 1 .. 0 |-> wire[i + k].answers] = <<>>
      OBVIOUS
    <3>3. i + 0 <= Len(wire)
      BY <1>1, <1>3
    <3> QED
      BY <1>2, <1>4, <2>2, <3>1, <3>2, <3>3
  <2> QED
    BY <2>1, <2>2
<1>7. ASSUME NEW i \in DOMAIN ms, wire[i].role = "tool"
      PROVE  \E c \in 1 .. i - 1 : wire[c].calls # <<>> /\ i <= c + Len(wire[c].calls)
  <2>1. ms[i].role = "tool"
    BY <1>4, <1>7
  <2>2. PICK c \in DOMAIN ms :
          c + ms[i].n = i /\ ms[c].role = "assistant" /\ ms[i].n \in 1 .. ms[c].n
    BY <2>1 DEF IsAnswered
  <2>3. ms[c].n \in Nat /\ ms[i].n \in Nat /\ c \in Nat /\ i \in Nat /\ 1 <= c
    BY <1>1, <1>2
  <2>4. Len(wire[c].calls) = ms[c].n /\ (ms[c].n > 0 => wire[c].calls # <<>>)
    BY <1>5, <2>2
  <2>5. c \in 1 .. i - 1 /\ i <= c + ms[c].n /\ ms[c].n > 0
    BY <2>2, <2>3
  <2> QED
    BY <2>4, <2>5
<1>8. ChatTakes(wire, ms)
  BY <1>3, <1>6, <1>7 DEF ChatTakes
<1> QED
  BY <1>8 DEF wire

(* A Responses service takes it: what lies between a reply and the answer  *)
(* to its k-th call has no other item of that call's identifier.           *)
LEMMA ResponsesAreTaken ==
  ASSUME NEW ms \in Seq(SentMessages), IsAnswered(ms), NEW forms \in AssignedForms(ms),
         \A i \in DOMAIN ms : NamesItsCalls(forms[i])
  PROVE  ResponsesTakes(ResponsesWire(ms, forms))
<1> DEFINE wire == ResponsesWire(ms, forms)
           item(p) == wire[p[1]][p[2]]
           paired == {p \in Places(wire) : item(p).type \in {"function_call", "function_call_output"}}
           same(p) == {q \in paired : item(q).callId = item(p).callId}
           replies == {i \in DOMAIN ms : ms[i].role = "assistant" /\ ms[i].n > 0}
<1>1. /\ Len(ms) \in Nat /\ DOMAIN ms = 1 .. Len(ms)
      /\ \A i \in DOMAIN ms : ms[i] \in SentMessages /\ i \in Nat
  OBVIOUS
<1>2. \A i \in DOMAIN ms : ms[i].n \in Nat
                           /\ ms[i].role \in {"system", "user", "assistant", "tool", "blank"}
  BY <1>1, BoundsAssumption DEF SentMessages
<1>3. DOMAIN wire = DOMAIN ms /\ \A i \in DOMAIN ms : wire[i] = InputItems(ms[i], forms[i])
  BY DEF ResponsesWire
<1>4. \A i \in replies : forms[i] \in Forms(ms[i]) /\ NamesItsCalls(forms[i])
  BY FormsOfAnswers
<1> HIDE DEF wire
<1>5. ASSUME NEW p
      PROVE  p \in Places(wire) <=> \E i \in DOMAIN ms : \E j \in DOMAIN wire[i] : p = <<i, j>>
  BY <1>3 DEF Places
<1>6. ASSUME NEW i \in replies
      PROVE  /\ DOMAIN wire[i] \subseteq Nat
             /\ \A j \in DOMAIN wire[i] : wire[i][j].type # "function_call_output"
             /\ \A j \in DOMAIN wire[i] : wire[i][j].type = "function_call" =>
                  \E k \in 1 .. ms[i].n : wire[i][j].callId = IdOf(forms[i], k)
             /\ \A k \in 1 .. ms[i].n : \E j \in DOMAIN wire[i] :
                  /\ wire[i][j].type = "function_call" /\ wire[i][j].callId = IdOf(forms[i], k)
                  /\ \A l \in DOMAIN wire[i] :
                       wire[i][l].type = "function_call" /\ wire[i][l].callId = IdOf(forms[i], k)
                         => l = j
  <2>1. /\ ms[i] \in SentMessages /\ ms[i].role = "assistant" /\ ms[i].n > 0
        /\ forms[i] \in Forms(ms[i]) /\ NamesItsCalls(forms[i])
        /\ wire[i] = InputItems(ms[i], forms[i])
    BY <1>1, <1>3, <1>4
  <2> HIDE DEF item, paired, same, replies
  <2> QED
    BY <2>1, ItemsOfReply
<1>7. ASSUME NEW i \in DOMAIN ms, i \notin replies
      PROVE  /\ DOMAIN wire[i] \subseteq {1}
             /\ ms[i].role = "tool" => /\ 1 \in DOMAIN wire[i]
                                       /\ wire[i][1].type = "function_call_output"
                                       /\ wire[i][1].callId = IdOf(forms[i], ms[i].n)
             /\ ms[i].role # "tool" => \A j \in DOMAIN wire[i] :
                  wire[i][j].type \notin {"function_call", "function_call_output"}
  <2>1. ms[i].role # "tool" => forms[i] = ByChat
    BY <1>7, FormsOfAnswers
  <2> QED
    BY <1>1, <1>3, <1>7, <2>1, ItemsOfOthers
<1>8. ASSUME NEW p \in paired
      PROVE  /\ p = <<p[1], p[2]>> /\ p[1] \in DOMAIN ms /\ p[2] \in DOMAIN wire[p[1]]
             /\ p[1] \in Nat /\ p[2] \in Nat
             /\ p[1] \in replies \/ (ms[p[1]].role = "tool" /\ p[2] = 1)
  <2>1. PICK i \in DOMAIN ms : \E j \in DOMAIN wire[i] : p = <<i, j>>
    BY <1>5
  <2>2. PICK j \in DOMAIN wire[i] : p = <<i, j>>
    BY <2>1
  <2>3. item(p) = wire[i][j] /\ p[1] = i /\ p[2] = j
    BY <2>2
  <2>4. CASE i \in replies
    BY <1>1, <1>6, <2>2, <2>3, <2>4
  <2>5. CASE i \notin replies
    BY <1>1, <1>7, <2>2, <2>3, <2>5
  <2> QED
    BY <2>4, <2>5
(* The call and the answer of the k-th call of the reply a.                *)
<1>9. ASSUME NEW a \in replies, NEW k \in 1 .. ms[a].n
      PROVE  \E j \in DOMAIN wire[a] :
               LET call == <<a, j>>
                   out == <<a + k, 1>>
               IN /\ call \in paired /\ item(call).type = "function_call"
                  /\ item(call).callId = IdOf(forms[a], k)
                  /\ out \in paired /\ item(out).type = "function_call_output"
                  /\ item(out).callId = IdOf(forms[a], k)
                  /\ Before(call, out)
                  /\ \A o \in paired : a <= o[1] /\ o[1] <= a + k
                                         /\ item(o).callId = IdOf(forms[a], k) => o \in {call, out}
  <2>1. PICK j \in DOMAIN wire[a] :
          /\ wire[a][j].type = "function_call" /\ wire[a][j].callId = IdOf(forms[a], k)
          /\ \A l \in DOMAIN wire[a] :
               wire[a][l].type = "function_call" /\ wire[a][l].callId = IdOf(forms[a], k) => l = j
    BY <1>6
  <2> DEFINE call == <<a, j>>
             out == <<a + k, 1>>
  <2>2. \A l \in 1 .. ms[a].n : a + l \in DOMAIN ms /\ ms[a + l].role = "tool" /\ ms[a + l].n = l
                                  /\ forms[a + l] = forms[a] /\ a + l \notin replies
    BY FormsOfAnswers DEF IsAnswered
  <2>3. \A l \in 1 .. ms[a].n : /\ 1 \in DOMAIN wire[a + l]
                                /\ wire[a + l][1].type = "function_call_output"
                                /\ wire[a + l][1].callId = IdOf(forms[a], l)
    BY <1>7, <2>2
  <2>4. call \in paired /\ item(call).type = "function_call" /\ item(call).callId = IdOf(forms[a], k)
    <3>1. call \in Places(wire) /\ item(call) = wire[a][j]
      BY <1>5
    <3> QED
      BY <2>1, <3>1
  <2>5. out \in paired /\ item(out).type = "function_call_output" /\ item(out).callId = IdOf(forms[a], k)
    <3>1. out \in Places(wire) /\ item(out) = wire[a + k][1]
      BY <1>5, <2>2, <2>3
    <3> QED
      BY <2>3, <3>1
  <2>6. a \in Nat /\ k \in Nat \ {0} /\ ms[a].n \in Nat
    BY <1>1, <1>2
  <2>7. Before(call, out)
    BY <2>6 DEF Before
  <2>8. ASSUME NEW o \in paired, a <= o[1], o[1] <= a + k, item(o).callId = IdOf(forms[a], k)
        PROVE  o \in {call, out}
    <3>1. /\ o = <<o[1], o[2]>> /\ o[1] \in Nat /\ o[2] \in DOMAIN wire[o[1]]
          /\ o[1] \in replies \/ (ms[o[1]].role = "tool" /\ o[2] = 1)
      BY <1>8
    <3>2. item(o) = wire[o[1]][o[2]] /\ item(o).type \in {"function_call", "function_call_output"}
      OBVIOUS
    <3>3. CASE o[1] = a
      <4>1. item(o).type = "function_call"
        BY <1>6, <3>1, <3>2, <3>3
      <4>2. o[2] = j
        BY <2>1, <2>8, <3>1, <3>2, <3>3, <4>1
      <4> QED
        BY <3>1, <3>3, <4>2
    <3>4. CASE o[1] # a
      <4>1. PICK l \in 1 .. k : o[1] = a + l
        <5>1. o[1] - a \in 1 .. k /\ o[1] = a + (o[1] - a)
          BY <2>6, <2>8, <3>1, <3>4
        <5> QED
          BY <5>1
      <4>2. l \in 1 .. ms[a].n
        BY <2>6
      <4>3. o[2] = 1
        BY <2>2, <3>1, <4>1, <4>2
      <4>4. IdOf(forms[a], l) = IdOf(forms[a], k)
        BY <2>3, <2>8, <3>2, <4>1, <4>2, <4>3
      <4>5. l = k
        BY <1>1, <1>4, <4>2, <4>4, IdsAreDistinct
      <4> QED
        BY <3>1, <4>1, <4>3, <4>5
    <3> QED
      BY <3>3, <3>4
  <2> HIDE DEF paired, item
  <2> QED
    BY <2>4, <2>5, <2>7, <2>8
(* Every call and every output is one of these.                            *)
<1>10. ASSUME NEW p \in paired
       PROVE  \E a \in replies : \E k \in 1 .. ms[a].n :
                item(p).callId = IdOf(forms[a], k) /\ p[1] \in {a, a + k}
  <2>1. CASE p[1] \in replies
    <3>1. item(p).type = "function_call"
      BY <1>6, <1>8, <2>1
    <3> QED
      BY <1>6, <1>8, <2>1, <3>1
  <2>2. CASE ms[p[1]].role = "tool" /\ p[2] = 1
    <3> DEFINE i == p[1]
    <3>1. i \in DOMAIN ms
      BY <1>8
    <3>2. PICK c \in DOMAIN ms :
            c + ms[i].n = i /\ ms[c].role = "assistant" /\ ms[i].n \in 1 .. ms[c].n
      BY <2>2, <3>1 DEF IsAnswered
    <3>3. c \in replies
      BY <1>2, <3>2
    <3>4. forms[i] = forms[c]
      BY <3>2, FormsOfAnswers
    <3>5. item(p).callId = IdOf(forms[i], ms[i].n)
      BY <1>7, <2>2, <3>1
    <3> QED
      BY <3>2, <3>3, <3>4, <3>5
  <2> QED
    BY <1>8, <2>1, <2>2
<1>11. \A p, q \in paired : Before(p, q) => p[1] <= q[1] /\ ~Before(q, p)
  BY <1>8 DEF Before
<1>12. \A p \in paired : ~Before(p, p)
  BY <1>8 DEF Before
<1>13. ASSUME NEW p \in paired
       PROVE  \E q \in same(p) :
                IF item(p).type = "function_call"
                THEN /\ item(q).type = "function_call_output" /\ Before(p, q)
                     /\ ~\E o \in same(p) : Before(p, o) /\ Before(o, q)
                ELSE /\ item(q).type = "function_call" /\ Before(q, p)
                     /\ ~\E o \in same(p) : Before(q, o) /\ Before(o, p)
  <2>0. PICK a \in replies : \E k \in 1 .. ms[a].n :
          item(p).callId = IdOf(forms[a], k) /\ p[1] \in {a, a + k}
    BY <1>10
  <2>1. PICK k \in 1 .. ms[a].n : item(p).callId = IdOf(forms[a], k) /\ p[1] \in {a, a + k}
    BY <2>0
  <2>2. PICK j \in DOMAIN wire[a] :
               LET call == <<a, j>>
                   out == <<a + k, 1>>
               IN /\ call \in paired /\ item(call).type = "function_call"
                  /\ item(call).callId = IdOf(forms[a], k)
                  /\ out \in paired /\ item(out).type = "function_call_output"
                  /\ item(out).callId = IdOf(forms[a], k)
                  /\ Before(call, out)
                  /\ \A o \in paired : a <= o[1] /\ o[1] <= a + k
                                         /\ item(o).callId = IdOf(forms[a], k) => o \in {call, out}
    BY <1>9
  <2> DEFINE call == <<a, j>>
             out == <<a + k, 1>>
  <2>3. a \in Nat /\ k \in Nat /\ call[1] = a /\ out[1] = a + k /\ p[1] \in Nat
    BY <1>1, <1>2, <1>8
  <2>4. \A o \in paired : item(o).callId = IdOf(forms[a], k) /\ o[1] \in a .. a + k
                            => o \in {call, out}
    BY <1>8, <2>2, <2>3
  <2> HIDE DEF call, out
  <2>5. /\ call \in paired /\ out \in paired /\ Before(call, out)
        /\ item(call).type = "function_call" /\ item(out).type = "function_call_output"
        /\ item(call).callId = item(p).callId /\ item(out).callId = item(p).callId
    BY <2>1, <2>2 DEF call, out
  <2>6. p \in {call, out}
    BY <2>1, <2>3, <2>4
  <2>7. ~\E o \in same(p) : Before(call, o) /\ Before(o, out)
    <3> SUFFICES ASSUME NEW o \in same(p), Before(call, o), Before(o, out)
                 PROVE  FALSE
      OBVIOUS
    <3>1. o \in paired /\ item(o).callId = IdOf(forms[a], k)
      BY <2>1
    <3>2. a <= o[1] /\ o[1] <= a + k /\ o[1] \in Nat
      BY <1>8, <1>11, <2>3, <2>5, <3>1
    <3>3. o \in {call, out}
      BY <2>3, <2>4, <3>1, <3>2
    <3> QED
      BY <1>12, <2>5, <3>3
  <2>8. call \in same(p) /\ out \in same(p)
    BY <2>5
  <2> HIDE DEF same, paired, item
  <2> QED
    BY <2>5, <2>6, <2>7, <2>8
<1>14. ResponsesTakes(wire)
  BY <1>13 DEF ResponsesTakes
<1> QED
  BY <1>14 DEF wire

(* Whatever a session has been through, and whichever service its replies  *)
(* came from, the next request to the model is one its service takes.      *)
THEOREM RequestsStayTaken == Spec => []RequestsAreTaken
<1>1. TranscriptIInv => RequestsAreTaken
  <2> SUFFICES ASSUME TranscriptIInv, NEW r \in Requests, pc[r] \in {"model", "final"},
                      NEW forms \in AssignedForms(Sent(r))
               PROVE  /\ ChatTakes(ChatWire(Sent(r), forms), Sent(r))
                      /\ (\A i \in DOMAIN Sent(r) : NamesItsCalls(forms[i]))
                           => ResponsesTakes(ResponsesWire(Sent(r), forms))
    BY DEF RequestsAreTaken
  <2> DEFINE ms == messages[req[r].session]
             last == IF pc[r] = "final" THEN <<Prompt>> ELSE <<>>
  <2>1. ms \in Seq(Messages) /\ AnswersInOrder(ms) /\ Unanswered(ms) = {}
    BY HolderKnows DEF TranscriptIInv, Holding
  <2>2. IsAnswered(ms)
    BY <2>1, TranscriptIsAnswered
  <2>3. Sent(r) \in Seq(SentMessages) /\ IsAnswered(Sent(r))
    <3>1. last \in {<<>>, <<Prompt>>} /\ Sent(r) = <<Prompt>> \o ms \o last
      BY DEF Sent
    <3> HIDE DEF last, ms
    <3> QED
      BY <2>1, <2>2, <3>1, SentIsAnswered
  <2> QED
    BY <2>3, ChatIsTaken, ResponsesAreTaken
<1> QED
  BY <1>1, TranscriptInvariance, PTL

(* The same holds behind the page: its steps are the engine's.             *)
THEOREM PageKeepsEngine ==
  PageSpec => [](SessionsBounded /\ NoSessionIsLost /\ TranscriptIsAccounted /\ RequestsAreTaken)
BY PageRunsEngine, SessionsStayBounded, SessionsAreReachable, TranscriptsAreAccounted,
   RequestsStayTaken, PTL
=============================================================================
