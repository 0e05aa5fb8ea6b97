------------------------------ MODULE AgentPage -------------------------------
(***************************************************************************)
(* The conversation as its page sees it: the script of the one page        *)
(* (index.html), which runs one callback at a time and waits in between;   *)
(* the event streams of the server (agent_stream.go), which carry each     *)
(* answer; and the engine behind them (AgentEngine).  The page disables    *)
(* its buttons by three variables of its own, which the callbacks of       *)
(* overlapping requests all write.                                         *)
(*                                                                         *)
(* A stream's progress events change nothing but what is drawn; its last   *)
(* event is done, with the response, or error, or is lost when the stream  *)
(* outlives the server's write timeout.                                    *)
(***************************************************************************)
EXTENDS AgentEngine

VARIABLES
  agentSession,     \* the page's session, or Nil
  pendingApproval,  \* the approval on the screen, or Nil
  agentBusy,
  leaving,          \* the session whose reset newAgentSession waits for, or Nil
  stream,             \* the page's side of each request
  lost              \* history: approvals whose way to the user, or back, was cut

page == <<agentSession, pendingApproval, agentBusy, leaving, stream, lost>>
pageVars == <<vars, page>>

(* sent: the page waits for the last event; gone: nobody does; done,       *)
(* error: it has come; closing: done was handled, the stream has not ended.*)
StreamStates == {"none", "sent", "gone", "done", "error", "closing"}

(* What is asked (an answer to an approval, or a turn), then the response. *)
PageStreams ==
  [state : StreamStates, session : Sessions \cup {Nil}, approval : Approvals \cup {Nil},
   answer : Answers]

Stream(state, s, a, answer) ==
  [state |-> state, session |-> s, approval |-> a, answer |-> answer]

NoStream == Stream("none", Nil, Nil, "no")

PageTypeOK ==
  /\ agentSession \in Sessions \cup {Nil}
  /\ pendingApproval \in Approvals \cup {Nil}
  /\ agentBusy \in BOOLEAN
  /\ leaving \in Sessions \cup {Nil}
  /\ stream \in [Requests -> PageStreams]
  /\ lost \subseteq Approvals

PageInit ==
  /\ Init
  /\ agentSession = Nil /\ pendingApproval = Nil /\ agentBusy = FALSE /\ leaving = Nil
  /\ stream = [r \in Requests |-> NoStream]
  /\ lost = {}

Some(a) == {a} \ {Nil}

-----------------------------------------------------------------------------
(* The user, and what the page does at once.                               *)

Free(r) == stream[r].state = "none" /\ pc[r] = "idle"

Waits(r) == stream[r].state \in {"sent", "gone"} /\ pc[r] = "idle"

Asked == turns + Cardinality({r \in Requests : Waits(r) /\ stream[r].approval = Nil})

SendAgent(r) ==
  /\ Free(r) /\ Asked < MaxTurns
  /\ ~agentBusy /\ pendingApproval = Nil
  /\ agentBusy' = TRUE
  /\ stream' = [stream EXCEPT ![r] = Stream("sent", agentSession, Nil, "no")]
  /\ UNCHANGED <<vars, agentSession, pendingApproval, leaving, lost>>

ResolveApproval(r) ==
  /\ Free(r)
  /\ ~agentBusy /\ pendingApproval # Nil
  /\ agentBusy' = TRUE
  /\ \E answer \in Answers :
       stream' = [stream EXCEPT ![r] = Stream("sent", agentSession, pendingApproval, answer)]
  /\ pendingApproval' = Nil
  /\ UNCHANGED <<vars, agentSession, leaving, lost>>

(* The page does not become busy.  One such wait at a time (bound of the   *)
(* model).                                                                 *)
NewAgentSession ==
  /\ ~agentBusy /\ pendingApproval = Nil
  /\ agentSession # Nil /\ leaving = Nil
  /\ leaving' = agentSession
  /\ UNCHANGED <<vars, agentSession, pendingApproval, agentBusy, stream, lost>>

(* The assistant page is shown again, or its settings are saved            *)
(* (loadAgentConfig, saveAgentConfig): the buttons are enabled whatever is *)
(* under way.                                                              *)
ConfigLoaded ==
  /\ agentBusy
  /\ agentBusy' = FALSE
  /\ UNCHANGED <<vars, agentSession, pendingApproval, leaving, stream, lost>>

(* deleteAgentConfig: the page forgets its session, which is not reset;    *)
(* the user may send again when other settings are saved.  Not while a     *)
(* reset is waited for (bound of the model).                               *)
ConfigDeleted ==
  /\ agentSession # Nil /\ leaving = Nil
  /\ agentSession' = Nil /\ pendingApproval' = Nil /\ agentBusy' = FALSE
  /\ lost' = lost \cup Some(pendingApproval)
  /\ UNCHANGED <<vars, leaving, stream>>

(* The window is closed, and opened again with a new page.                 *)
Reopen ==
  /\ agentSession' = Nil /\ pendingApproval' = Nil /\ agentBusy' = FALSE /\ leaving' = Nil
  /\ stream' = [r \in Requests |->
                IF stream[r].state \in {"sent", "gone"} THEN [stream[r] EXCEPT !.state = "gone"]
                                                      ELSE NoStream]
  /\ lost' = lost \cup Some(pendingApproval)
                  \cup UNION {Some(stream[r].approval) : r \in {q \in Requests : stream[q].state = "done"}}
  /\ UNCHANGED vars

-----------------------------------------------------------------------------
(* The server: a request comes to the engine, or an error comes back.      *)

Errs(r) ==
  /\ stream' = [stream EXCEPT ![r] = IF @.state = "gone" THEN NoStream
                                 ELSE Stream("error", Nil, Nil, "no")]
  /\ UNCHANGED <<agentSession, pendingApproval, agentBusy, leaving, lost>>

(* The stream carries the response, unless nobody listens or it lasted     *)
(* longer than WriteTimeout.                                               *)
Responds(r, a) ==
  /\ \/ stream[r].state = "sent"
        /\ stream' = [stream EXCEPT ![r] = Stream("done", req[r].session, a, "no")]
        /\ UNCHANGED lost
     \/ stream' = [stream EXCEPT ![r] = IF @.state = "gone" THEN NoStream
                                    ELSE Stream("error", Nil, Nil, "no")]
        /\ lost' = lost \cup Some(a)
  /\ UNCHANGED <<agentSession, pendingApproval, agentBusy, leaving>>

TurnServed(r) ==
  /\ Waits(r) /\ stream[r].approval = Nil
  /\ IF stream[r].session = Nil
     THEN TurnOfNewSession(r)
     ELSE TurnOfKnownSession(r) /\ req'[r].session = stream[r].session
  /\ UNCHANGED page

AnswerServed(r) ==
  /\ Waits(r) /\ stream[r].approval # Nil
  /\ AnswerArrives(r)
  /\ req'[r] = Request(stream[r].session, FALSE, stream[r].approval, stream[r].answer)
  /\ UNCHANGED page

(* The session has expired, was evicted or reset.                          *)
SessionUnknown(r) ==
  /\ Waits(r) /\ stream[r].session # Nil
  /\ FindNothing /\ stream[r].session \notin sessions'
  /\ Errs(r)

(* The message is too long.                                                *)
TurnRefused(r) ==
  /\ Waits(r) /\ stream[r].approval = Nil
  /\ Errs(r)
  /\ UNCHANGED vars

(* The request of a page that is gone need not arrive.                     *)
NeverArrives(r) ==
  /\ Waits(r) /\ stream[r].state = "gone"
  /\ stream' = [stream EXCEPT ![r] = NoStream]
  /\ lost' = lost \cup Some(stream[r].approval)
  /\ UNCHANGED <<vars, agentSession, pendingApproval, agentBusy, leaving>>

Serve(r) ==
  TurnServed(r) \/ AnswerServed(r) \/ SessionUnknown(r) \/ TurnRefused(r) \/ NeverArrives(r)

(* Sessions are never reused, so a second reset would change nothing.      *)
ResetServed ==
  /\ leaving # Nil
  /\ Reset(leaving)
  /\ UNCHANGED page

-----------------------------------------------------------------------------
(* The engine's steps, and what they send.                                 *)

(* streamAgentRun, when run has returned.                                  *)
Sends(r) ==
  LET answered == req[r].approval # Nil   \* an answered approval never fails
      plain    == ModelAnswers(r, "model") \/ ModelAnswers(r, "final") \/ FinalFallback(r)
      failing  == ModelFails(r) \/ ModelSaysNothing(r) \/ FinalCancelled(r)
  IN
  \/ plain /\ Responds(r, Nil)
  \/ failing /\ answered /\ Responds(r, Nil)
  \/ failing /\ ~answered /\ pc'[r] = "idle" /\ Errs(r)
  \/ DropFailed(r) /\ Errs(r)
  \/ CallWaits(r) /\ \E a \in Approvals : shown'[a] # shown[a] /\ Responds(r, a)

WorkStep(r) ==
  \/ Sends(r)
  \/ Works(r) /\ pc'[r] # "idle" /\ UNCHANGED page

LockStep(r) ==
  \/ (TurnRejected(r) \/ AnswerRejected(r)) /\ Errs(r)
  \/ (TurnBegins(r) \/ Approved(r) \/ Denied(r)) /\ UNCHANGED page

-----------------------------------------------------------------------------
(* The page, when an event or an answer has come.                          *)

Reads(r) ==
  /\ stream[r].state = "done"
  /\ agentSession' = stream[r].session
  /\ pendingApproval' = stream[r].approval
  /\ agentBusy' = FALSE
  /\ lost' = lost \cup Some(pendingApproval)
  /\ stream' = [stream EXCEPT ![r] = Stream("closing", Nil, Nil, "no")]
  /\ UNCHANGED <<vars, leaving>>

(* Variant: the approval is hidden when the stream has ended. *)
SettlesAndHides(r) ==
  /\ stream[r].state \in {"error", "closing"}
  /\ agentBusy' = FALSE
  /\ pendingApproval' = Nil
  /\ stream' = [stream EXCEPT ![r] = NoStream]
  /\ UNCHANGED <<vars, agentSession, leaving, lost>>

(* The end of the stream, or its error (finally).                          *)
Settles(r) ==
  /\ stream[r].state \in {"error", "closing"}
  /\ agentBusy' = FALSE
  /\ stream' = [stream EXCEPT ![r] = NoStream]
  /\ UNCHANGED <<vars, agentSession, pendingApproval, leaving, lost>>

(* Variant: the approval stays on the screen. *)
SessionBeginsBeside ==
  /\ leaving # Nil
  /\ agentSession' = Nil /\ agentBusy' = FALSE /\ leaving' = Nil
  /\ UNCHANGED <<vars, pendingApproval, stream, lost>>

(* newAgentSession goes on, also when its reset has failed                 *)
(* (resetAgentMessages).                                                   *)
SessionBegins ==
  /\ leaving # Nil
  /\ agentSession' = Nil /\ pendingApproval' = Nil /\ agentBusy' = FALSE /\ leaving' = Nil
  /\ lost' = lost \cup Some(pendingApproval)
  /\ UNCHANGED <<vars, stream>>

-----------------------------------------------------------------------------
PageNext ==
  \/ \E r \in Requests :
       \/ SendAgent(r) \/ ResolveApproval(r)
       \/ Serve(r) \/ WorkStep(r) \/ LockStep(r)
       \/ Reads(r) \/ Settles(r)
  \/ NewAgentSession \/ ResetServed \/ SessionBegins
  \/ ConfigLoaded \/ ConfigDeleted \/ Reopen

Progress(r) ==
  \/ Waits(r) /\ Serve(r)
  \/ pc[r] \in Holding /\ WorkStep(r)
  \/ pc[r] \in {"turn", "resolve"} /\ LockStep(r)
  \/ Reads(r) \/ Settles(r)

PageSpec == PageInit /\ [][PageNext]_pageVars

(* A request that was sent arrives, a call of the model or of a tool ends   *)
(* (both have time limits), a mutex is not withheld for ever from a        *)
(* goroutine that waits for it, and the page handles what has come.        *)
PageFairness ==
  \A r \in Requests : WF_pageVars(~Free(r) /\ Progress(r))

FairPageSpec == PageSpec /\ PageFairness

-----------------------------------------------------------------------------
(* Properties.                                                             *)

(* The approval on the screen is the one that waits in the session the     *)
(* answer will name, whichever overlapping turns, resets and new sessions  *)
(* have written the page's variables (handleAgentResponse,                 *)
(* newAgentSession).                                                       *)
ShownCanBeAnswered ==
  pendingApproval # Nil =>
    /\ agentSession # Nil /\ pending[agentSession] # Nil
    /\ pending[agentSession].approval = pendingApproval

(* An approval that waits in the map is in front of the user, on its way   *)
(* there, or its answer is on its way back; unless the window was closed,  *)
(* the settings were deleted, the stream outlived the write timeout, or    *)
(* the answer of an overlapping turn, or a new session asked for before,   *)
(* took its place on the screen.                                           *)
WaitingIsShown ==
  \A s \in sessions : pending[s] # Nil =>
    LET a == pending[s].approval IN
      \/ a = pendingApproval \/ a \in lost
      \/ \E r \in Requests : stream[r].approval = a

(* Each request's stream knows what the request carries.                   *)
StreamsFollow ==
  \A r \in Requests :
    /\ pc[r] # "idle" =>
         /\ stream[r].state \in {"sent", "gone"}
         /\ req[r].approval = stream[r].approval
         /\ req[r].approval # Nil => req[r].session = stream[r].session
    /\ pc[r] = "turn" => req[r].approval = Nil
    /\ pc[r] \in Holding /\ req[r].approval # Nil => req[r].approval \in decided
    /\ stream[r].state \in {"none", "error", "closing"} => stream[r].approval = Nil

(* The approval on its way to the page, or whose answer is on its way to    *)
(* the session.                                                            *)
Carried(r) == IF pc[r] \in Holding THEN Nil ELSE stream[r].approval

(* An approval that is carried waits in the session its stream names, and  *)
(* is in one place only.                                                   *)
CarriedOnce ==
  \A r \in Requests : Carried(r) # Nil =>
    /\ stream[r].session \in Sessions
    /\ pending[stream[r].session] # Nil
    /\ pending[stream[r].session].approval = Carried(r)
    /\ Carried(r) # pendingApproval
    /\ \A q \in Requests : Carried(q) = Carried(r) => q = r

PageIInv == PageTypeOK /\ StreamsFollow /\ CarriedOnce /\ ShownCanBeAnswered /\ WaitingIsShown

(* The page does not stay busy: whatever it sent, and whatever other       *)
(* requests hold the session, its last event comes and is handled, so the  *)
(* user can go on.                                                         *)
PageSettles == agentBusy ~> ~agentBusy
=============================================================================
