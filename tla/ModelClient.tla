----------------------------- MODULE ModelClient -----------------------------
(***************************************************************************)
(* What the engine's transcript becomes on the wire.  ModelClient.Complete *)
(* speaks two protocols, Chat Completions and Responses, and the user may  *)
(* save another configuration between any two calls, so a transcript whose *)
(* replies came by one protocol is sent by the other.  A reply that came   *)
(* by Responses is sent back by Responses as the items it was, not as what *)
(* the engine understood of them.                                          *)
(*                                                                         *)
(* An identifier is a number, 0 where it is empty.  The engine numbers the *)
(* calls of a reply by their place; the identifier that stands for place k *)
(* is read off the reply.                                                  *)
(***************************************************************************)
EXTENDS AgentEngine

CONSTANT Replies   \* outputs of a Responses service

Items == [type : {"message", "function_call", "reasoning", "other"}, id : Nat, callId : Nat]

ASSUME RepliesAssumption == Replies \subseteq Seq(Items)

-----------------------------------------------------------------------------
(* completeResponses and validateModelMessage: what a reply is understood  *)
(* as.                                                                     *)

IsCall(item) == item.type = "function_call"

Identifier(item) == IF item.callId = 0 THEN item.id ELSE item.callId

CallPlaces(reply) == {j \in DOMAIN reply : IsCall(reply[j])}

(* The number of the call at place j, among the calls of its reply.        *)
CallNumber(reply, j) == Cardinality({i \in CallPlaces(reply) : i <= j})

(* ToolCalls: the identifiers of a reply's calls.                          *)
ToolCalls(reply) ==
  [k \in 1 .. Cardinality(CallPlaces(reply)) |->
     Identifier(reply[CHOOSE j \in CallPlaces(reply) : CallNumber(reply, j) = k])]

(* ResponseItems: the items that are kept, each at its place.              *)
ResponseItems(reply) == [j \in {i \in DOMAIN reply : reply[i].type # "other"} |-> reply[j]]

Accepts(reply) ==
  LET ids == ToolCalls(reply) IN
  /\ \E i \in DOMAIN reply : reply[i].type \in {"message", "function_call"}
  /\ Len(ids) <= MaxCalls
  /\ \A i, j \in DOMAIN ids : ids[i] # 0 /\ (ids[i] = ids[j] => i = j)

(* How an assistant's message came: by Chat Completions (the empty reply), *)
(* or as a reply of a Responses service that was accepted.                 *)
ByChat == <<>>
Accepted == {reply \in Replies : Accepts(reply)}

Forms(m) == {ByChat} \cup {reply \in Accepted : Len(ToolCalls(reply)) = m.n}

IdOf(form, k) == IF form = ByChat THEN k ELSE ToolCalls(form)[k]

-----------------------------------------------------------------------------
(* completeChatCompletions: the messages as they are; what is empty is     *)
(* omitted.  answers: the identifier a tool message answers.               *)

ChatMessage(m, form) ==
  [role    |-> IF m.role = "blank" THEN "assistant" ELSE m.role,
   content |-> m.role \in {"system", "user", "tool"} \/ (m.role = "assistant" /\ m.n = 0),
   calls   |-> IF m.role = "assistant" THEN [k \in 1 .. m.n |-> IdOf(form, k)] ELSE <<>>,
   answers |-> IF m.role = "tool" THEN IdOf(form, m.n) ELSE 0]

ChatWire(ms, forms) == [i \in DOMAIN ms |-> ChatMessage(ms[i], forms[i])]

(* responsesInput: the items each message becomes, by their places.        *)
Item(type, callId) == [type |-> type, id |-> 0, callId |-> callId]

InputCalls(m, form) == [k \in 1 .. m.n |-> Item("function_call", IdOf(form, k))]

(* Variant: only what came by Responses is sent with its calls. *)
TextOfChat(m, form) ==
  CASE m.role \in {"system", "user"} -> <<Item("message", 0)>>
    [] m.role = "tool" -> <<Item("function_call_output", IdOf(form, m.n))>>
    [] m.role = "assistant" /\ form # ByChat -> ResponseItems(form)
    [] m.role = "assistant" /\ form = ByChat -> <<Item("message", 0)>>
    [] m.role = "blank" -> <<>>

InputItems(m, form) ==
  CASE m.role \in {"system", "user"} -> <<Item("message", 0)>>
    [] m.role = "tool" -> <<Item("function_call_output", IdOf(form, m.n))>>
    [] m.role = "assistant" /\ form # ByChat -> ResponseItems(form)
    [] m.role = "assistant" /\ form = ByChat ->
         IF m.n = 0 THEN <<Item("message", 0)>> ELSE InputCalls(m, form)
    [] m.role = "blank" -> <<>>

ResponsesWire(ms, forms) == [i \in DOMAIN ms |-> InputItems(ms[i], forms[i])]

(* The input is the items of all messages, one message after another.      *)
Places(wire) == UNION {{<<i, j>> : j \in DOMAIN wire[i]} : i \in DOMAIN wire}

Before(p, q) == p[1] < q[1] \/ (p[1] = q[1] /\ p[2] < q[2])

-----------------------------------------------------------------------------
(* The messages of a call of the model: the system's prompt in front, and  *)
(* at the round limit its order to stop behind.                            *)

Prompt == [role |-> "system", n |-> 0]

Sent(r) ==
  <<Prompt>> \o messages[req[r].session] \o (IF pc[r] = "final" THEN <<Prompt>> ELSE <<>>)

(* The forms the messages can have come in: any for a reply; the one of    *)
(* the reply it answers for a tool message.                                *)
AssignedForms(ms) ==
  LET replies == {i \in DOMAIN ms : ms[i].role = "assistant" /\ ms[i].n > 0}
      chosen == {f \in [replies -> UNION {Forms(ms[i]) : i \in replies}] :
                   \A i \in replies : f[i] \in Forms(ms[i])}
      of(f, i) == CASE i \in replies -> f[i]
                    [] ms[i].role = "tool" -> f[i - ms[i].n]
                    [] OTHER -> ByChat
  IN  {[i \in DOMAIN ms |-> of(f, i)] : f \in chosen}

(* A Chat Completions service takes a request whose tool messages follow   *)
(* the reply they answer and answer each of its calls once, and nothing    *)
(* else, and whose messages all say something.  A blank reply is the       *)
(* exception the engine makes: it stays in the transcript.                 *)
ChatTakes(wire, ms) ==
  \A i \in DOMAIN wire :
    /\ wire[i].content \/ wire[i].calls # <<>> \/ ms[i].role = "blank"
    /\ LET n == Len(wire[i].calls) IN
       /\ i + n <= Len(wire)
       /\ [k \in 1 .. n |-> wire[i + k].answers] = wire[i].calls
    /\ wire[i].role = "tool" =>
         \E c \in 1 .. i - 1 : wire[c].calls # <<>> /\ i <= c + Len(wire[c].calls)

(* A Responses service takes a request in which calls and outputs of one   *)
(* identifier alternate: the first is a call, the last an output.          *)
ResponsesTakes(wire) ==
  LET item(p) == wire[p[1]][p[2]]
      paired == {p \in Places(wire) : item(p).type \in {"function_call", "function_call_output"}}
      same(p) == {q \in paired : item(q).callId = item(p).callId}
  IN  \A p \in paired : \E q \in same(p) :
        IF item(p).type = "function_call"
        THEN /\ item(q).type = "function_call_output" /\ Before(p, q)
             /\ ~\E o \in same(p) : Before(p, o) /\ Before(o, q)
        ELSE /\ item(q).type = "function_call" /\ Before(q, p)
             /\ ~\E o \in same(p) : Before(q, o) /\ Before(o, p)

(* The replies that name every call by a call_id.                          *)
NamesItsCalls(reply) == \A i \in DOMAIN reply : IsCall(reply[i]) => reply[i].callId # 0

(* Whatever a session has been through (failed turns, refusals, answers,   *)
(* compaction, a change of protocol in between), the transcript that is    *)
(* sent with the next call of the model is one its service takes, except   *)
(* that Responses gets back calls without a call_id as they were, beside   *)
(* outputs that carry the item's id for it.                                *)
RequestsAreTaken ==
  \A r \in Requests : pc[r] \in {"model", "final"} =>
    LET ms == Sent(r) IN
    \A forms \in AssignedForms(ms) :
      /\ ChatTakes(ChatWire(ms, forms), ms)
      /\ (\A i \in DOMAIN ms : NamesItsCalls(forms[i])) => ResponsesTakes(ResponsesWire(ms, forms))
=============================================================================
