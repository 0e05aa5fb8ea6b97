---------------------------- MODULE ApprovalGate -----------------------------
(***************************************************************************)
(* What the Manager agent promises about tools that change the system: a   *)
(* write runs only as the call its approval showed to the user, only       *)
(* after the user said yes to that very approval, and once; an approval    *)
(* that was refused never runs.  There are no sessions, requests, locks or *)
(* model replies here.                                                     *)
(***************************************************************************)
EXTENDS Sequences

CONSTANTS
  Approvals,   \* approval identifiers
  Calls,       \* tool calls
  Nil          \* no call

VARIABLES
  shown,       \* the call each approval showed to the user, or Nil
  said,        \* the answers the user gave to each approval
  decided,     \* the approvals whose answer was acted upon
  performed    \* the writes that ran: the approval they ran under and the call

vars == <<shown, said, decided, performed>>

Answers == {"yes", "no"}

Init ==
  /\ shown = [a \in Approvals |-> Nil]
  /\ said = [a \in Approvals |-> {}]
  /\ decided = {}
  /\ performed = <<>>

Show(a, c) ==
  /\ shown[a] = Nil
  /\ shown' = [shown EXCEPT ![a] = c]
  /\ UNCHANGED <<said, decided, performed>>

Say(a, answer) ==
  /\ shown[a] # Nil
  /\ said' = [said EXCEPT ![a] = @ \cup {answer}]
  /\ UNCHANGED <<shown, decided, performed>>

Perform(a) ==
  /\ a \notin decided
  /\ "yes" \in said[a]
  /\ decided' = decided \cup {a}
  /\ performed' = Append(performed, [under |-> a, call |-> shown[a]])
  /\ UNCHANGED <<shown, said>>

Refuse(a) ==
  /\ a \notin decided
  /\ "no" \in said[a]
  /\ decided' = decided \cup {a}
  /\ UNCHANGED <<shown, said, performed>>

Next ==
  \E a \in Approvals :
    \/ \E c \in Calls : Show(a, c)
    \/ \E answer \in Answers : Say(a, answer)
    \/ Perform(a)
    \/ Refuse(a)

Spec == Init /\ [][Next]_vars
=============================================================================
