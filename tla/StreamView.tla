----------------------------- MODULE StreamView -----------------------------
(***************************************************************************)
(* What the client of POST /chat/stream may see: text and tool activity as *)
(* they come, a call once and then its outcome once, and when all calls    *)
(* have theirs at most one verdict, the last event.  The turn is saved     *)
(* after the last step shown, and only a client that leaves is told        *)
(* nothing.  ChatStream implements this specification.                     *)
(***************************************************************************)
EXTENDS Naturals, Sequences

CONSTANT Tools      \* ids of tool calls

VARIABLES
    wire,       \* the events shown, numbered
    stage,      \* the response is "open", its verdict "told", or it is "closed"
    saved,      \* the turn is stored
    gone        \* the client has left

vars == <<wire, stage, saved, gone>>

Shown(kinds) == {wire[i].tool : i \in {k \in DOMAIN wire : wire[k].kind \in kinds}}
Called == Shown({"tool_call"})
Settled == Shown({"tool_result", "tool_error"})

Init ==
    /\ wire = <<>>
    /\ stage = "open"
    /\ saved = FALSE
    /\ gone = FALSE

Event(kind, tool) ==
    /\ stage = "open" /\ ~saved /\ ~gone
    /\ wire' = Append(wire, [kind |-> kind, n |-> Len(wire) + 1, tool |-> tool])
    /\ UNCHANGED <<stage, saved, gone>>

ShowText == Event("token", 0)
ShowCall == \E c \in Tools \ Called : Event("tool_call", c)
ShowOutcome == \E c \in Called \ Settled, kind \in {"tool_result", "tool_error"} : Event(kind, c)

AllSettled == gone \/ Called \subseteq Settled

Save ==
    /\ stage = "open" /\ ~saved /\ AllSettled
    /\ saved' = TRUE
    /\ UNCHANGED <<wire, stage, gone>>

Tell(kind) ==
    /\ stage = "open" /\ AllSettled
    /\ wire' = IF gone THEN wire ELSE Append(wire, [kind |-> kind, n |-> 0, tool |-> 0])
    /\ stage' = "told"
    /\ UNCHANGED <<saved, gone>>

Leave ==
    /\ ~gone /\ stage # "closed"
    /\ gone' = TRUE
    /\ UNCHANGED <<wire, stage, saved>>

\* A response ends with its verdict, or early and perhaps while it saves.
Close ==
    /\ \/ stage = "told" /\ UNCHANGED saved
       \/ stage = "open" /\ gone /\ saved' \in {saved, TRUE}
    /\ stage' = "closed"
    /\ UNCHANGED <<wire, gone>>

Next ==
    \/ ShowText \/ ShowCall \/ ShowOutcome
    \/ Save \/ (\E kind \in {"done", "error"} : Tell(kind)) \/ Leave \/ Close

Spec == Init /\ [][Next]_vars
=============================================================================
