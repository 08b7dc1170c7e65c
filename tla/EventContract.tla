--------------------------- MODULE EventContract ---------------------------
(***************************************************************************)
(* What the consuming half of the event pipeline promises the handlers and *)
(* their models: an event is decided once, either by the one effect of its *)
(* handler or by giving it up to the dead letters; what was decided stays  *)
(* so; and the stream lets go of an event only when it is decided.         *)
(* Deliveries, claims, retries, timeouts and crashes are left out;         *)
(* EventWorker is shown to implement this.                                 *)
(***************************************************************************)
EXTENDS Naturals

CONSTANTS
    Events,     \* the events of the subject
    Open,       \* not decided
    Handled,    \* decided by the handler's effect
    GivenUp     \* decided by a dead letter

VARIABLES
    verdict,    \* what was decided of each event
    effects,    \* effects of its handler
    released    \* the events that the stream has let go of

cvars == <<verdict, effects, released>>

Start ==
    /\ verdict = [e \in Events |-> Open]
    /\ effects = [e \in Events |-> 0]
    /\ released = {}

\* The effect and the decision are one step.
Handle(e) ==
    /\ verdict[e] = Open
    /\ verdict' = [verdict EXCEPT ![e] = Handled]
    /\ effects' = [effects EXCEPT ![e] = @ + 1]
    /\ UNCHANGED released

GiveUp(e) ==
    /\ verdict[e] = Open
    /\ verdict' = [verdict EXCEPT ![e] = GivenUp]
    /\ UNCHANGED <<effects, released>>

LetGo(e) ==
    /\ verdict[e] # Open
    /\ released' = released \cup {e}
    /\ UNCHANGED <<verdict, effects>>

\* The publisher stores an event once more.
Again(e) ==
    /\ released' = released \ {e}
    /\ UNCHANGED <<verdict, effects>>

Step == \E e \in Events : Handle(e) \/ GiveUp(e) \/ LetGo(e) \/ Again(e)

Promise == Start /\ [][Step]_cvars
=============================================================================
