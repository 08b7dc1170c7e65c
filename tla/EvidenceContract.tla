-------------------------- MODULE EvidenceContract --------------------------
(***************************************************************************)
(* What the evidence pipeline promises its consumers for one window: each  *)
(* provider that is asked concludes at most once, with data or without,    *)
(* and one announcement of the window is made, which tells the truth about *)
(* the providers it covers.  Leases, attempts, requests and sweeps are     *)
(* left out; EvidenceJobs is shown to implement this.                      *)
(***************************************************************************)
EXTENDS Naturals

CONSTANTS
    Providers,  \* the providers that may be asked
    Outcomes,   \* what a provider can conclude with
    Open,       \* asked, not concluded
    Unasked,    \* not asked, and "not covered" in an announcement
    Silent      \* no announcement yet

VARIABLES
    outcome,      \* what each provider concluded with
    announcement  \* the announcement of the window, or Silent

cvars == <<outcome, announcement>>

Start ==
    /\ outcome = [p \in Providers |-> Unasked]
    /\ announcement = Silent

\* A provider is asked, or concludes; several may be asked, or be found
\* failed, at once.
Asked(p) == outcome[p] = Unasked /\ outcome'[p] = Open
Concludes(p) == outcome[p] = Open /\ outcome'[p] \in Outcomes

Collect ==
    /\ \A p \in Providers :
          outcome'[p] = outcome[p] \/ Asked(p) \/ Concludes(p)
    /\ outcome' = [p \in Providers |-> outcome'[p]]
    /\ UNCHANGED announcement

\* The announcement covers at least one concluded provider, each with its
\* outcome; a provider asked while it is prepared may be left out.
Announce ==
    /\ announcement = Silent
    /\ announcement' = [p \in Providers |-> announcement'[p]]
    /\ \E p \in Providers : announcement'[p] # Unasked
    /\ \A p \in Providers :
          announcement'[p] # Unasked =>
              outcome[p] \in Outcomes /\ announcement'[p] = outcome[p]
    /\ UNCHANGED outcome

Step == Collect \/ Announce

Promise == Start /\ [][Step]_cvars
=============================================================================
