--------------------------- MODULE LaunchAuthority ---------------------------
(***************************************************************************)
(* What the store promises about launching, and nothing of how: each job   *)
(* is decided at most once, the decision is granted to at most one caller  *)
(* (possibly to none: the answer may be lost, and is never given again), a *)
(* cancellation that comes first excludes the grant, and a refusal is also *)
(* the job's outcome.                                                      *)
(***************************************************************************)
EXTENDS Naturals

CONSTANT Jobs

VARIABLES
    verdict,    \* "undecided", "authorized" or "refused"
    granted,    \* how many callers were told to launch
    cancelled,  \* the owner asked for cancellation
    outcome     \* "open", or how the job ended: "refused" or "reported"

vars == <<verdict, granted, cancelled, outcome>>

Init ==
    /\ verdict = [j \in Jobs |-> "undecided"]
    /\ granted = [j \in Jobs |-> 0]
    /\ cancelled = [j \in Jobs |-> FALSE]
    /\ outcome = [j \in Jobs |-> "open"]

Cancel(j) ==
    /\ outcome[j] = "open"
    /\ cancelled' = [cancelled EXCEPT ![j] = TRUE]
    /\ UNCHANGED <<verdict, granted, outcome>>

\* The only step that grants; n = 0 when the answer is lost.
Authorize(j) ==
    /\ outcome[j] = "open"
    /\ verdict[j] = "undecided"
    /\ ~cancelled[j]
    /\ verdict' = [verdict EXCEPT ![j] = "authorized"]
    /\ \E n \in {0, 1} : granted' = [granted EXCEPT ![j] = @ + n]
    /\ UNCHANGED <<cancelled, outcome>>

Refuse(j) ==
    /\ outcome[j] = "open"
    /\ verdict[j] = "undecided"
    /\ verdict' = [verdict EXCEPT ![j] = "refused"]
    /\ outcome' = [outcome EXCEPT ![j] = "refused"]
    /\ UNCHANGED <<granted, cancelled>>

\* The final evidence of a job that was not refused.
Report(j) ==
    /\ outcome[j] = "open"
    /\ outcome' = [outcome EXCEPT ![j] = "reported"]
    /\ UNCHANGED <<verdict, granted, cancelled>>

Next == \E j \in Jobs : Cancel(j) \/ Authorize(j) \/ Refuse(j) \/ Report(j)

Spec == Init /\ [][Next]_vars
=============================================================================
