------------------------------ MODULE StoreCalls ------------------------------
(***************************************************************************)
(* What the store client promises to its callers (src/src/store-client.ts, *)
(* the error classes of src/src/job-types.ts): an answer is given once, an *)
(* acknowledged write is durable, and an error that does not say `unknown' *)
(* is proof that a reservation, a cancellation or a launch decision did    *)
(* not take effect, and never will.                                        *)
(***************************************************************************)
EXTENDS Naturals, Sequences

VARIABLES
    calls,   \* the calls made, in order: their operation and their outcome
    durable  \* the calls whose transaction is durable

callVars == <<calls, durable>>

\* decide: requestCancellation and decideLaunch. write: claims, heartbeats,
\* publications and acknowledgements.
Ops == {"reserve", "decide", "write", "read"}

\* unknown, committed: the commitOutcome of an error; failed: an error of the
\* operation; unavailable: STORE_UNAVAILABLE without a commitOutcome.
Outcomes == {"resolved", "failed", "unknown", "committed", "unavailable"}

Ids == 1..Len(calls)

\* Errors from which the caller may conclude that nothing was written. A claim
\* or a publication that was pending when the worker was lost reports the same
\* STORE_UNAVAILABLE as one that was never sent.
ProofOfAbsence(op, outcome) ==
    \/ outcome = "failed"
    \/ outcome = "unavailable" /\ op \in {"reserve", "decide"}

ProofOfEffect(op, outcome) ==
    op # "read" /\ outcome \in {"resolved", "committed"}

CallsInit == calls = << >> /\ durable = {}

Ask ==
    \E op \in Ops, outcome \in {"none", "failed", "unavailable"} :
        /\ calls' = Append(calls, [op |-> op, outcome |-> outcome])
        /\ UNCHANGED durable

TakeEffect ==
    \E i \in Ids \ durable :
        /\ calls[i].op # "read"
        /\ ~ProofOfAbsence(calls[i].op, calls[i].outcome)
        /\ durable' = durable \cup {i}
        /\ UNCHANGED calls

AnswerSome ==
    /\ DOMAIN calls' = DOMAIN calls
    /\ \A i \in Ids :
          \/ calls'[i] = calls[i]
          \/ /\ calls[i].outcome = "none"
             /\ \E outcome \in Outcomes :
                   /\ calls'[i] = [calls[i] EXCEPT !.outcome = outcome]
                   /\ ProofOfAbsence(calls[i].op, outcome) => i \notin durable
                   /\ ProofOfEffect(calls[i].op, outcome) => i \in durable
    /\ UNCHANGED durable

CallsNext == Ask \/ TakeEffect \/ AnswerSome

CallsSpec == CallsInit /\ [][CallsNext]_callVars
=============================================================================
