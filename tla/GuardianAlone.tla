---------------------------- MODULE GuardianAlone ----------------------------
(***************************************************************************)
(* The guardian against any peer: whoever holds the other end of its       *)
(* channel may send the runner's messages in any order and any number of   *)
(* times, stop reading, and disconnect. What holds here does not rest on   *)
(* the runner's discipline.                                                *)
(***************************************************************************)
EXTENDS Guardian

CONSTANT MaxMessages  \* bound: how many messages the peer sends

VARIABLE sent  \* how many of each kind it has sent

PeerMessages == {"hello_reply", "grant"}

aloneVars == <<guardianVars, link, sent>>

AloneInit ==
    /\ guardian = NewGuardian /\ shell = NoShell
    /\ toRunner = << >> /\ toGuardian = << >>
    /\ runnerEnd = TRUE /\ guardianEnd = TRUE
    /\ guardianProcess = "booting" /\ expired = FALSE
    /\ sent = [type \in PeerMessages |-> 0]

PeerSends(type) ==
    /\ runnerEnd /\ sent["hello_reply"] + sent["grant"] < MaxMessages
    /\ sent' = [sent EXCEPT ![type] = @ + 1]
    /\ SendToGuardian(<<[type |-> type]>>)
    /\ UNCHANGED <<guardianVars, toRunner, ends, guardianProcess, expired>>

PeerReads ==
    /\ runnerEnd /\ toRunner # << >>
    /\ toRunner' = Tail(toRunner)
    /\ UNCHANGED <<guardianVars, toGuardian, ends, guardianProcess, expired, sent>>

PeerDisconnects ==
    /\ runnerEnd
    /\ runnerEnd' = FALSE
    /\ UNCHANGED <<guardianVars, toRunner, toGuardian, guardianEnd,
                   guardianProcess, expired, sent>>

GuardianRunsAlone == GuardianStep /\ UNCHANGED sent

TimePassesAlone == DeadlinePasses /\ UNCHANGED sent

AloneNext ==
    \/ \E type \in PeerMessages : PeerSends(type)
    \/ PeerReads \/ PeerDisconnects
    \/ GuardianRunsAlone
    \/ (GuardianSigterm \/ GuardianCrash) /\ UNCHANGED sent
    \/ TimePassesAlone

AloneSpec == AloneInit /\ [][AloneNext]_aloneVars

\* The event loop runs and time passes; the shell may ignore TERM for ever.
AloneFairness ==
    /\ WF_aloneVars(GuardianWorks /\ UNCHANGED sent)
    /\ WF_aloneVars(TimePassesAlone)

FairAlone == AloneSpec /\ AloneFairness

-----------------------------------------------------------------------------
\* Whatever is repeated, reordered or cut off, the guardian signals its group at
\* most once with TERM and once with KILL, and every shell it starts has cost the
\* peer a hello_reply of its own. So a peer that answers the hello once, as the
\* runner does, gets at most one shell however many grants it sends; and then the
\* receipts agree with it: a failed start and a started shell exclude each other.
OneShellOneCleanup ==
    /\ shell.terms <= 1 /\ shell.kills <= 1
    /\ shell.started <= sent["hello_reply"]
    /\ sent["hello_reply"] <= 1 =>
           \A i \in DOMAIN toRunner : toRunner[i].type = "shell_error" =>
               /\ shell.started = 0
               /\ \A k \in DOMAIN toRunner : toRunner[k].type # "shell_spawned"

\* A guardian whose peer is gone winds down, whether or not its shell does: it is
\* killed with its group, or has stopped.
GuardianWindsDown ==
    (guardianProcess = "running" /\ ~runnerEnd)
        ~> (guardianProcess = "gone" \/ guardian.state = "exited")
=============================================================================
