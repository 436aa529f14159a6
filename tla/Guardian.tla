------------------------------ MODULE Guardian ------------------------------
(***************************************************************************)
(* The detached guardian (src/src/guardian.ts): the only process that may  *)
(* start the shell. It verifies the process topology, starts the shell on  *)
(* a grant it receives while ready, and cleans up its own process group:   *)
(* TERM once, then KILL after a grace.                                     *)
(*                                                                         *)
(* Its handlers run one at a time; timers, signals and child-process       *)
(* events fire in any order that the guards allow.                         *)
(***************************************************************************)
EXTENDS GuardianLink, Evidence

CONSTANT
    SignalResults  \* what signalling the own group may return

ASSUME SignalsAreObserved == SignalResults \subseteq TermObservations

VARIABLES
    guardian,  \* the guardian's own state
    shell      \* the shell it starts, and what was done to it

guardianVars == <<guardian, shell>>

GuardianStates ==
    {"starting", "ready", "granted", "shell_spawned", "cleaning", "exited"}

\* verifying counts the verifications of the topology that await their probes. The
\* variable deadlineTimer tracks one timer, the latest launch deadline or the
\* cleanup KILL; a tracked timer that is overwritten stays armed, and older counts
\* the deadlines of earlier grants among those.
GuardianType ==
    [state          : GuardianStates,
     helloReceived  : BOOLEAN,
     verifying      : Nat,
     cleanupStarted : BOOLEAN,
     armed          : SUBSET {"deadline", "kill"},
     older          : Nat,
     deadlineTimer  : {"none", "deadline", "kill"}]

NoOutcome == [code |-> Null, signal |-> Null]
ShellOutcomes == {[code |-> c, signal |-> Null] : c \in ShellCodes}
                 \cup {[code |-> Null, signal |-> s] : s \in Signals}

\* started counts the processes that spawn() created; process and outcome are the
\* first one's, and further counts the others that still run. reporting is the
\* `spawn' or `error' event that Node queues before any other handler runs.
ShellType ==
    [process   : {"none", "running", "exited", "killed"},
     started   : Nat,
     further   : Nat,
     reporting : {"no", "spawn", "error"},
     outcome   : ShellOutcomes \cup {NoOutcome},
     terms     : Nat,
     kills     : Nat]

NewGuardian ==
    [state |-> "starting", helloReceived |-> FALSE, verifying |-> 0,
     cleanupStarted |-> FALSE, armed |-> {}, older |-> 0, deadlineTimer |-> "none"]

NoShell ==
    [process |-> "none", started |-> 0, further |-> 0, reporting |-> "no",
     outcome |-> NoOutcome, terms |-> 0, kills |-> 0]

\* The event loop is free to run a handler.
Running == guardianProcess = "running" /\ shell.reporting = "no"

Receive(type) ==
    /\ Running
    /\ guardianEnd
    /\ toGuardian # << >>
    /\ Head(toGuardian).type = type
    /\ toGuardian' = Tail(toGuardian)

\* stop(): clears the tracked timer, ends the probe, disconnects. A verification
\* that is still pending finds the guardian stopped, and returns.
Stopped(g) ==
    [g EXCEPT !.state = "exited", !.verifying = 0,
              !.armed = @ \ {g.deadlineTimer}]

Stop == guardian' = Stopped(guardian) /\ guardianEnd' = FALSE

\* Mutated: cleanup() may run again.
CleanupAllowedAgain == guardian.state # "exited"

CleanupAllowed == ~guardian.cleanupStarted /\ guardian.state # "exited"

\* Mutated: the KILL timer is never set.
GraceForEver(g) ==
    [g EXCEPT !.cleanupStarted = TRUE, !.state = "cleaning"]

\* The grace that follows TERM, until the KILL timer fires.
Grace(g) ==
    [g EXCEPT !.cleanupStarted = TRUE, !.state = "cleaning",
              !.armed = @ \cup {"kill"}, !.deadlineTimer = "kill"]

\* cleanup(): its cause, TERM to the own group once, then the grace. The shell is
\* in the group; whether it heeds TERM is its own affair.
Cleanup(g, sh, receipt, cause) ==
    IF CleanupAllowed
    THEN \E observation \in SignalResults :
            /\ guardian' = Grace(g)
            /\ shell' = [sh EXCEPT !.terms = @ + 1]
            /\ SendToRunner(receipt \o cause \o
                   <<[type |-> "cleanup_term", observation |-> observation]>>)
    ELSE /\ guardian' = g
         /\ shell' = sh
         /\ SendToRunner(receipt)

-----------------------------------------------------------------------------
(* Readiness *)

GuardianBoots ==
    /\ guardianProcess = "booting"
    /\ guardianProcess' = "running"
    /\ SendToRunner(<<[type |-> "hello"]>>)
    /\ UNCHANGED <<guardianVars, toGuardian, ends, expired>>

\* Every hello_reply that arrives while starting begins a verification: its two
\* process-group probes.
GuardianHelloReply ==
    /\ Receive("hello_reply")
    /\ guardian' = IF guardian.state = "starting"
                   THEN [guardian EXCEPT !.helloReceived = TRUE, !.verifying = @ + 1]
                   ELSE guardian
    /\ UNCHANGED <<shell, toRunner, ends, guardianProcess, expired>>

\* Two seconds without the hello_reply.
GuardianReadinessTimeout ==
    /\ Running
    /\ guardian.state = "starting" /\ ~guardian.helloReceived
    /\ Stop
    /\ UNCHANGED <<shell, toRunner, toGuardian, runnerEnd, guardianProcess, expired>>

\* Both probes of one verification answered. A verified topology makes the guardian
\* ready, whatever it has become since; any other stops it.
GuardianTopology(ok) ==
    /\ Running /\ guardian.verifying > 0
    /\ SendToRunner(<<[type |-> "topology", ok |-> ok]>>)
    /\ IF ok
       THEN /\ guardian' = [guardian EXCEPT !.verifying = @ - 1, !.state = "ready"]
            /\ UNCHANGED guardianEnd
       ELSE Stop
    /\ UNCHANGED <<shell, toGuardian, runnerEnd, guardianProcess, expired>>

-----------------------------------------------------------------------------
(* The grant *)

\* Mutated: a grant is honoured in any state but the last.
GrantAcceptedLate == guardian.state # "exited" /\ guardian.helloReceived

GrantAccepted == guardian.state = "ready" /\ guardian.helloReceived

\* Mutated: the deadline is left to the timer.
TooLateToSpawnNever == FALSE

TooLateToSpawn == expired

GrantRefused ==
    /\ Receive("grant") /\ ~GrantAccepted
    /\ SendToRunner(<<[type |-> "protocol_violation"]>>)
    /\ UNCHANGED <<guardianVars, ends, guardianProcess, expired>>

GrantExpired ==
    /\ Receive("grant") /\ GrantAccepted /\ TooLateToSpawn
    /\ SendToRunner(<<[type |-> "deadline"],
                      [type |-> "shell_error", reason |-> "expired_before_spawn"]>>)
    /\ Stop
    /\ UNCHANGED <<shell, runnerEnd, guardianProcess, expired>>

\* The launch deadline of a grant takes the place of whatever timer was tracked.
Granted(g) ==
    [g EXCEPT !.state = "granted", !.deadlineTimer = "deadline",
              !.armed = @ \cup {"deadline"},
              !.older = IF "deadline" \in g.armed THEN @ + 1 ELSE @]

\* One more process.
Spawned(sh) ==
    IF sh.started = 0
    THEN [sh EXCEPT !.started = 1, !.reporting = "spawn", !.process = "running"]
    ELSE [sh EXCEPT !.started = @ + 1, !.reporting = "spawn", !.further = @ + 1]

\* spawn() returns with or without a process and queues its event.
GrantSpawns(started) ==
    /\ Receive("grant") /\ GrantAccepted /\ ~TooLateToSpawn
    /\ guardian' = Granted(guardian)
    /\ shell' = IF started THEN Spawned(shell) ELSE [shell EXCEPT !.reporting = "error"]
    /\ UNCHANGED <<toRunner, ends, guardianProcess, expired>>

Reported(event) ==
    /\ guardianProcess = "running" /\ shell.reporting = event
    /\ shell' = [shell EXCEPT !.reporting = "no"]

ShellSpawnEvent ==
    /\ Reported("spawn")
    /\ guardian' = [guardian EXCEPT !.state = "shell_spawned"]
    /\ SendToRunner(<<[type |-> "shell_spawned"]>>)
    /\ UNCHANGED <<toGuardian, ends, guardianProcess, expired>>

\* The `error' event; a spawn() that throws does the same.
ShellErrorEvent ==
    /\ Reported("error")
    /\ SendToRunner(<<[type |-> "shell_error", reason |-> "spawn"]>>)
    /\ Stop
    /\ UNCHANGED <<toGuardian, runnerEnd, guardianProcess, expired>>

\* Some shell has exited.
ShellExited ==
    shell.started > shell.further + (IF shell.process = "running" THEN 1 ELSE 0)

\* The `error' event after some shell's exit is ignored.
ShellErrorIgnored ==
    /\ ShellExited /\ Reported("error")
    /\ UNCHANGED <<guardian, link>>

-----------------------------------------------------------------------------
(* Cleanup *)

\* A shell ended, by itself or by a signal: the receipt, then cleanup().
ShellExitEvent(outcome) ==
    /\ Running
    /\ \/ /\ shell.process = "running"
          /\ Cleanup(guardian, [shell EXCEPT !.process = "exited", !.outcome = outcome],
                     <<[type |-> "shell_exit", outcome |-> outcome]>>, << >>)
       \/ /\ shell.further > 0
          /\ Cleanup(guardian, [shell EXCEPT !.further = @ - 1],
                     <<[type |-> "shell_exit", outcome |-> outcome]>>, << >>)
    /\ UNCHANGED <<toGuardian, ends, guardianProcess, expired>>

\* A launch-deadline timer. It still fires when a cleanup or another grant has
\* replaced it in the variable; after a cleanup it finds nothing to do.
GuardianDeadline ==
    /\ Running /\ expired
    /\ \/ /\ "deadline" \in guardian.armed
          /\ Cleanup([guardian EXCEPT !.armed = @ \ {"deadline"}], shell,
                     << >>, <<[type |-> "deadline"]>>)
       \/ /\ guardian.older > 0
          /\ Cleanup([guardian EXCEPT !.older = @ - 1], shell,
                     << >>, <<[type |-> "deadline"]>>)
    /\ UNCHANGED <<toGuardian, ends, guardianProcess, expired>>

\* The grace is over: the intent, then KILL to the own group, which ends this
\* guardian and every shell; the intent may not get out.
GuardianKill ==
    /\ Running /\ "kill" \in guardian.armed
    /\ \/ /\ "returned" \in SignalResults
          /\ \/ SendToRunner(<<[type |-> "cleanup_kill_intent"]>>)
             \/ UNCHANGED toRunner
          /\ guardianProcess' = "gone"
          /\ guardianEnd' = FALSE
          /\ shell' = [shell EXCEPT !.kills = @ + 1, !.further = 0,
                 !.process = IF @ = "running" THEN "killed" ELSE @]
          /\ UNCHANGED guardian
       \/ /\ "error" \in SignalResults
          /\ SendToRunner(<<[type |-> "cleanup_kill_intent"]>>)
          /\ guardian' = Stopped([guardian EXCEPT !.armed = @ \ {"kill"}])
          /\ guardianEnd' = FALSE
          /\ shell' = [shell EXCEPT !.kills = @ + 1]
          /\ UNCHANGED guardianProcess
    /\ UNCHANGED <<toGuardian, runnerEnd, expired>>

\* TERM from outside, or the guardian's own: cleans up once a grant was taken
\* and stops before that.
GuardianSigterm ==
    /\ Running
    /\ IF guardian.state \in {"granted", "shell_spawned", "cleaning"}
       THEN /\ Cleanup(guardian, shell, << >>, << >>)
            /\ UNCHANGED guardianEnd
       ELSE /\ Stop
            /\ UNCHANGED <<shell, toRunner>>
    /\ UNCHANGED <<toGuardian, runnerEnd, guardianProcess, expired>>

DisconnectCleans == guardian.state \in {"shell_spawned", "granted"}

\* The runner's end closed.
GuardianDisconnect ==
    /\ Running /\ GuardianSeesDisconnect
    /\ IF DisconnectCleans
       THEN Cleanup(guardian, shell, << >>, << >>)
       ELSE /\ guardian' = Stopped(guardian)
            /\ UNCHANGED <<shell, toRunner>>
    /\ guardianEnd' = FALSE
    /\ UNCHANGED <<toGuardian, runnerEnd, guardianProcess, expired>>

-----------------------------------------------------------------------------
(* The end of the process, and the clock *)

\* A stopped guardian exits when neither a timer nor a child holds its loop.
GuardianExits ==
    /\ Running /\ guardian.state = "exited"
    /\ guardian.armed = {} /\ guardian.older = 0
    /\ shell.process # "running" /\ shell.further = 0
    /\ guardianProcess' = "gone"
    /\ UNCHANGED <<guardianVars, toRunner, toGuardian, ends, expired>>

\* It cannot be started, or is killed from outside; its shell, if any, lives on.
GuardianCrash ==
    /\ guardianProcess \in {"booting", "running"}
    /\ guardianProcess' = "gone"
    /\ guardianEnd' = FALSE
    /\ UNCHANGED <<guardianVars, toRunner, toGuardian, runnerEnd, expired>>

DeadlinePasses ==
    /\ ~expired
    /\ expired' = TRUE
    /\ UNCHANGED <<guardianVars, toRunner, toGuardian, ends, guardianProcess>>

\* What the guardian's own handlers and timers do; and what its shells do.
GuardianWorks ==
    \/ GuardianBoots \/ GuardianHelloReply \/ GuardianReadinessTimeout
    \/ \E ok \in BOOLEAN : GuardianTopology(ok)
    \/ GrantRefused \/ GrantExpired
    \/ \E started \in BOOLEAN : GrantSpawns(started)
    \/ ShellSpawnEvent \/ ShellErrorEvent \/ ShellErrorIgnored
    \/ GuardianDeadline \/ GuardianKill \/ GuardianDisconnect
    \/ GuardianExits

GuardianStep ==
    \/ GuardianWorks
    \/ \E outcome \in ShellOutcomes : ShellExitEvent(outcome)
=============================================================================
